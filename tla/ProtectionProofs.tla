-------------------------- MODULE ProtectionProofs --------------------------
(***************************************************************************)
(* For any number of workers, routes, buckets and deployments: what the    *)
(* checks of MessagePipeline.Process promise together.                     *)
(***************************************************************************)
EXTENDS Protection, RateLimiterProofs

USE SMTT(30), ZenonT(30)

-----------------------------------------------------------------------------
(* The order of the stages.                                                *)

(* The chain, spelt out.                                                   *)
LEMMA ChainIs ==
  /\ DOMAIN Chain = 1..11
  /\ Chain[1] = "overload" /\ Chain[2] = "session" /\ Chain[3] = "client" /\ Chain[4] = "black"
  /\ Chain[5] = "global" /\ Chain[6] = "waf" /\ Chain[7] = "breaker" /\ Chain[8] = "integrity"
  /\ Chain[9] = "filters" /\ Chain[10] = "degrade" /\ Chain[11] = "send"
BY DEF Chain

(* A set of positions that has the last one has a first.                   *)
LEMMA FirstOf ==
  ASSUME NEW S \in SUBSET (1..11), 11 \in S
  PROVE  \E m \in S : \A i \in S : m <= i
<1>1. ASSUME NEW m \in 1..11, \A i \in 1..(m - 1) : i \notin S, m \in S
      PROVE  \E n \in S : \A i \in S : n <= i
  <2>1. \A i \in S : m <= i
    BY <1>1
  <2> QED BY <1>1, <2>1, ZenonT(30)
<1>2. \E m \in 1..11 : m \in S /\ \A i \in 1..(m - 1) : i \notin S
  <2>1. CASE 1 \in S
    BY <2>1
  <2>2. CASE 1 \notin S /\ 2 \in S
    BY <2>2
  <2>3. CASE {1, 2} \cap S = {} /\ 3 \in S
    BY <2>3
  <2>4. CASE {1, 2, 3} \cap S = {} /\ 4 \in S
    BY <2>4
  <2>5. CASE {1, 2, 3, 4} \cap S = {} /\ 5 \in S
    BY <2>5
  <2>6. CASE {1, 2, 3, 4, 5} \cap S = {} /\ 6 \in S
    BY <2>6
  <2>7. CASE {1, 2, 3, 4, 5, 6} \cap S = {} /\ 7 \in S
    BY <2>7
  <2>8. CASE {1, 2, 3, 4, 5, 6, 7} \cap S = {} /\ 8 \in S
    BY <2>8
  <2>9. CASE {1, 2, 3, 4, 5, 6, 7, 8} \cap S = {} /\ 9 \in S
    BY <2>9
  <2>10. CASE {1, 2, 3, 4, 5, 6, 7, 8, 9} \cap S = {} /\ 10 \in S
    BY <2>10
  <2>11. CASE {1, 2, 3, 4, 5, 6, 7, 8, 9, 10} \cap S = {}
    BY <2>11
  <2> QED BY <2>2, <2>3, <2>4, <2>5, <2>6, <2>7, <2>8, <2>9, <2>10, <2>11
<1> QED BY <1>1, <1>2, ZenonT(30)

(* From goes to the first stage at or after s that is present.             *)
LEMMA FromIs ==
  ASSUME NEW n \in 1..11
  PROVE  \E m \in n..11 : /\ From(Chain[n]) = Chain[m]
                          /\ Present(Chain[m])
                          /\ \A i \in n..(m - 1) : ~Present(Chain[i])
<1> DEFINE start == CHOOSE i \in DOMAIN Chain : Chain[i] = Chain[n]
           S == {i \in DOMAIN Chain : i >= start /\ Present(Chain[i])}
<1>1. start = n
  <2>1. \A i, j \in DOMAIN Chain : Chain[i] = Chain[j] => i = j
    BY DEF Chain
  <2> QED BY <2>1, ChainIs, ZenonT(30)
<1>2. Present(Chain[11])
  BY ChainIs, ZenonT(30) DEF Present
<1>3. S \in SUBSET (1..11) /\ 11 \in S
  BY <1>2, ChainIs
<1>4. \E i \in S : \A j \in S : i <= j
  BY <1>3, FirstOf, ZenonT(30)
<1>5. From(Chain[n]) = Chain[CHOOSE i \in S : \A j \in S : i <= j]
  BY ZenonT(30) DEF From
<1>6. PICK m \in S : m = (CHOOSE i \in S : \A j \in S : i <= j) /\ \A i \in S : m <= i
  BY <1>4, ZenonT(30)
<1>7. m \in n..11 /\ Present(Chain[m]) /\ \A i \in n..(m - 1) : ~Present(Chain[i])
  <2>1. m \in 1..11 /\ m >= n /\ Present(Chain[m])
    BY <1>1, <1>3, ZenonT(30)
  <2>2. ASSUME NEW i \in n..(m - 1) PROVE ~Present(Chain[i])
    <3>1. i \in 1..11 /\ i < m
      BY <2>1
    <3> HIDE DEF S
    <3>2. i \notin S
      <4>1. \A j \in S : m <= j
        BY <1>6, ZenonT(30)
      <4> QED BY <2>1, <3>1, <4>1
    <3> QED BY <1>1, <3>1, <3>2, ChainIs DEF S
  <2> QED BY <2>1, <2>2
<1> QED BY <1>5, <1>6, <1>7, ZenonT(30)


Stages == {"idle", "overload", "session", "client", "black", "white", "listed", "global", "global bucket",
           "ip", "ip bucket", "route", "route bucket", "waf", "breaker", "admission", "integrity",
           "filters", "degrade", "cool", "send", "failed breaker", "forwarded breaker", "failed rule",
           "forwarded rule", "degrading"}

\* The message of the worker has been counted.
Decided == {"idle", "failed breaker", "forwarded breaker", "failed rule", "forwarded rule", "degrading"}

\* The components a stage of the chain stands for.
Checks(s) ==
  CASE s = "black"   -> {"lists"}
    [] s = "global"  -> {"limit"}
    [] s = "filters" -> {"jwt", "canary", "wasm", "mirror"}
    [] s = "degrade" -> {"degradation"}
    [] s \in {"waf", "breaker", "integrity"} -> {s}
    [] OTHER -> {}

\* The stage of the chain a worker is in; "idle" and what follows "send" are before the first.
Place(s) ==
  CASE s = "session" -> 2
    [] s = "client" -> 3
    [] s \in {"black", "white", "listed"} -> 4
    [] s \in {"global", "global bucket", "ip", "ip bucket", "route", "route bucket"} -> 5
    [] s = "waf" -> 6
    [] s \in {"breaker", "admission"} -> 7
    [] s = "integrity" -> 8
    [] s = "filters" -> 9
    [] s \in {"degrade", "cool"} -> 10
    [] s = "send" -> 11
    [] OTHER -> 1

\* What the stages before the n-th check.
Needed(n) == {c \in scene.on : \E i \in 1..(n - 1) : c \in Checks(Chain[i])}

(* A stage that is absent checks nothing the deployment has.               *)
LEMMA AbsentChecks ==
  ASSUME NEW i \in 1..11, ~Present(Chain[i])
  PROVE  scene.on \cap Checks(Chain[i]) = {}
<1>1. i \in {1, 2, 3, 4, 5, 6, 7, 8, 9, 10, 11}
  OBVIOUS
<1>2. CASE i \in {1, 2, 3, 11}
  BY <1>2, ChainIs, ZenonT(30) DEF Checks
<1>3. CASE i \in {4, 5, 9, 10}
  BY <1>3, ChainIs, ZenonT(30) DEF Checks, Present, On
<1>4. CASE i \in {6, 7, 8}
  BY <1>4, ChainIs, ZenonT(30) DEF Checks, Present, On
<1> QED BY <1>1, <1>2, <1>3, <1>4, ZenonT(30)

(* The stages of the chain are stages, in their place.                     *)
LEMMA ChainPlaces == \A m \in 1..11 : Chain[m] \in Stages \ Decided /\ Place(Chain[m]) = m
<1> SUFFICES ASSUME NEW m \in 1..11 PROVE Chain[m] \in Stages \ Decided /\ Place(Chain[m]) = m
  BY ZenonT(30)
<1>1. m \in {1, 2, 3, 4, 5, 6, 7, 8, 9, 10, 11}
  OBVIOUS
<1> QED BY <1>1, ChainIs DEF Stages, Decided, Place

(* The places of the stages within a stage, and of those after the chain.  *)
LEMMA StagePlaces ==
  /\ Needed(1) = {}
  /\ \A s \in {"idle", "failed breaker", "forwarded breaker", "failed rule", "forwarded rule", "degrading"} :
       Place(s) = 1
  /\ \A s \in {"black", "white", "listed"} : Place(s) = 4
  /\ \A s \in {"global", "global bucket", "ip", "ip bucket", "route", "route bucket"} : Place(s) = 5
  /\ \A s \in {"breaker", "admission"} : Place(s) = 7
  /\ \A s \in {"degrade", "cool"} : Place(s) = 10
<1>1. Needed(1) = {}
  BY DEF Needed
<1>2. \A s \in {"idle", "failed breaker", "forwarded breaker", "failed rule", "forwarded rule", "degrading"} :
        Place(s) = 1
  BY ZenonT(30) DEF Place
<1>3. \A s \in {"black", "white", "listed"} : Place(s) = 4
  BY ZenonT(30) DEF Place
<1>4. \A s \in {"global", "global bucket", "ip", "ip bucket", "route", "route bucket"} : Place(s) = 5
  BY ZenonT(30) DEF Place
<1>5. \A s \in {"breaker", "admission"} : Place(s) = 7
  BY ZenonT(30) DEF Place
<1>6. \A s \in {"degrade", "cool"} : Place(s) = 10
  BY ZenonT(30) DEF Place
<1> QED BY <1>1, <1>2, <1>3, <1>4, <1>5, <1>6, ZenonT(30)

(* A message that has passed the stages up to the n-th goes on to a stage  *)
(* before which it has passed all there is.                                *)
LEMMA GoesOn ==
  ASSUME NEW n \in 1..10, NEW P, Needed(n) \subseteq P, scene.on \cap Checks(Chain[n]) \subseteq P
  PROVE  From(Chain[n + 1]) \in Stages \ Decided /\ Needed(Place(From(Chain[n + 1]))) \subseteq P
<1>1. PICK m \in (n + 1)..11 : /\ From(Chain[n + 1]) = Chain[m]
                               /\ \A i \in (n + 1)..(m - 1) : ~Present(Chain[i])
  BY FromIs
<1>2. From(Chain[n + 1]) \in Stages \ Decided /\ Place(From(Chain[n + 1])) = m
  BY <1>1, ChainPlaces
<1>3. \A i \in (n + 1)..(m - 1) : scene.on \cap Checks(Chain[i]) = {}
  BY <1>1, AbsentChecks
<1>4. ASSUME NEW c \in Needed(m) PROVE c \in P
  <2>1. PICK i \in 1..(m - 1) : c \in Checks(Chain[i]) /\ c \in scene.on
    BY <1>4, ZenonT(30) DEF Needed
  <2>2. i <= n
    BY <1>3, <2>1
  <2>3. CASE i = n
    BY <2>1, <2>3, ZenonT(30)
  <2>4. CASE i < n
    BY <2>1, <2>4 DEF Needed
  <2> QED BY <2>2, <2>3, <2>4
<1> QED BY <1>2, <1>4, ZenonT(30)

-----------------------------------------------------------------------------
(* Process.                                                                *)

Outcomes == {"overload", "auth", "rateLimit", "noLogic", "blacklist", "waf", "circuit", "integrity",
             "filter", "failed", "forwarded"}

Message == [cmd : scene.cmds \cup {None}, seq : Seqs \cup {0}, bad : BOOLEAN, client : BOOLEAN,
            route : Routes \cup {None, Target}]

\* What a message can pass.
Passable == {"overload", "session", "lists", "limit", "waf", "breaker", "integrity", "degradation"} \cup Filters

GateType ==
  /\ scene \in Scenes
  /\ now \in Nat
  /\ stage \in [Workers -> Stages]
  /\ msg \in [Workers -> Message]
  /\ passed \in [Workers -> SUBSET Passable]
  /\ counter \in [Outcomes -> Nat]
  /\ left \in Nat

\* A worker at work has a command of the deployment.
Commanded == \A w \in Workers : stage[w] # "idle" => msg[w].cmd \in scene.cmds

\* It has passed all the checks before the stage it is in.
PassedAll == \A w \in Workers : Needed(Place(stage[w])) \subseteq passed[w]

Undecided == {w \in Workers : stage[w] \notin Decided}

Total == counter.overload + counter.auth + counter.rateLimit + counter.noLogic + counter.blacklist
         + counter.waf + counter.circuit + counter.integrity + counter.filter
         + counter.failed + counter.forwarded

Accounts == Total + Cardinality(Undecided) = scene.msgs - left

GateInv == GateType /\ Commanded /\ PassedAll /\ Accounts

(* Sets of workers are finite.                                             *)
LEMMA WorkersFinite ==
  ASSUME NEW S \in SUBSET Workers
  PROVE  IsFiniteSet(S) /\ Cardinality(S) \in Nat
BY ProtectionAssumption, FS_Subset, FS_CardinalityType, ZenonT(30)

(* One counter more makes the total one more.                              *)
LEMMA TotalGrows ==
  ASSUME counter \in [Outcomes -> Nat], NEW o \in Outcomes, counter' = [counter EXCEPT ![o] = @ + 1]
  PROVE  Total' = Total + 1 /\ Total \in Nat /\ counter' \in [Outcomes -> Nat]
<1>1. counter' \in [Outcomes -> Nat]
  BY DEF Outcomes
<1>2. /\ counter'[o] = counter[o] + 1 /\ \A q \in Outcomes \ {o} : counter'[q] = counter[q]
      /\ \A q \in Outcomes : counter[q] \in Nat
  BY ZenonT(30)
<1> QED BY <1>1, <1>2 DEF Total, Outcomes

(* Where a step of one worker leads.                                       *)
LEMMA Lands ==
  ASSUME GateInv, NEW w \in Workers, NEW s \in Stages, NEW P \in SUBSET Passable, NEW m \in Message,
         UNCHANGED <<scene, now>>, stage' = [stage EXCEPT ![w] = s], passed' = [passed EXCEPT ![w] = P],
         msg' = [msg EXCEPT ![w] = m], counter' \in [Outcomes -> Nat], left' \in Nat,
         s # "idle" => m.cmd \in scene.cmds, Needed(Place(s)) \subseteq P
  PROVE  GateType' /\ Commanded' /\ PassedAll'
<1>1. Message' = Message /\ \A n : Needed(n)' = Needed(n)
  BY ZenonT(30) DEF GateInv, Message, Needed
<1>2. /\ stage'[w] = s /\ passed'[w] = P /\ msg'[w] = m
      /\ \A v \in Workers \ {w} : stage'[v] = stage[v] /\ passed'[v] = passed[v] /\ msg'[v] = msg[v]
  BY ZenonT(30) DEF GateInv, GateType
<1>3. GateType'
  BY <1>1, ZenonT(30) DEF GateInv, GateType
<1>4. Commanded'
  BY <1>2, ZenonT(30) DEF GateInv, Commanded
<1>5. PassedAll'
  <2> SUFFICES ASSUME NEW v \in Workers PROVE Needed(Place(stage'[v])) \subseteq passed'[v]
    BY <1>1, ZenonT(30) DEF GateInv, PassedAll
  <2> QED BY <1>2, ZenonT(30) DEF GateInv, PassedAll
<1> QED BY <1>3, <1>4, <1>5, ZenonT(30)

(* How the number of undecided messages follows a worker.                  *)
LEMMA UndecidedMoves ==
  ASSUME stage \in [Workers -> Stages], NEW w \in Workers, NEW s, stage' = [stage EXCEPT ![w] = s]
  PROVE  /\ Cardinality(Undecided) \in Nat
         /\ (stage[w] \in Decided <=> s \in Decided) => Cardinality(Undecided') = Cardinality(Undecided)
         /\ stage[w] \in Decided /\ s \notin Decided => Cardinality(Undecided') = Cardinality(Undecided) + 1
         /\ stage[w] \notin Decided /\ s \in Decided => Cardinality(Undecided') = Cardinality(Undecided) - 1
<1> HIDE DEF Decided
<1>0. IsFiniteSet(Undecided) /\ Cardinality(Undecided) \in Nat
  BY WorkersFinite, ZenonT(30) DEF Undecided
<1>1. stage'[w] = s /\ \A v \in Workers \ {w} : stage'[v] = stage[v]
  BY ZenonT(30)
<1>2. ASSUME stage[w] \in Decided <=> s \in Decided PROVE Undecided' = Undecided
  BY <1>1, <1>2, ZenonT(30) DEF Undecided
<1>3. ASSUME stage[w] \in Decided, s \notin Decided PROVE Cardinality(Undecided') = Cardinality(Undecided) + 1
  <2>1. Undecided' = Undecided \cup {w} /\ w \notin Undecided
    BY <1>1, <1>3, ZenonT(30) DEF Undecided
  <2> QED BY <1>0, <2>1, FS_AddElement, ZenonT(30)
<1>4. ASSUME stage[w] \notin Decided, s \in Decided PROVE Cardinality(Undecided') = Cardinality(Undecided) - 1
  <2>1. Undecided' = Undecided \ {w} /\ w \in Undecided
    BY <1>1, <1>4, ZenonT(30) DEF Undecided
  <2> QED BY <1>0, <2>1, FS_RemoveElement, ZenonT(30)
<1> QED BY <1>0, <1>2, <1>3, <1>4, ZenonT(30)

(* A worker goes on within Process.                                        *)
LEMMA GoesTo ==
  ASSUME GateInv, NEW w \in Workers, NEW s \in Stages, NEW P \in SUBSET Passable, NEW m \in Message,
         UNCHANGED <<scene, now, left>>, Goto(w, s), passed' = [passed EXCEPT ![w] = P],
         msg' = [msg EXCEPT ![w] = m], stage[w] # "idle", m.cmd = msg[w].cmd,
         Needed(Place(s)) \subseteq P, stage[w] \in Decided <=> s \in Decided
  PROVE  GateInv'
<1>1. stage' = [stage EXCEPT ![w] = s] /\ counter' = counter
  BY ZenonT(30) DEF Goto
<1>2. msg[w].cmd \in scene.cmds
  BY ZenonT(30) DEF GateInv, Commanded
<1>3. GateType' /\ Commanded' /\ PassedAll'
  BY <1>1, <1>2, Lands, ZenonT(30) DEF GateInv, GateType
<1>4. Accounts'
  BY <1>1, UndecidedMoves, ZenonT(30) DEF GateInv, GateType, Accounts, Total
<1> QED BY <1>3, <1>4, ZenonT(30) DEF GateInv

(* Process drops the message.                                              *)
LEMMA Drops ==
  ASSUME GateInv, NEW w \in Workers, NEW o \in Outcomes, NEW m \in Message,
         UNCHANGED <<scene, now, left, passed>>, Drop(w, o), msg' = [msg EXCEPT ![w] = m],
         stage[w] \notin Decided
  PROVE  GateInv'
<1>1. stage' = [stage EXCEPT ![w] = "idle"] /\ counter' = [counter EXCEPT ![o] = @ + 1]
  BY ZenonT(30) DEF GateInv, Drop
<1>2. passed' = [passed EXCEPT ![w] = passed[w]] /\ passed[w] \in SUBSET Passable
  BY ZenonT(30) DEF GateInv, GateType
<1>3. Needed(Place("idle")) \subseteq passed[w] /\ "idle" \in Stages /\ "idle" \in Decided
  BY StagePlaces, ZenonT(30) DEF GateInv, Stages, Decided
<1>4. Total' = Total + 1 /\ Total \in Nat /\ counter' \in [Outcomes -> Nat]
  BY <1>1, TotalGrows, ZenonT(30) DEF GateInv, GateType
<1>5. GateType' /\ Commanded' /\ PassedAll'
  BY <1>1, <1>2, <1>3, <1>4, Lands, ZenonT(30) DEF GateInv, GateType
<1>6. Cardinality(Undecided') = Cardinality(Undecided) - 1 /\ Cardinality(Undecided) \in Nat
  BY <1>1, <1>3, UndecidedMoves, ZenonT(30) DEF GateInv, GateType
<1>7. Accounts'
  BY <1>4, <1>6 DEF GateInv, Accounts
<1> QED BY <1>5, <1>7, ZenonT(30) DEF GateInv

(* The same steps, for a worker whose message stays as it is.              *)
LEMMA Keeps ==
  ASSUME GateInv, NEW w \in Workers, UNCHANGED msg
  PROVE  /\ msg[w] \in Message /\ msg' = [msg EXCEPT ![w] = msg[w]] /\ passed[w] \in SUBSET Passable
         /\ Needed(Place(stage[w])) \subseteq passed[w]
         /\ passed = [passed EXCEPT ![w] = passed[w]]
BY ZenonT(30) DEF GateInv, GateType, PassedAll

(* ... it is refused ...                                                   *)
LEMMA Refused ==
  ASSUME GateInv, NEW w \in Workers, UNCHANGED <<scene, now, left, msg>>, stage[w] \notin Decided,
         NEW o \in Outcomes, Refuse(w, o)
  PROVE  GateInv'
BY Keeps, Drops, ZenonT(30) DEF Refuse

(* ... or it goes on ...                                                   *)
LEMMA Continues ==
  ASSUME GateInv, NEW w \in Workers, UNCHANGED <<scene, now, left, msg, passed>>, stage[w] # "idle",
         NEW s \in Stages, Goto(w, s), Needed(Place(s)) \subseteq passed[w],
         stage[w] \in Decided <=> s \in Decided
  PROVE  GateInv'
BY Keeps, GoesTo, ZenonT(30)

(* ... having passed a check.                                              *)
LEMMA Passes ==
  ASSUME GateInv, NEW w \in Workers, UNCHANGED <<scene, now, left, msg>>, stage[w] \notin Decided,
         NEW s \in Stages \ Decided, NEW c \in Passable, Pass(w, c, s),
         Needed(Place(s)) \subseteq passed[w] \cup {c}
  PROVE  GateInv'
<1>1. Goto(w, s) /\ passed' = [passed EXCEPT ![w] = passed[w] \cup {c}] /\ passed[w] \cup {c} \in SUBSET Passable
  BY Keeps, ZenonT(30) DEF Pass
<1> QED BY <1>1, Keeps, GoesTo, ZenonT(30) DEF Decided

(* What is needed before the stage after the n-th, once the n-th has been  *)
(* passed.                                                                 *)
LEMMA PassesOn ==
  ASSUME NEW n \in 1..10, NEW P, Needed(n) \subseteq P, NEW c, scene.on \cap Checks(Chain[n]) \subseteq {c}
  PROVE  /\ From(Chain[n + 1]) \in Stages \ Decided
         /\ Needed(Place(From(Chain[n + 1]))) \subseteq P \cup {c}
BY GoesOn, ZenonT(30)

(* The checks before the security chain.                                   *)
LEMMA EarlySteps ==
  ASSUME GateInv, NEW w \in Workers, CheckOverload(w) \/ CheckSession(w)
  PROVE  GateInv'
<1>0. UNCHANGED <<scene, now, left, msg>> /\ stage[w] \notin Decided
  BY ZenonT(30) DEF CheckOverload, CheckSession, Still, Env, Decided
<1>1. CASE CheckOverload(w)
  <2>1. stage[w] = "overload" /\ (Refuse(w, "overload") \/ Pass(w, "overload", "session"))
    BY <1>1, ZenonT(30) DEF CheckOverload
  <2>2. "session" \in Stages \ Decided /\ Needed(Place("session")) = {} /\ "overload" \in Outcomes
    <3>1. Place("session") = 2 /\ Checks(Chain[1]) = {}
      BY ChainIs, ChainPlaces DEF Checks
    <3> QED BY <3>1 DEF Needed, Stages, Decided, Outcomes
  <2>3. CASE Refuse(w, "overload")
    BY <1>0, <2>2, <2>3, Refused, ZenonT(30)
  <2>4. CASE Pass(w, "overload", "session")
    BY <1>0, <2>2, <2>4, Passes, ZenonT(30) DEF Passable
  <2> QED BY <2>1, <2>3, <2>4, ZenonT(30)
<1>2. CASE CheckSession(w)
  <2>1. stage[w] = "session" /\ (Refuse(w, "auth") \/ Refuse(w, "rateLimit") \/ Pass(w, "session", "client"))
    BY <1>2, ZenonT(30) DEF CheckSession
  <2>2. "client" \in Stages \ Decided /\ Needed(Place("client")) = {} /\ {"auth", "rateLimit"} \subseteq Outcomes
    <3>1. Place("client") = 3 /\ Checks(Chain[1]) = {} /\ Checks(Chain[2]) = {}
      BY ChainIs, ChainPlaces DEF Checks
    <3> QED BY <3>1 DEF Needed, Stages, Decided, Outcomes
  <2>3. ASSUME NEW o \in {"auth", "rateLimit"}, Refuse(w, o) PROVE GateInv'
    BY <1>0, <2>2, <2>3, Refused, ZenonT(30)
  <2>4. CASE Pass(w, "session", "client")
    BY <1>0, <2>2, <2>4, Passes, ZenonT(30) DEF Passable
  <2> QED BY <2>1, <2>3, <2>4, ZenonT(30)
<1> QED BY <1>1, <1>2, ZenonT(30)

(* The lists.                                                              *)
LEMMA ListSteps ==
  ASSUME GateInv, NEW w \in Workers, CheckBlacklist(w) \/ CheckWhitelistEmpty(w) \/ CheckWhitelisted(w)
  PROVE  GateInv'
<1>0. UNCHANGED <<scene, now, left, msg>> /\ stage[w] \in {"black", "white", "listed"} /\ stage[w] \notin Decided
  BY ZenonT(30) DEF CheckBlacklist, CheckWhitelistEmpty, CheckWhitelisted, Still, Env, Decided
<1>1. \/ Refuse(w, "blacklist") \/ Pass(w, "lists", From(Chain[5]))
      \/ Goto(w, "white") /\ UNCHANGED passed
      \/ Goto(w, "listed") /\ UNCHANGED passed
  BY ChainIs, ZenonT(30) DEF CheckBlacklist, CheckWhitelistEmpty, CheckWhitelisted, Refuse
<1>2. Needed(4) \subseteq passed[w] /\ Place("white") = 4 /\ Place("listed") = 4
  BY <1>0, Keeps, StagePlaces, ZenonT(30)
<1>3. scene.on \cap Checks(Chain[4]) \subseteq {"lists"}
  BY ChainIs, ZenonT(30) DEF Checks
<1>4. From(Chain[5]) \in Stages \ Decided /\ Needed(Place(From(Chain[5]))) \subseteq passed[w] \cup {"lists"}
  BY <1>2, <1>3, PassesOn
<1>5. {"white", "listed"} \subseteq Stages \ Decided /\ "blacklist" \in Outcomes
  BY ZenonT(30) DEF Stages, Decided, Outcomes
<1>6. CASE Refuse(w, "blacklist")
  BY <1>0, <1>5, <1>6, Refused, ZenonT(30)
<1>7. CASE Pass(w, "lists", From(Chain[5]))
  BY <1>0, <1>4, <1>7, Passes, ZenonT(30) DEF Passable
<1>8. ASSUME NEW s \in {"white", "listed"}, Goto(w, s), UNCHANGED passed PROVE GateInv'
  BY <1>0, <1>2, <1>5, <1>8, Continues, ZenonT(30)
<1> QED BY <1>1, <1>6, <1>7, <1>8, ZenonT(30)

(* A message arrives.                                                      *)
LEMMA ReceiveStep == ASSUME GateInv, NEW w \in Workers, Receive(w) PROVE GateInv'
<1> DEFINE s == From("overload")
<1>1. PICK c \in scene.cmds, q \in Seqs \cup {0}, b \in BOOLEAN :
        msg' = [msg EXCEPT ![w] = [cmd |-> c, seq |-> q, bad |-> b, client |-> FALSE, route |-> c]]
  BY ZenonT(30) DEF Receive
<1>2. /\ UNCHANGED <<scene, now, counter>> /\ stage[w] = "idle" /\ left > 0 /\ left' = left - 1
      /\ stage' = [stage EXCEPT ![w] = s] /\ passed' = [passed EXCEPT ![w] = {}]
  BY ZenonT(30) DEF Receive, Goto, Still
<1>3. s \in Stages \ Decided /\ Needed(Place(s)) = {}
  <2>1. PICK m \in 1..11 : s = Chain[m] /\ \A i \in 1..(m - 1) : ~Present(Chain[i])
    BY FromIs, ChainIs
  <2>2. \A i \in 1..(m - 1) : scene.on \cap Checks(Chain[i]) = {}
    BY <2>1, AbsentChecks
  <2>3. Place(s) = m /\ s \in Stages \ Decided
    BY <2>1, ChainPlaces, ZenonT(30)
  <2> QED BY <2>2, <2>3, ZenonT(30) DEF Needed
<1> HIDE DEF s
<1>4. /\ [cmd |-> c, seq |-> q, bad |-> b, client |-> FALSE, route |-> c] \in Message
      /\ counter' \in [Outcomes -> Nat] /\ left' \in Nat /\ {} \in SUBSET Passable
  <2>1. scene.cmds \subseteq Routes
    BY ProtectionAssumption, ZenonT(30) DEF GateInv, GateType
  <2> QED BY <1>2, <2>1 DEF GateInv, GateType, Message
<1>5. GateType' /\ Commanded' /\ PassedAll'
  BY <1>1, <1>2, <1>3, <1>4, Lands, ZenonT(30)
<1>6. Cardinality(Undecided') = Cardinality(Undecided) + 1 /\ Cardinality(Undecided) \in Nat
  BY <1>2, <1>3, UndecidedMoves, ZenonT(30) DEF GateInv, GateType, Decided
<1>7. Total' = Total /\ Total \in Nat /\ scene.msgs \in Nat
  BY <1>2, ProtectionAssumption DEF Total, GateInv, GateType, Outcomes
<1>8. Accounts'
  BY <1>2, <1>6, <1>7 DEF Accounts, GateInv, GateType
<1> QED BY <1>5, <1>8, ZenonT(30) DEF GateInv

(* The logic client is looked up; the fast path is taken by a deployment   *)
(* that has nothing to check.                                              *)
LEMMA ClientStep == ASSUME GateInv, NEW w \in Workers, FindClient(w) PROVE GateInv'
<1>1. PICK b \in BOOLEAN : msg' = [msg EXCEPT ![w].client = b]
  BY ZenonT(30) DEF FindClient
<1> DEFINE m == [msg[w] EXCEPT !.client = b]
<1>2. msg[w] \in Message /\ passed[w] \in SUBSET Passable /\ passed = [passed EXCEPT ![w] = passed[w]]
  BY ZenonT(30) DEF GateInv, GateType
<1>3. m \in Message /\ m.cmd = msg[w].cmd /\ msg' = [msg EXCEPT ![w] = m]
  BY <1>1, <1>2, ZenonT(30) DEF Message
<1> HIDE DEF m
<1>4. UNCHANGED <<scene, now, left, passed>> /\ stage[w] = "client" /\ stage[w] \notin Decided
  BY ZenonT(30) DEF FindClient, Still, Env, Decided
<1>5. CASE Drop(w, "noLogic")
  BY <1>3, <1>4, <1>5, Drops, ZenonT(30) DEF Outcomes
<1>6. Needed(3) = {} /\ scene.on \cap Checks(Chain[3]) = {} /\ Needed(4) = {}
  <2>1. Checks(Chain[1]) = {} /\ Checks(Chain[2]) = {} /\ Checks(Chain[3]) = {}
    BY ChainIs, ZenonT(30) DEF Checks
  <2> QED BY <2>1 DEF Needed
<1>7. CASE Goto(w, "send") /\ FastPath
  <2>1. Place("send") = 11 /\ "send" \in Stages \ Decided
    BY ChainIs, ChainPlaces
  <2>2. Needed(11) = {}
    <3>1. ASSUME NEW i \in 1..10 PROVE scene.on \cap Checks(Chain[i]) = {}
      <4>1. Checks(Chain[i]) \subseteq {"lists", "limit", "waf", "breaker", "integrity"} \cup Filters
        <5>1. i \in {1, 2, 3, 4, 5, 6, 7, 8, 9, 10}
          OBVIOUS
        <5> QED BY <5>1, ChainIs, ZenonT(30) DEF Checks, Filters
      <4> QED BY <1>7, <4>1, ZenonT(30) DEF FastPath
    <3> QED BY <3>1 DEF Needed
  <2> QED BY <1>2, <1>3, <1>4, <1>7, <2>1, <2>2, GoesTo, ZenonT(30)
<1>8. CASE Goto(w, From("black"))
  <2>1. From(Chain[4]) \in Stages \ Decided /\ Needed(Place(From(Chain[4]))) \subseteq passed[w]
    BY <1>6, GoesOn
  <2>2. Goto(w, From(Chain[4]))
    BY <1>8, ChainIs, ZenonT(30)
  <2> QED BY <1>2, <1>3, <1>4, <2>1, <2>2, GoesTo, ZenonT(30)
<1> QED BY <1>5, <1>7, <1>8, ZenonT(30) DEF FindClient

(* The limiter.                                                            *)
LEMMA LimitSteps == ASSUME GateInv, NEW w \in Workers, StartLimit(w) \/ LimitStep(w) PROVE GateInv'
<1> DEFINE Here == {"global", "global bucket", "ip", "ip bucket", "route", "route bucket"}
<1>0. UNCHANGED <<scene, now, left, msg>> /\ stage[w] \in Here /\ stage[w] \notin Decided /\ Here \subseteq Stages \ Decided
  BY ZenonT(30) DEF StartLimit, LimitStep, Still, Env, Decided, Stages
<1>1. \/ Refuse(w, "rateLimit") \/ Pass(w, "limit", From(Chain[6]))
      \/ \E s \in Here : Goto(w, s) /\ UNCHANGED passed
  BY ChainIs, ZenonT(30) DEF StartLimit, LimitStep
<1>2. Needed(5) \subseteq passed[w] /\ \A s \in Here : Place(s) = 5
  BY <1>0, Keeps, StagePlaces, ZenonT(30)
<1> HIDE DEF Here
<1>3. scene.on \cap Checks(Chain[5]) \subseteq {"limit"}
  BY ChainIs, ZenonT(30) DEF Checks
<1>4. From(Chain[6]) \in Stages \ Decided /\ Needed(Place(From(Chain[6]))) \subseteq passed[w] \cup {"limit"}
  BY <1>2, <1>3, PassesOn
<1>6. CASE Refuse(w, "rateLimit")
  BY <1>0, <1>6, Refused, ZenonT(30) DEF Outcomes
<1>7. CASE Pass(w, "limit", From(Chain[6]))
  BY <1>0, <1>4, <1>7, Passes, ZenonT(30) DEF Passable
<1>8. ASSUME NEW s \in Here, Goto(w, s), UNCHANGED passed PROVE GateInv'
  BY <1>0, <1>2, <1>8, Continues, ZenonT(30) DEF Decided
<1> QED BY <1>1, <1>6, <1>7, <1>8, ZenonT(30)

(* WAF, breaker and replay check.                                          *)
LEMMA SecuritySteps ==
  ASSUME GateInv, NEW w \in Workers,
         CheckWaf(w) \/ StartBreaker(w) \/ BreakerAdmission(w) \/ CheckIntegrity(w)
  PROVE  GateInv'
<1>0. UNCHANGED <<scene, now, left, msg>> /\ stage[w] \notin Decided
  BY ZenonT(30) DEF CheckWaf, StartBreaker, BreakerAdmission, CheckIntegrity, Still, Env, WafUnchanged, Decided
<1>1. Needed(Place(stage[w])) \subseteq passed[w]
  BY <1>0, Keeps, ZenonT(30)
<1>2. ASSUME NEW o \in {"waf", "circuit", "integrity"}, Refuse(w, o) PROVE GateInv'
  BY <1>0, <1>2, Refused, ZenonT(30) DEF Outcomes
<1>3. ASSUME NEW n \in 6..8, Place(stage[w]) = n, NEW c \in {"waf", "breaker", "integrity"}, c = Chain[n],
             Pass(w, c, From(Chain[n + 1]))
      PROVE  GateInv'
  <2>1. scene.on \cap Checks(Chain[n]) \subseteq {c}
    BY <1>3, ZenonT(30) DEF Checks
  <2>2. From(Chain[n + 1]) \in Stages \ Decided /\ Needed(Place(From(Chain[n + 1]))) \subseteq passed[w] \cup {c}
    <3>1. n \in 1..10
      OBVIOUS
    <3>2. Needed(n) \subseteq passed[w]
      BY <1>1, <1>3, ZenonT(30)
    <3> QED BY <2>1, <3>1, <3>2, PassesOn, ZenonT(30)
  <2> QED BY <1>0, <1>3, <2>2, Passes, ZenonT(30) DEF Passable
<1>4. CASE CheckWaf(w)
  <2>1. stage[w] = "waf" /\ (Refuse(w, "waf") \/ Pass(w, "waf", From(Chain[6 + 1])))
    <3>1. stage[w] = "waf" /\ (Refuse(w, "waf") \/ Pass(w, "waf", From("breaker")))
      BY <1>4, ZenonT(30) DEF CheckWaf
    <3>2. Chain[6 + 1] = "breaker"
      BY ChainIs
    <3> QED BY <3>1, <3>2, ZenonT(30)
  <2>2. Place("waf") = 6 /\ "waf" = Chain[6]
    BY ChainIs, ChainPlaces
  <2> QED BY <1>2, <1>3, <2>1, <2>2
<1>5. CASE StartBreaker(w) \/ BreakerAdmission(w)
  <2>1. /\ stage[w] \in {"breaker", "admission"}
        /\ \/ Refuse(w, "circuit") \/ Pass(w, "breaker", From(Chain[7 + 1]))
           \/ Goto(w, "admission") /\ UNCHANGED passed
    BY <1>5, ChainIs DEF StartBreaker, BreakerAdmission
  <2>2. Place(stage[w]) = 7 /\ "breaker" = Chain[7] /\ Place("admission") = 7 /\ "admission" \in Stages \ Decided
    BY <2>1, ChainIs, StagePlaces, ZenonT(30) DEF Stages, Decided
  <2>3. CASE Goto(w, "admission") /\ UNCHANGED passed
    BY <1>0, <1>1, <2>2, <2>3, Continues, ZenonT(30) DEF Decided
  <2> QED BY <1>2, <1>3, <2>1, <2>2, <2>3
<1>6. CASE CheckIntegrity(w)
  <2>1. stage[w] = "integrity" /\ (Refuse(w, "integrity") \/ Pass(w, "integrity", From(Chain[8 + 1])))
    BY <1>6, ChainIs DEF CheckIntegrity
  <2>2. Place("integrity") = 8 /\ "integrity" = Chain[8]
    BY ChainIs, ChainPlaces
  <2> QED BY <1>2, <1>3, <2>1, <2>2
<1> QED BY <1>4, <1>5, <1>6, ZenonT(30)

(* The filter chain, and the degradation filter.                           *)
LEMMA FilterSteps ==
  ASSUME GateInv, NEW w \in Workers, RunFilters(w) \/ StartDegrade(w) \/ FinishDegrade(w)
  PROVE  GateInv'
<1>0. UNCHANGED <<scene, now, left>> /\ stage[w] \notin Decided
  BY ZenonT(30) DEF RunFilters, StartDegrade, FinishDegrade, Still, Env, Decided
<1>1. /\ msg[w] \in Message /\ passed[w] \in SUBSET Passable /\ Needed(Place(stage[w])) \subseteq passed[w]
      /\ passed = [passed EXCEPT ![w] = passed[w]]
  BY ZenonT(30) DEF GateInv, GateType, PassedAll
<1>2. CASE RunFilters(w) /\ Refuse(w, "filter") /\ UNCHANGED msg
  BY <1>0, <1>2, Refused, ZenonT(30) DEF Outcomes
<1>3. CASE RunFilters(w) /\ ~(Refuse(w, "filter") /\ UNCHANGED msg)
  <2> DEFINE P == passed[w] \cup ({"jwt", "canary", "wasm", "mirror"} \cap scene.on)
  <2>1. PICK r \in {Redirected(w)} \cup Routes : msg' = [msg EXCEPT ![w].route = r]
    BY <1>3, ZenonT(30) DEF RunFilters
  <2>2. stage[w] = "filters" /\ passed' = [passed EXCEPT ![w] = P] /\ Goto(w, From(Chain[9 + 1]))
    BY <1>3, ChainIs DEF RunFilters
  <2> DEFINE m == [msg[w] EXCEPT !.route = r]
  <2>3. m \in Message /\ m.cmd = msg[w].cmd /\ msg' = [msg EXCEPT ![w] = m]
    <3>1. r \in Routes \cup {None, Target}
      <4>1. msg[w].cmd \in Routes \cup {None}
        <5>1. scene.cmds \subseteq Routes
          BY ProtectionAssumption, ZenonT(30) DEF GateInv, GateType
        <5> QED BY <1>1, <5>1, ZenonT(30) DEF Message
      <4> QED BY <4>1, ZenonT(30) DEF Redirected
    <3> QED BY <1>1, <2>1, <3>1, ZenonT(30) DEF Message
  <2> HIDE DEF m
  <2>4. Place(stage[w]) = 9 /\ scene.on \cap Checks(Chain[9]) \subseteq P /\ Needed(9) \subseteq P /\ P \in SUBSET Passable
    <3>1. Place("filters") = 9 /\ Checks(Chain[9]) = {"jwt", "canary", "wasm", "mirror"}
      BY ChainIs, ChainPlaces DEF Checks
    <3> QED BY <1>1, <2>2, <3>1, ZenonT(30) DEF Passable, Filters
  <2> HIDE DEF P
  <2>5. From(Chain[9 + 1]) \in Stages \ Decided /\ Needed(Place(From(Chain[9 + 1]))) \subseteq P
    BY <2>4, GoesOn
  <2> QED BY <1>0, <2>2, <2>3, <2>4, <2>5, GoesTo, ZenonT(30)
<1>4. CASE StartDegrade(w) \/ FinishDegrade(w)
  <2>1. /\ stage[w] \in {"degrade", "cool"} /\ UNCHANGED msg
        /\ Pass(w, "degradation", "send") \/ (Goto(w, "cool") /\ UNCHANGED passed)
    BY <1>4, ZenonT(30) DEF StartDegrade, FinishDegrade
  <2>2. Place(stage[w]) = 10 /\ Place("cool") = 10 /\ Place("send") = 11 /\ {"send", "cool"} \subseteq Stages \ Decided
    <3>1. Place(stage[w]) = 10 /\ Place("cool") = 10
      BY <2>1, StagePlaces, ZenonT(30)
    <3>2. Place("send") = 11 /\ {"send", "cool"} \subseteq Stages \ Decided
      <4>1. Place("send") = 11 /\ "send" \in Stages \ Decided
        BY ChainIs, ChainPlaces
      <4>2. "cool" \in Stages \ Decided
        BY ZenonT(30) DEF Stages, Decided
      <4> QED BY <4>1, <4>2, ZenonT(30)
    <3> QED BY <3>1, <3>2, ZenonT(30)
  <2>3. Needed(11) \subseteq Needed(10) \cup {"degradation"}
    <3>1. Checks(Chain[10]) = {"degradation"}
      BY ChainIs, ZenonT(30) DEF Checks
    <3> QED BY <3>1 DEF Needed
  <2>4. CASE Pass(w, "degradation", "send")
    BY <1>0, <1>1, <2>1, <2>2, <2>3, <2>4, Passes, ZenonT(30) DEF Passable
  <2>5. CASE Goto(w, "cool") /\ UNCHANGED passed
    BY <1>0, <1>1, <2>1, <2>2, <2>5, Continues, ZenonT(30)
  <2> QED BY <2>1, <2>4, <2>5, ZenonT(30)
<1> QED BY <1>2, <1>3, <1>4, ZenonT(30)

(* SendMessage and what is recorded after it.                              *)
LEMMA SendSteps ==
  ASSUME GateInv, NEW w \in Workers, Send(w) \/ RecordBreaker(w) \/ RecordDegradation(w) \/ FinishRecord(w)
  PROVE  GateInv'
<1>0. UNCHANGED <<scene, now, left, msg, passed>>
  BY ZenonT(30) DEF Send, RecordBreaker, RecordDegradation, FinishRecord, Env
<1>1. /\ \A f, b \in BOOLEAN : Recording(f, b) \in Stages /\ Recording(f, b) \in Decided
      /\ \A s \in Decided : s \in Stages /\ Needed(Place(s)) \subseteq passed[w]
  <2>1. \A f, b \in BOOLEAN : Recording(f, b) \in Decided
    BY ZenonT(30) DEF Recording, Decided
  <2>2. \A s \in Decided : s \in Stages /\ Place(s) = 1
    BY StagePlaces, ZenonT(30) DEF Decided, Stages
  <2> QED BY <2>1, <2>2, StagePlaces, ZenonT(30)
<1>2. CASE Send(w)
  <2>1. PICK o \in {"forwarded", "failed"} : /\ counter' = [counter EXCEPT ![o] = @ + 1]
                                             /\ stage' = [stage EXCEPT ![w] = Recording(o = "failed", FALSE)]
    BY <1>2, ZenonT(30) DEF Send, SendOutcomes
  <2> DEFINE s == Recording(o = "failed", FALSE)
  <2>2. s \in Stages /\ s \in Decided /\ Needed(Place(s)) \subseteq passed[w]
    BY <1>1, ZenonT(30)
  <2>3. stage' = [stage EXCEPT ![w] = s]
    BY <2>1, ZenonT(30)
  <2> HIDE DEF s
  <2>4. stage[w] = "send" /\ stage[w] \notin Decided /\ msg[w].cmd \in scene.cmds
    BY <1>2, ZenonT(30) DEF Send, Decided, GateInv, Commanded
  <2>5. Total' = Total + 1 /\ Total \in Nat /\ counter' \in [Outcomes -> Nat]
    BY <2>1, TotalGrows, ZenonT(30) DEF GateInv, GateType, Outcomes
  <2>6. GateType' /\ Commanded' /\ PassedAll'
    BY <1>0, <2>2, <2>3, <2>4, <2>5, Keeps, Lands, ZenonT(30) DEF GateInv, GateType
  <2>7. Cardinality(Undecided') = Cardinality(Undecided) - 1 /\ Cardinality(Undecided) \in Nat
    BY <2>2, <2>3, <2>4, UndecidedMoves, ZenonT(30) DEF GateInv, GateType
  <2>8. Accounts'
    BY <1>0, <2>5, <2>7 DEF Accounts, GateInv
  <2> QED BY <2>6, <2>8, ZenonT(30) DEF GateInv
<1>3. ASSUME NEW s \in Decided, Goto(w, s), stage[w] \in Decided, stage[w] # "idle" PROVE GateInv'
  BY <1>0, <1>1, <1>3, Continues, ZenonT(30)
<1>4. CASE RecordBreaker(w)
  <2>1. stage[w] \in {"failed breaker", "forwarded breaker"}
    BY <1>4, ZenonT(30) DEF RecordBreaker
  <2>2. Recording(stage[w] = "failed breaker", TRUE) \in Decided
    BY <1>1, ZenonT(30)
  <2>3. stage[w] \in Decided /\ stage[w] # "idle"
    BY <2>1, ZenonT(30) DEF Decided
  <2>4. Goto(w, stage[w]) \/ Goto(w, Recording(stage[w] = "failed breaker", TRUE))
    BY <1>4, ZenonT(30) DEF RecordBreaker
  <2> QED BY <1>3, <2>2, <2>3, <2>4, ZenonT(30)
<1>5. CASE RecordDegradation(w) \/ FinishRecord(w)
  <2>1. stage[w] \in {"failed rule", "forwarded rule", "degrading"} /\ (Goto(w, "idle") \/ Goto(w, "degrading"))
    BY <1>5, ZenonT(30) DEF RecordDegradation, FinishRecord
  <2>2. stage[w] \in Decided /\ stage[w] # "idle" /\ "idle" \in Decided /\ "degrading" \in Decided
    BY <2>1, ZenonT(30) DEF Decided
  <2> QED BY <1>3, <2>1, <2>2, ZenonT(30)
<1> QED BY <1>2, <1>4, <1>5, ZenonT(30)

(* Every step of Protection preserves what Process promises.               *)
LEMMA GateStep == GateInv /\ [Next]_vars => GateInv'
<1> SUFFICES ASSUME GateInv, [Next]_vars PROVE GateInv'
  BY ZenonT(30)
<1>1. ASSUME NEW w \in Workers, ProcessStep(w) PROVE GateInv'
  BY <1>1, ReceiveStep, EarlySteps, ClientStep, ListSteps, LimitSteps, SecuritySteps, FilterSteps, SendSteps,
     ZenonT(30) DEF ProcessStep
<1>2. ASSUME UNCHANGED <<scene, stage, msg, left, counter, passed>>, now' \in Nat PROVE GateInv'
  <2>1. Message' = Message /\ (\A n : Needed(n)' = Needed(n)) /\ Total' = Total /\ Undecided' = Undecided
    BY <1>2, ZenonT(30) DEF Message, Needed, Total, Undecided
  <2>2. GateType' /\ Commanded' /\ Accounts'
    BY <1>2, <2>1, ZenonT(30) DEF GateInv, GateType, Commanded, Accounts
  <2>3. PassedAll'
    BY <1>2, <2>1, ZenonT(30) DEF GateInv, PassedAll
  <2> QED BY <2>2, <2>3, ZenonT(30) DEF GateInv
<1>3. now \in Nat
  BY ZenonT(30) DEF GateInv, GateType
<1>4. CASE Reload
  BY <1>2, <1>3, <1>4, ZenonT(30) DEF Reload, ReloadLimiter, Retune, ReloadWhite, ReloadBlack, ReloadTraffic,
     ReloadUnchanged, Still
<1>5. CASE CheckLoad \/ Drift
  BY <1>2, <1>3, <1>5, ZenonT(30) DEF CheckLoad, Drift, Still
<1>6. CASE Maintain
  BY <1>2, <1>3, <1>6, ZenonT(30) DEF Maintain, Background, Still
<1>7. CASE Time \/ UNCHANGED vars
  BY <1>2, <1>3, <1>7 DEF Time, Tick, gateVars, vars
<1> QED BY <1>1, <1>4, <1>5, <1>6, <1>7, ZenonT(30) DEF Next

(* It holds when the gateway starts.                                       *)
LEMMA InitGate == Init => GateInv
<1> SUFFICES ASSUME Init PROVE GateInv
  BY ZenonT(30)
<1>1. scene \in Scenes /\ now = 0 /\ left = scene.msgs /\ scene.msgs \in Nat
  BY ProtectionAssumption, ZenonT(30) DEF Init
<1>2. stage = [w \in Workers |-> "idle"] /\ passed = [w \in Workers |-> {}] /\ counter = [o \in Outcomes |-> 0]
  BY ZenonT(30) DEF Init, Outcomes
<1>3. msg \in [Workers -> Message]
  BY ZenonT(30) DEF Init, Message
<1>4. GateType /\ Commanded
  BY <1>1, <1>2, <1>3, ZenonT(30) DEF GateType, Commanded, Stages
<1>5. PassedAll
  BY <1>2, StagePlaces, ZenonT(30) DEF PassedAll
<1>6. Total = 0
  BY <1>2 DEF Total, Outcomes
<1>7. Undecided = {}
  BY <1>2, ZenonT(30) DEF Undecided, Decided
<1> QED BY <1>1, <1>4, <1>5, <1>6, <1>7, FS_EmptySet DEF GateInv, Accounts

(* GateInv is an invariant of Process, whatever the components answer.     *)
THEOREM GateInvariance == Spec => []GateInv
BY InitGate, GateStep, PTL DEF Spec

(* A message that reaches SendMessage has passed every check its           *)
(* deployment has: neither the fast path nor a race skips one              *)
(* (pipeline.go, Process).                                                 *)
THEOREM NoCheckIsSkipped == Spec => []NoStageSkipped
<1>1. GateInv => NoStageSkipped
  <2> SUFFICES ASSUME GateInv, NEW w \in Workers, stage[w] = "send",
                      NEW c \in scene.on \cap ({"lists", "limit", "waf", "breaker", "integrity"} \cup Filters)
               PROVE  c \in passed[w]
    BY ZenonT(30) DEF NoStageSkipped
  <2>1. Place("send") = 11
    BY ChainIs, ChainPlaces
  <2>2. \E i \in 1..10 : c \in Checks(Chain[i])
    <3>1. /\ Checks(Chain[4]) = {"lists"} /\ Checks(Chain[5]) = {"limit"} /\ Checks(Chain[6]) = {"waf"}
          /\ Checks(Chain[7]) = {"breaker"} /\ Checks(Chain[8]) = {"integrity"}
          /\ Checks(Chain[9]) = {"jwt", "canary", "wasm", "mirror"} /\ Checks(Chain[10]) = {"degradation"}
      BY ChainIs, ZenonT(30) DEF Checks
    <3> QED BY <3>1 DEF Filters
  <2>3. c \in Needed(11)
    BY <2>2 DEF Needed
  <2> QED BY <2>1, <2>3, ZenonT(30) DEF GateInv, PassedAll
<1> QED BY <1>1, GateInvariance, PTL

(* Every message received is counted exactly once, under the outcome       *)
(* Process decided, for any number of workers and messages (the counters   *)
(* of MessagePipeline).                                                    *)
THEOREM EveryMessageIsCounted == Spec => []AccountingExact
<1>1. GateInv => AccountingExact
  BY ZenonT(30) DEF GateInv, Accounts, Total, Undecided, Decided, AccountingExact
<1> QED BY <1>1, GateInvariance, PTL

-----------------------------------------------------------------------------
(* The circuit breaker.                                                    *)

\* The points of Allow, RecordSuccess and RecordFailure.
BreakerLabels == {"rest", "allow", "expiry", "probe", "forget", "success", "clear", "count", "close",
                  "zero failures", "zero successes", "failure", "add", "stamp first", "check", "trip",
                  "reopen", "stamp"}

Cbs == [state : {"Closed", "Open", "HalfOpen"}, failures : Nat, successes : Nat, last : Nat]

BreakerType ==
  /\ breaker \in [Routes -> Cbs]
  /\ brk \in [Workers -> [at : BreakerLabels, route : Routes \cup {CHOOSE r \in Routes : TRUE}, ok : BOOLEAN]]
  /\ \A w \in Workers : brk[w].at # "rest" => brk[w].route \in Routes

\* Where a worker is about to trip a closed breaker or to clear its failures,
\* and where it is about to close a half-open one or to clear its successes.
Settling == {"stamp first", "check", "trip", "zero failures"}
Probing == {"close", "forget"}

\* A breaker that should have changed its state has a worker that will see to it.
Attended ==
  \A r \in Routes :
    /\ breaker[r].state = "Closed" /\ breaker[r].failures >= FailureThreshold =>
         \E w \in Workers : brk[w].route = r /\ brk[w].at \in Settling
    /\ breaker[r].state = "HalfOpen" /\ breaker[r].successes >= SuccessThreshold =>
         \E w \in Workers : brk[w].route = r /\ brk[w].at \in Probing

BreakerInv == BreakerType /\ Attended

(* One atomic operation of worker w on its breaker.                        *)
LEMMA AtomicStep ==
  ASSUME BreakerInv, NEW w \in Workers, NEW from \in BreakerLabels \ {"rest"}, NEW to \in Cbs,
         NEW label \in BreakerLabels, Atomic(w, from, to, label),
         to.state = "Closed" /\ to.failures >= FailureThreshold =>
           \/ label \in Settling
           \/ Cb(w).state = "Closed" /\ Cb(w).failures >= FailureThreshold /\ from \notin Settling,
         to.state = "HalfOpen" /\ to.successes >= SuccessThreshold =>
           \/ label \in Probing
           \/ Cb(w).state = "HalfOpen" /\ Cb(w).successes >= SuccessThreshold /\ from \notin Probing
  PROVE  BreakerInv'
<1> HIDE DEF Settling, Probing
<1>0. BreakerType /\ Attended /\ brk[w].at = from /\ brk[w].route \in Routes
  BY ZenonT(30) DEF BreakerInv, BreakerType, Atomic
<1>1. PICK r \in Routes : r = brk[w].route
  BY <1>0, ZenonT(30)
<1>2. /\ breaker' = [breaker EXCEPT ![r] = to] /\ Cb(w) = breaker[r]
      /\ brk'[w].at = label /\ brk'[w].route = r
      /\ \A v \in Workers \ {w} : brk'[v] = brk[v]
  BY <1>0, <1>1, ZenonT(30) DEF Atomic, BreakerType, Cb
<1>3. BreakerType'
  BY <1>0, <1>1, <1>2 DEF Atomic, BreakerType
<1>4. breaker'[r] = to /\ \A q \in Routes \ {r} : breaker'[q] = breaker[q]
  BY <1>0, <1>2, ZenonT(30) DEF BreakerType
<1>5. ASSUME NEW q \in Routes \ {r}
      PROVE  /\ breaker'[q].state = "Closed" /\ breaker'[q].failures >= FailureThreshold =>
                  \E v \in Workers : brk'[v].route = q /\ brk'[v].at \in Settling
             /\ breaker'[q].state = "HalfOpen" /\ breaker'[q].successes >= SuccessThreshold =>
                  \E v \in Workers : brk'[v].route = q /\ brk'[v].at \in Probing
  BY <1>0, <1>1, <1>2, <1>4, <1>5 DEF Attended
<1>6. ASSUME to.state = "Closed", to.failures >= FailureThreshold
      PROVE  \E v \in Workers : brk'[v].route = r /\ brk'[v].at \in Settling
  BY <1>0, <1>1, <1>2, <1>6 DEF Attended
<1>7. ASSUME to.state = "HalfOpen", to.successes >= SuccessThreshold
      PROVE  \E v \in Workers : brk'[v].route = r /\ brk'[v].at \in Probing
  BY <1>0, <1>1, <1>2, <1>7 DEF Attended
<1>8. Attended'
  BY <1>4, <1>5, <1>6, <1>7, ZenonT(30) DEF Attended
<1> QED BY <1>3, <1>8, ZenonT(30) DEF BreakerInv

(* Each operation of Allow, RecordSuccess and RecordFailure keeps every    *)
(* overdue decision attended.                                              *)
LEMMA BreakerSteps ==
  ASSUME BreakerInv, NEW w \in Workers, BreakerStep(w), now \in Nat
  PROVE  BreakerInv'
<1>0. BreakerType /\ Attended
  BY ZenonT(30) DEF BreakerInv
<1>1. brk[w].at # "rest" => Cb(w) \in Cbs
  BY <1>0, ZenonT(30) DEF BreakerType, Cb
<1> DEFINE L == BreakerLabels \ {"rest"}
<1>2. ASSUME NEW from \in L \ (Settling \cup Probing), NEW label \in BreakerLabels, Atomic(w, from, Cb(w), label)
      PROVE  BreakerInv'
  <2>1. Cb(w) \in Cbs
    BY <1>1, <1>2, ZenonT(30) DEF Atomic
  <2> QED BY <1>2, <2>1, AtomicStep, ZenonT(30)
<1>3. CASE AllowLoad(w)
  BY <1>2, <1>3, ZenonT(30) DEF AllowLoad, BreakerLabels, Settling, Probing
<1>4. CASE AllowExpiry(w)
  <2>1. PICK t \in {[brk[w] EXCEPT !.at = "probe"], [brk[w] EXCEPT !.at = "rest", !.ok = FALSE]} :
          brk' = [brk EXCEPT ![w] = t]
    BY <1>4, ZenonT(30) DEF AllowExpiry
  <2>2. /\ t \in [at : BreakerLabels, route : Routes \cup {CHOOSE r \in Routes : TRUE}, ok : BOOLEAN]
        /\ t.route = brk[w].route
    BY <1>0 DEF BreakerType, BreakerLabels
  <2>3. brk[w].at = "expiry" /\ UNCHANGED breaker /\ brk[w].route \in Routes
    BY <1>0, <1>4, ZenonT(30) DEF AllowExpiry, BreakerType
  <2>4. BreakerType' /\ \A v \in Workers \ {w} : brk'[v] = brk[v]
    BY <1>0, <2>1, <2>2, <2>3, ZenonT(30) DEF BreakerType
  <2>5. brk[w].at \notin Settling /\ brk[w].at \notin Probing
    BY <2>3, ZenonT(30) DEF Settling, Probing
  <2>6. Attended'
    BY <1>0, <2>3, <2>4, <2>5 DEF Attended
  <2> QED BY <2>4, <2>6, ZenonT(30) DEF BreakerInv
<1>5. CASE AllowProbe(w)
  <2>1. CASE Cb(w).state = "Open"
    <3> DEFINE to == [Cb(w) EXCEPT !.state = "HalfOpen"]
    <3>1. Atomic(w, "probe", to, "forget")
      BY <1>5, <2>1, ZenonT(30) DEF AllowProbe
    <3>2. to \in Cbs /\ to.state = "HalfOpen"
      BY <1>1, <3>1, ZenonT(30) DEF Atomic, Cbs
    <3> QED BY <3>1, <3>2, AtomicStep, ZenonT(30) DEF BreakerLabels, Settling, Probing
  <2>2. CASE Cb(w).state # "Open"
    BY <1>2, <1>5, <2>2, ZenonT(30) DEF AllowProbe, BreakerLabels, Settling, Probing
  <2> QED BY <2>1, <2>2, ZenonT(30)
<1>6. CASE AllowForget(w)
  <2> DEFINE to == [Cb(w) EXCEPT !.successes = 0]
  <2>1. Atomic(w, "forget", to, "rest")
    BY <1>6, ZenonT(30) DEF AllowForget
  <2>2. to \in Cbs /\ ~(to.successes >= SuccessThreshold) /\ to.state = Cb(w).state /\ to.failures = Cb(w).failures
    BY BreakerAssumption, <1>1, <2>1 DEF Atomic, Cbs
  <2> QED BY <2>1, <2>2, AtomicStep, ZenonT(30) DEF BreakerLabels, Settling, Probing
<1>7. CASE SuccessLoad(w) \/ FailureLoad(w)
  BY <1>2, <1>7, ZenonT(30) DEF SuccessLoad, FailureLoad, BreakerLabels, Settling, Probing
<1>8. CASE SuccessClear(w)
  <2> DEFINE to == [Cb(w) EXCEPT !.failures = 0]
  <2>1. Atomic(w, "clear", to, "rest")
    BY <1>8, ZenonT(30) DEF SuccessClear
  <2>2. to \in Cbs /\ ~(to.failures >= FailureThreshold) /\ to.state = Cb(w).state /\ to.successes = Cb(w).successes
    BY BreakerAssumption, <1>1, <2>1 DEF Atomic, Cbs
  <2> QED BY <2>1, <2>2, AtomicStep, ZenonT(30) DEF BreakerLabels, Settling, Probing
<1>9. CASE SuccessCount(w)
  <2> DEFINE to == [Cb(w) EXCEPT !.successes = @ + 1]
             label == IF Cb(w).successes + 1 >= SuccessThreshold THEN "close" ELSE "rest"
  <2>1. Atomic(w, "count", to, label)
    BY <1>9, ZenonT(30) DEF SuccessCount
  <2>2. /\ to \in Cbs /\ to.failures = Cb(w).failures /\ to.state = Cb(w).state
        /\ to.successes = Cb(w).successes + 1
    BY <1>1, <2>1 DEF Atomic, Cbs
  <2> QED BY <2>1, <2>2, AtomicStep, ZenonT(30) DEF BreakerLabels, Settling, Probing
<1>10. CASE SuccessClose(w)
  <2>1. ASSUME NEW to, to = [Cb(w) EXCEPT !.state = "Closed"], Atomic(w, "close", to, "zero failures") PROVE BreakerInv'
    <3>1. to \in Cbs /\ to.state = "Closed"
      BY <1>1, <2>1, ZenonT(30) DEF Atomic, Cbs
    <3> QED BY <2>1, <3>1, AtomicStep, ZenonT(30) DEF BreakerLabels, Settling, Probing
  <2>2. ASSUME NEW to, to = [Cb(w) EXCEPT !.failures = 0], Atomic(w, "zero failures", to, "zero successes")
        PROVE  BreakerInv'
    <3>1. to \in Cbs /\ ~(to.failures >= FailureThreshold) /\ to.state = Cb(w).state /\ to.successes = Cb(w).successes
      <4>1. Cb(w) \in Cbs
        BY <1>1, <2>2, ZenonT(30) DEF Atomic
      <4>2. to \in Cbs /\ to.failures = 0 /\ to.state = Cb(w).state /\ to.successes = Cb(w).successes
        BY <2>2, <4>1, ZenonT(30) DEF Cbs
      <4> QED BY BreakerAssumption, <4>2
    <3> QED BY <2>2, <3>1, AtomicStep, ZenonT(30) DEF BreakerLabels, Settling, Probing
  <2>3. ASSUME NEW to, to = [Cb(w) EXCEPT !.successes = 0], Atomic(w, "zero successes", to, "rest")
        PROVE  BreakerInv'
    <3>1. to \in Cbs /\ ~(to.successes >= SuccessThreshold) /\ to.state = Cb(w).state /\ to.failures = Cb(w).failures
      <4>1. Cb(w) \in Cbs
        BY <1>1, <2>3, ZenonT(30) DEF Atomic
      <4>2. to \in Cbs /\ to.successes = 0 /\ to.state = Cb(w).state /\ to.failures = Cb(w).failures
        BY <2>3, <4>1, ZenonT(30) DEF Cbs
      <4> QED BY BreakerAssumption, <4>2
    <3> QED BY <2>3, <3>1, AtomicStep, ZenonT(30) DEF BreakerLabels, Settling, Probing
  <2> QED BY <1>10, <2>1, <2>2, <2>3, ZenonT(30) DEF SuccessClose
<1>11. CASE FailureCount(w)
  <2>1. ASSUME NEW to, to = [Cb(w) EXCEPT !.failures = @ + 1], Atomic(w, "add", to, "stamp first") PROVE BreakerInv'
    <3>1. to \in Cbs /\ to.state = Cb(w).state /\ to.successes = Cb(w).successes
      <4>1. Cb(w) \in Cbs /\ Cb(w).failures + 1 \in Nat
        <5>1. Cb(w) \in Cbs
          BY <1>1, <2>1, ZenonT(30) DEF Atomic
        <5> QED BY <5>1 DEF Cbs
      <4> QED BY <2>1, <4>1, ZenonT(30) DEF Cbs
    <3> QED BY <2>1, <3>1, AtomicStep, ZenonT(30) DEF BreakerLabels, Settling, Probing
  <2>2. ASSUME NEW to, to = [Cb(w) EXCEPT !.last = now], Atomic(w, "stamp first", to, "check") PROVE BreakerInv'
    <3>1. to \in Cbs /\ to.state = Cb(w).state /\ to.successes = Cb(w).successes
      BY <1>1, <2>2, ZenonT(30) DEF Atomic, Cbs
    <3> QED BY <2>2, <3>1, AtomicStep, ZenonT(30) DEF BreakerLabels, Settling, Probing
  <2>3. ASSUME Atomic(w, "check", Cb(w), IF Cb(w).failures >= FailureThreshold THEN "trip" ELSE "rest")
        PROVE  BreakerInv'
    <3>1. Cb(w) \in Cbs
      BY <1>1, <2>3, ZenonT(30) DEF Atomic
    <3> QED BY <2>3, <3>1, AtomicStep, ZenonT(30) DEF BreakerLabels, Settling, Probing
  <2> QED BY <1>11, <2>1, <2>2, <2>3, ZenonT(30) DEF FailureCount
<1>12. CASE FailureTrip(w)
  <2> DEFINE to == [Cb(w) EXCEPT !.state = IF @ = "Closed" THEN "Open" ELSE @]
  <2>1. Atomic(w, "trip", to, "rest")
    BY <1>12, ZenonT(30) DEF FailureTrip
  <2>2. /\ to \in Cbs /\ to.state # "Closed" /\ to.successes = Cb(w).successes
        /\ to.state = "HalfOpen" => Cb(w).state = "HalfOpen"
    BY <1>1, <2>1, ZenonT(30) DEF Atomic, Cbs
  <2> QED BY <2>1, <2>2, AtomicStep, ZenonT(30) DEF BreakerLabels, Settling, Probing
<1>13. CASE FailureReopen(w)
  <2>1. ASSUME NEW to, to = [Cb(w) EXCEPT !.state = IF @ = "HalfOpen" THEN "Open" ELSE @], NEW l \in {"stamp", "rest"},
               Atomic(w, "reopen", to, l)
        PROVE  BreakerInv'
    <3>1. /\ to \in Cbs /\ to.state # "HalfOpen" /\ to.failures = Cb(w).failures
          /\ to.state = "Closed" => Cb(w).state = "Closed"
      BY <1>1, <2>1, ZenonT(30) DEF Atomic, Cbs
    <3> QED BY <2>1, <3>1, AtomicStep, ZenonT(30) DEF BreakerLabels, Settling, Probing
  <2>2. ASSUME NEW to, to = [Cb(w) EXCEPT !.last = now], Atomic(w, "stamp", to, "rest") PROVE BreakerInv'
    <3>1. to \in Cbs /\ to.state = Cb(w).state /\ to.successes = Cb(w).successes /\ to.failures = Cb(w).failures
      BY <1>1, <2>2, ZenonT(30) DEF Atomic, Cbs
    <3> QED BY <2>2, <3>1, AtomicStep, ZenonT(30) DEF BreakerLabels, Settling, Probing
  <2> QED BY <1>13, <2>1, <2>2, ZenonT(30) DEF FailureReopen
<1> QED BY <1>3, <1>4, <1>5, <1>6, <1>7, <1>8, <1>9, <1>10, <1>11, <1>12, <1>13, ZenonT(30) DEF BreakerStep,
           AllowStep, SuccessStep, FailureStep

(* A call begins.                                                          *)
LEMMA BreakerEntry ==
  ASSUME BreakerInv, NEW w \in Workers, NEW r \in Routes, NEW l \in {"allow", "failure", "success"}, Enter(w, r, l)
  PROVE  BreakerInv'
<1>0. BreakerType /\ Attended
  BY ZenonT(30) DEF BreakerInv
<1>1. brk[w].at = "rest" /\ UNCHANGED breaker /\ \A v \in Workers \ {w} : brk'[v] = brk[v]
  BY <1>0, ZenonT(30) DEF Enter, BreakerType
<1>2. BreakerType'
  BY <1>0, ZenonT(30) DEF Enter, BreakerType, BreakerLabels
<1>3. brk[w].at \notin Settling /\ brk[w].at \notin Probing
  BY <1>1, ZenonT(30) DEF Settling, Probing
<1>4. Attended'
  BY <1>0, <1>1, <1>3 DEF Attended
<1> QED BY <1>2, <1>4, ZenonT(30) DEF BreakerInv

(* What Process and its surroundings do to the breakers.                   *)
LEMMA BreakerMoves ==
  ASSUME GateInv, [Next]_vars
  PROVE  \/ UNCHANGED breakerVars
         \/ \E w \in Workers : BreakerStep(w)
         \/ \E w \in Workers, r \in Routes, l \in {"allow", "failure", "success"} : Enter(w, r, l)
<1>1. ASSUME NEW w \in Workers, StartBreaker(w) \/ Send(w)
      PROVE  \/ UNCHANGED breakerVars
             \/ \E r \in Routes, l \in {"allow", "failure", "success"} : Enter(w, r, l)
  <2>1. msg[w].cmd \in Routes
    <3>1. stage[w] # "idle" /\ scene \in Scenes
      BY <1>1, ZenonT(30) DEF StartBreaker, Send, GateInv, GateType
    <3> QED BY <3>1, ProtectionAssumption, ZenonT(30) DEF GateInv, Commanded
  <2>2. CASE StartBreaker(w)
    BY <2>1, <2>2, ZenonT(30) DEF StartBreaker
  <2>3. CASE Send(w)
    <3>1. PICK o : IF On("breaker") THEN Enter(w, msg[w].cmd, IF o = "failed" THEN "failure" ELSE "success")
                   ELSE UNCHANGED breakerVars
      BY <2>3, ZenonT(30) DEF Send
    <3> QED BY <2>1, <3>1, ZenonT(30)
  <2> QED BY <1>1, <2>2, <2>3, ZenonT(30)
<1>2. ASSUME NEW w \in Workers, BreakerAdmission(w) \/ RecordBreaker(w) PROVE BreakerStep(w)
  BY <1>2, ZenonT(30) DEF BreakerAdmission, RecordBreaker, BreakerStep
<1>3. ASSUME NEW w \in Workers, ProcessStep(w), ~(StartBreaker(w) \/ Send(w) \/ BreakerAdmission(w) \/ RecordBreaker(w))
      PROVE  UNCHANGED breakerVars
  BY <1>3, ZenonT(30) DEF ProcessStep, Receive, CheckOverload, CheckSession, FindClient, CheckBlacklist,
     CheckWhitelistEmpty, CheckWhitelisted, StartLimit, LimitStep, CheckWaf, CheckIntegrity, RunFilters,
     StartDegrade, FinishDegrade, RecordDegradation, FinishRecord, Still
<1>4. CASE Reload
  BY <1>4, ZenonT(30) DEF Reload, ReloadLimiter, Retune, ReloadWhite, ReloadBlack, ReloadTraffic, Still
<1>5. CASE CheckLoad \/ Drift \/ Maintain \/ Time \/ UNCHANGED vars
  BY <1>5, ZenonT(30) DEF CheckLoad, Drift, Maintain, Background, Time, vars, Still
<1> QED BY <1>1, <1>2, <1>3, <1>4, <1>5, ZenonT(30) DEF Next

(* The breakers' invariant.                                                *)
THEOREM BreakerInvariance == Spec => []BreakerInv
<1>1. Init => BreakerInv
  <2> SUFFICES ASSUME Init PROVE BreakerInv
    BY ZenonT(30)
  <2>1. BreakerType
    BY ZenonT(30) DEF Init, BreakerInit, BreakerType, Cbs, BreakerLabels
  <2>2. Attended
    BY BreakerAssumption DEF Init, BreakerInit, Attended
  <2> QED BY <2>1, <2>2, ZenonT(30) DEF BreakerInv
<1>2. BreakerInv /\ GateInv /\ [Next]_vars => BreakerInv'
  <2> SUFFICES ASSUME BreakerInv, GateInv, [Next]_vars PROVE BreakerInv'
    BY ZenonT(30)
  <2>1. CASE UNCHANGED breakerVars
    BY <2>1, ZenonT(30) DEF BreakerInv, BreakerType, Attended, breakerVars
  <2>2. now \in Nat
    BY ZenonT(30) DEF GateInv, GateType
  <2> QED BY <2>1, <2>2, BreakerMoves, BreakerSteps, BreakerEntry, ZenonT(30)
<1> QED BY <1>1, <1>2, GateInvariance, PTL DEF Spec

(* No decision of a breaker is lost to a race, however many workers call   *)
(* it at once: when its calls have returned a closed one is below its      *)
(* failure threshold and a half-open one below its success threshold       *)
(* (circuit.go).                                                           *)
THEOREM BreakerDecisionsStand == Spec => []BreakerDecides
<1>1. BreakerInv => BreakerDecides
  <2> SUFFICES ASSUME BreakerInv, NEW r \in Routes, \A w \in Workers : brk[w].route = r => brk[w].at = "rest"
               PROVE  /\ breaker[r].state = "Closed" => breaker[r].failures < FailureThreshold
                      /\ breaker[r].state = "HalfOpen" => breaker[r].successes < SuccessThreshold
    BY ZenonT(30) DEF BreakerDecides
  <2>1. \A w \in Workers : brk[w].route = r => brk[w].at \notin Settling /\ brk[w].at \notin Probing
    BY ZenonT(30) DEF Settling, Probing
  <2>2. breaker[r].failures \in Nat /\ breaker[r].successes \in Nat
    BY ZenonT(30) DEF BreakerInv, BreakerType, Cbs
  <2> QED BY <2>1, <2>2, BreakerAssumption DEF BreakerInv, Attended
<1> QED BY <1>1, BreakerInvariance, PTL

-----------------------------------------------------------------------------
(* The degradation rules.                                                  *)

(* Numbers less than W apart have different remainders, numbers W apart    *)
(* the same: the ring's places.                                            *)
LEMMA SameRemainder ==
  ASSUME NEW W \in Nat \ {0}, NEW a \in Nat, NEW b \in Nat, a < b
  PROVE  /\ b - a < W => a % W # b % W
         /\ b - a = W => a % W = b % W
<1>1. PICK p \in Nat, r \in 0..(W - 1) : a = W * p + r /\ r = a % W
  BY Division, ZenonT(30)
<1>2. PICK q \in Nat, s \in 0..(W - 1) : b = W * q + s /\ s = b % W
  BY Division, ZenonT(30)
<1>3. a = W * p + r /\ b = W * q + s
  BY <1>1, <1>2, ZenonT(30)
<1>4. b - a = W * (q - p) + (s - r)
  BY <1>3
<1>5. PICK k \in Int : k = q - p
  OBVIOUS
<1>6. b - a = W * k + (s - r)
  BY <1>4, <1>5, ZenonT(30)
<1>7. b - a < W => r # s
  BY <1>6, Multiple
<1>8. PICK j \in Int : j = k - 1
  OBVIOUS
<1>9. W * k = W * j + W
  BY <1>8
<1>10. b - a = W => r = s
  BY <1>6, <1>9, Multiple
<1> QED BY <1>1, <1>2, <1>7, <1>10, ZenonT(30)

RuleType == [ring : [0..(WindowSize - 1) -> BOOLEAN], pos : Nat, count : Nat, errors : Int,
             degraded : BOOLEAN, since : Nat, lock : Workers \cup {NoWorker}, log : Seq(BOOLEAN)]

\* The errors among the last WindowSize results of a log.
Recent(log) == {n \in 1..Len(log) : n > Len(log) - WindowSize /\ log[n]}

\* The ring holds the last results, each in the place of its number.
Exact(r) ==
  /\ r.pos = Len(r.log) /\ r.count = Len(r.log)
  /\ \A n \in 1..Len(r.log) : n > Len(r.log) - WindowSize => r.ring[(n - 1) % WindowSize] = r.log[n]
  /\ r.errors = Cardinality(Recent(r.log))

RuleInv == rule \in [Ids -> RuleType] /\ \A id \in Ids : Exact(rule[id])

(* What Slide writes.                                                      *)
LEMMA SlideIs ==
  ASSUME NEW r \in RuleType, NEW e \in BOOLEAN, NEW t, t = Slide(r, e)
  PROVE  /\ t \in RuleType
         /\ t.ring = [r.ring EXCEPT ![r.pos % WindowSize] = e] /\ t.pos = r.pos + 1 /\ t.count = r.count + 1
         /\ t.errors = r.errors - (IF r.count >= WindowSize /\ r.ring[r.pos % WindowSize] THEN 1 ELSE 0)
                                 + (IF e THEN 1 ELSE 0)
         /\ t.log = Append(r.log, e)
<1>1. r.pos \in Nat /\ WindowSize \in Nat \ {0}
  BY DegradationAssumption, ZenonT(30) DEF RuleType
<1>2. PICK q \in 0..(WindowSize - 1) : q = r.pos % WindowSize
  BY <1>1, Division, ZenonT(30)
<1>3. PICK d \in Int : d = r.errors - (IF r.count >= WindowSize /\ r.ring[q] THEN 1 ELSE 0) + (IF e THEN 1 ELSE 0)
  BY DEF RuleType
<1>4. /\ [r.ring EXCEPT ![q] = e] \in [0..(WindowSize - 1) -> BOOLEAN] /\ r.pos + 1 \in Nat /\ r.count + 1 \in Nat
      /\ Append(r.log, e) \in Seq(BOOLEAN)
  BY DEF RuleType
<1>5. t = [[[[[r EXCEPT !.ring = [r.ring EXCEPT ![q] = e]] EXCEPT !.pos = r.pos + 1]
              EXCEPT !.count = r.count + 1] EXCEPT !.errors = d] EXCEPT !.log = Append(r.log, e)]
  BY <1>2, <1>3, ZenonT(30) DEF Slide, RuleType
<1>6. /\ t \in RuleType
      /\ t.ring = [r.ring EXCEPT ![q] = e] /\ t.pos = r.pos + 1 /\ t.count = r.count + 1
      /\ t.errors = d /\ t.log = Append(r.log, e)
  BY <1>4, <1>5, ZenonT(30) DEF RuleType
<1> QED BY <1>2, <1>3, <1>6, ZenonT(30)

(* Recording a result keeps the ring exact, before and after it wraps.     *)
LEMMA SlideExact ==
  ASSUME NEW r \in RuleType, Exact(r), NEW e \in BOOLEAN
  PROVE  Slide(r, e) \in RuleType /\ Exact(Slide(r, e))
<1>0. WindowSize \in Nat \ {0}
  BY DegradationAssumption, ZenonT(30)
<1>1. PICK L \in Nat : L = Len(r.log) /\ r.pos = L /\ r.count = L
  BY ZenonT(30) DEF Exact, RuleType
<1>2. PICK a \in Nat, q \in 0..(WindowSize - 1) : L = WindowSize * a + q /\ q = L % WindowSize
  BY <1>0, Division, ZenonT(30)
<1>3. r.errors \in Int /\ r.ring[q] \in BOOLEAN /\ r.log \in Seq(BOOLEAN) /\ DOMAIN r.log = 1..L
  BY DegradationAssumption, <1>1 DEF RuleType
<1>4. PICK d \in Int : d = r.errors - (IF L >= WindowSize /\ r.ring[q] THEN 1 ELSE 0) + (IF e THEN 1 ELSE 0)
  BY <1>3
<1>5. PICK t : t = Slide(r, e)
  BY ZenonT(30)
<1>6. /\ t \in RuleType
      /\ t.ring = [r.ring EXCEPT ![q] = e] /\ t.pos = L + 1 /\ t.count = L + 1
      /\ t.errors = d /\ t.log = Append(r.log, e)
  <2>1. q = r.pos % WindowSize
    BY <1>1, <1>2, ZenonT(30)
  <2>2. d = r.errors - (IF r.count >= WindowSize /\ r.ring[q] THEN 1 ELSE 0) + (IF e THEN 1 ELSE 0)
    BY <1>1, <1>4, ZenonT(30)
  <2>3. /\ t \in RuleType
        /\ t.ring = [r.ring EXCEPT ![r.pos % WindowSize] = e] /\ t.pos = r.pos + 1 /\ t.count = r.count + 1
        /\ t.errors = r.errors - (IF r.count >= WindowSize /\ r.ring[r.pos % WindowSize] THEN 1 ELSE 0)
                                + (IF e THEN 1 ELSE 0)
        /\ t.log = Append(r.log, e)
    BY <1>5, SlideIs, ZenonT(30)
  <2>4. t.pos = L + 1 /\ t.count = L + 1
    BY <1>1, <2>3, ZenonT(30)
  <2>5. t.ring = [r.ring EXCEPT ![q] = e] /\ t.errors = d
    BY <2>1, <2>2, <2>3, ZenonT(30)
  <2> QED BY <2>3, <2>4, <2>5, ZenonT(30)
<1>7. /\ Len(t.log) = L + 1 /\ t.log[L + 1] = e /\ \A n \in 1..L : t.log[n] = r.log[n]
  BY <1>1, <1>3, <1>6
<1>8. ASSUME NEW n \in 1..(L + 1), n > L + 1 - WindowSize
      PROVE  t.ring[(n - 1) % WindowSize] = t.log[n]
  <2>0. r.ring \in [0..(WindowSize - 1) -> BOOLEAN]
    BY ZenonT(30) DEF RuleType
  <2>1. CASE n = L + 1
    <3>1. n - 1 = L
      BY <2>1
    <3>2. t.ring[q] = e
      BY <1>6, <2>0, ZenonT(30)
    <3> QED BY <1>2, <1>7, <2>1, <3>1, <3>2, ZenonT(30)
  <2>2. CASE n # L + 1
    <3>1. n \in 1..L /\ n - 1 \in Nat /\ n - 1 < L /\ L - (n - 1) < WindowSize /\ n > L - WindowSize
      BY <1>0, <1>8, <2>2
    <3>2. PICK b \in Nat, k \in 0..(WindowSize - 1) : n - 1 = WindowSize * b + k /\ k = (n - 1) % WindowSize
      BY <1>0, <3>1, Division, ZenonT(30)
    <3>3. k # q
      BY <1>0, <1>2, <3>1, <3>2, SameRemainder
    <3>4. t.ring[k] = r.ring[k]
      BY <1>6, <2>0, <3>3, ZenonT(30)
    <3>5. r.ring[k] = r.log[n]
      BY <1>1, <3>1, <3>2, ZenonT(30) DEF Exact
    <3> QED BY <1>7, <3>1, <3>2, <3>4, <3>5, ZenonT(30)
  <2> QED BY <2>1, <2>2, ZenonT(30)
<1>9. d = Cardinality(Recent(t.log))
  <2> DEFINE old == L + 1 - WindowSize
             S == Recent(r.log)
             T == Recent(t.log)
             gone == IF L >= WindowSize /\ r.ring[q] THEN 1 ELSE 0
             U == IF e THEN {L + 1} ELSE {}
  <2>1. S \subseteq 1..L /\ IsFiniteSet(S) /\ Cardinality(S) \in Nat /\ r.errors = Cardinality(S)
    <3>1. S \subseteq 1..L
      BY <1>1, ZenonT(30) DEF Recent
    <3>2. IsFiniteSet(1..L)
      BY FS_Interval
    <3> QED BY <3>1, <3>2, FS_Subset, FS_CardinalityType, ZenonT(30) DEF Exact
  <2>2. T = (S \ {old}) \cup U
    <3>1. ASSUME NEW n \in 1..L PROVE n \in T <=> n \in S /\ n # old
      <4>0. PICK M \in Nat : M = Len(t.log) /\ M = L + 1
        BY <1>7
      <4>1. n \in 1..M /\ t.log[n] = r.log[n] /\ (n > M - WindowSize <=> n > L - WindowSize /\ n # old)
        BY <1>0, <1>7, <4>0
      <4>2. T = {k \in 1..M : k > M - WindowSize /\ t.log[k]}
        BY <4>0, ZenonT(30) DEF Recent
      <4>3. S = {k \in 1..L : k > L - WindowSize /\ r.log[k]}
        BY <1>1, ZenonT(30) DEF Recent
      <4> HIDE DEF S, T
      <4> QED BY <4>1, <4>2, <4>3, ZenonT(30)
    <3>2. L + 1 \in T <=> e
      BY <1>0, <1>7 DEF Recent
    <3>3. T \subseteq 1..(L + 1)
      BY <1>7, ZenonT(30) DEF Recent
    <3> QED BY <2>1, <3>1, <3>2, <3>3
  <2>3. old \in S <=> L >= WindowSize /\ r.ring[q]
    <3>1. CASE L >= WindowSize
      <4>1. old \in 1..L /\ old - 1 \in Nat /\ L - (old - 1) = WindowSize /\ old - 1 < L
        BY <1>0, <3>1
      <4>2. (old - 1) % WindowSize = q
        BY <1>0, <1>2, <4>1, SameRemainder, ZenonT(30)
      <4>3. r.ring[q] = r.log[old]
        <5>1. PICK n \in 1..L : n = old /\ n > L - WindowSize /\ (n - 1) % WindowSize = q
          BY <1>0, <4>1, <4>2
        <5> HIDE DEF old
        <5> QED BY <1>1, <5>1, ZenonT(30) DEF Exact
      <4> QED BY <1>0, <1>1, <3>1, <4>1, <4>3 DEF Recent
    <3>2. CASE ~(L >= WindowSize)
      BY <1>0, <2>1, <3>2
    <3> QED BY <3>1, <3>2, ZenonT(30)
  <2> HIDE DEF S, T, old
  <2>4. Cardinality(S \ {old}) = Cardinality(S) - gone /\ IsFiniteSet(S \ {old})
    <3>1. CASE old \in S
      BY <2>1, <2>3, <3>1, FS_RemoveElement, ZenonT(30)
    <3>2. CASE old \notin S
      <4>1. S \ {old} = S
        BY <3>2, ZenonT(30)
      <4>2. gone = 0
        BY <2>3, <3>2, ZenonT(30)
      <4> HIDE DEF gone
      <4> QED BY <2>1, <4>1, <4>2
    <3> QED BY <3>1, <3>2, ZenonT(30)
  <2>5. L + 1 \notin S \ {old}
    BY <2>1
  <2>6. CASE e
    <3>1. T = (S \ {old}) \cup {L + 1}
      BY <2>2, <2>6, ZenonT(30)
    <3>2. Cardinality(T) = Cardinality(S \ {old}) + 1
      BY <2>4, <2>5, <3>1, FS_AddElement, ZenonT(30)
    <3> QED BY <1>4, <2>1, <2>4, <2>6, <3>2, ZenonT(30) DEF T
  <2>7. CASE ~e
    <3>1. T = S \ {old}
      BY <2>2, <2>7, ZenonT(30)
    <3> QED BY <1>4, <2>1, <2>4, <2>7, <3>1 DEF T
  <2> QED BY <2>6, <2>7, ZenonT(30)
<1>10. Exact(t)
  <2>1. t.pos = Len(t.log) /\ t.count = Len(t.log) /\ t.errors = Cardinality(Recent(t.log))
    BY <1>6, <1>7, <1>9, ZenonT(30)
  <2>2. \A n \in 1..Len(t.log) : n > Len(t.log) - WindowSize => t.ring[(n - 1) % WindowSize] = t.log[n]
    <3> SUFFICES ASSUME NEW n \in 1..Len(t.log), n > Len(t.log) - WindowSize
                 PROVE  t.ring[(n - 1) % WindowSize] = t.log[n]
      BY ZenonT(30)
    <3>1. n \in 1..(L + 1) /\ n > L + 1 - WindowSize
      <4>1. Len(t.log) = L + 1
        BY <1>7, ZenonT(30)
      <4> QED BY <1>0, <4>1
    <3> QED BY <1>8, <3>1, ZenonT(30)
  <2> QED BY <2>1, <2>2, ZenonT(30) DEF Exact
<1> QED BY <1>5, <1>6, <1>10, ZenonT(30)

(* The flag, its time and the lock are no part of the ring.                *)
LEMMA FlagExact ==
  ASSUME NEW r \in RuleType, Exact(r), NEW b \in BOOLEAN, NEW n \in Nat, NEW l \in Workers \cup {NoWorker}
  PROVE  /\ [r EXCEPT !.degraded = b] \in RuleType /\ Exact([r EXCEPT !.degraded = b])
         /\ [r EXCEPT !.degraded = b, !.lock = l] \in RuleType /\ Exact([r EXCEPT !.degraded = b, !.lock = l])
         /\ [r EXCEPT !.since = n, !.lock = l] \in RuleType /\ Exact([r EXCEPT !.since = n, !.lock = l])
<1>1. ASSUME NEW t \in RuleType, t.ring = r.ring, t.pos = r.pos, t.count = r.count, t.errors = r.errors, t.log = r.log
      PROVE  Exact(t)
  BY <1>1, ZenonT(30) DEF Exact
<1>2. [r EXCEPT !.degraded = b] \in RuleType /\ Exact([r EXCEPT !.degraded = b])
  <2> DEFINE t == [r EXCEPT !.degraded = b]
  <2>1. t \in RuleType /\ t.ring = r.ring /\ t.pos = r.pos /\ t.count = r.count /\ t.errors = r.errors /\ t.log = r.log
    BY ZenonT(30) DEF RuleType
  <2> HIDE DEF t
  <2>2. t \in RuleType /\ Exact(t)
    BY <1>1, <2>1, ZenonT(30)
  <2> QED BY <2>2, ZenonT(30) DEF t
<1>3. [r EXCEPT !.degraded = b, !.lock = l] \in RuleType /\ Exact([r EXCEPT !.degraded = b, !.lock = l])
  <2> DEFINE t == [r EXCEPT !.degraded = b, !.lock = l]
  <2>1. t \in RuleType /\ t.ring = r.ring /\ t.pos = r.pos /\ t.count = r.count /\ t.errors = r.errors /\ t.log = r.log
    BY ZenonT(30) DEF RuleType
  <2> HIDE DEF t
  <2>2. t \in RuleType /\ Exact(t)
    BY <1>1, <2>1, ZenonT(30)
  <2> QED BY <2>2, ZenonT(30) DEF t
<1>4. [r EXCEPT !.since = n, !.lock = l] \in RuleType /\ Exact([r EXCEPT !.since = n, !.lock = l])
  <2> DEFINE t == [r EXCEPT !.since = n, !.lock = l]
  <2>1. t \in RuleType /\ t.ring = r.ring /\ t.pos = r.pos /\ t.count = r.count /\ t.errors = r.errors /\ t.log = r.log
    BY ZenonT(30) DEF RuleType
  <2> HIDE DEF t
  <2>2. t \in RuleType /\ Exact(t)
    BY <1>1, <2>1, ZenonT(30)
  <2> QED BY <2>2, ZenonT(30) DEF t
<1> QED BY <1>2, <1>3, <1>4, ZenonT(30)

(* One rule becomes another one that is exact.                             *)
LEMMA RuleChanges ==
  ASSUME RuleInv, NEW id, NEW x, id \in Ids => x \in RuleType /\ Exact(x), rule' = [rule EXCEPT ![id] = x]
  PROVE  RuleInv'
<1>1. rule' \in [Ids -> RuleType]
  BY ZenonT(30) DEF RuleInv
<1>2. ASSUME NEW i \in Ids PROVE Exact(rule'[i])
  <2>1. CASE i = id
    BY <2>1, ZenonT(30) DEF RuleInv
  <2>2. CASE i # id
    BY <2>2, ZenonT(30) DEF RuleInv
  <2> QED BY <2>1, <2>2, ZenonT(30)
<1> QED BY <1>1, <1>2, ZenonT(30) DEF RuleInv

(* The steps that write a rule: recordResult, and the stores of the flag.  *)
LEMMA RuleSteps ==
  ASSUME RuleInv, now \in Nat, NEW w \in Workers,
         \/ DegradeRecover(w) \/ StampDegrade(w)
         \/ \E r, e : e \in BOOLEAN /\ RecordResult(w, r, e)
  PROVE  RuleInv'
<1>1. ASSUME NEW id \in Ids PROVE rule[id] \in RuleType /\ Exact(rule[id])
  BY ZenonT(30) DEF RuleInv
<1>2. CASE DegradeRecover(w)
  <2> DEFINE id == deg[w].id
             x == [rule[id] EXCEPT !.degraded = FALSE]
  <2>1. rule' = [rule EXCEPT ![id] = x]
    BY <1>2, ZenonT(30) DEF DegradeRecover
  <2>2. id \in Ids => x \in RuleType /\ Exact(x)
    BY <1>1, FlagExact, ZenonT(30)
  <2> HIDE DEF id, x
  <2> QED BY <2>1, <2>2, RuleChanges, ZenonT(30)
<1>3. CASE StampDegrade(w)
  <2> DEFINE id == deg[w].id
             x == [rule[id] EXCEPT !.since = now, !.lock = NoWorker]
  <2>1. rule' = [rule EXCEPT ![id] = x]
    BY <1>3, ZenonT(30) DEF StampDegrade, RuleInv
  <2>2. id \in Ids => x \in RuleType /\ Exact(x)
    BY <1>1, FlagExact, ZenonT(30)
  <2> HIDE DEF id, x
  <2> QED BY <2>1, <2>2, RuleChanges, ZenonT(30)
<1>4. CASE \E r, e : e \in BOOLEAN /\ RecordResult(w, r, e)
  <2>1. PICK r, e : e \in BOOLEAN /\ RecordResult(w, r, e)
    BY <1>4, ZenonT(30)
  <2>2. CASE UNCHANGED rule
    BY <2>2, ZenonT(30) DEF RuleInv
  <2>3. CASE ~UNCHANGED rule
    <3> DEFINE id == <<r, current[r]>>
               next == Slide(rule[id], e)
    <3>1. id \in Ids => next \in RuleType /\ Exact(next)
      BY <1>1, <2>1, SlideExact, ZenonT(30)
    <3>2. id \in Ids => /\ [next EXCEPT !.degraded = TRUE, !.lock = w] \in RuleType
                        /\ Exact([next EXCEPT !.degraded = TRUE, !.lock = w])
      <4> HIDE DEF next, id
      <4> QED BY <3>1, FlagExact, ZenonT(30)
    <3>3. \/ rule' = [rule EXCEPT ![id] = next]
          \/ rule' = [rule EXCEPT ![id] = [next EXCEPT !.degraded = TRUE, !.lock = w]]
      BY <2>1, <2>3, ZenonT(30) DEF RecordResult
    <3> HIDE DEF next, id
    <3> QED BY <3>1, <3>2, <3>3, RuleChanges, ZenonT(30)
  <2> QED BY <2>2, <2>3, ZenonT(30)
<1> QED BY <1>2, <1>3, <1>4, ZenonT(30)

(* What Process and its surroundings do to the rules.                      *)
LEMMA RuleMoves ==
  ASSUME [Next]_vars
  PROVE  \/ UNCHANGED rule
         \/ \E w \in Workers : \/ DegradeRecover(w) \/ StampDegrade(w)
                               \/ \E r, e : e \in BOOLEAN /\ RecordResult(w, r, e)
<1>1. ASSUME NEW w \in Workers, StartDegrade(w) PROVE UNCHANGED rule
  BY <1>1, ZenonT(30) DEF StartDegrade, DegradeLoad
<1>2. ASSUME NEW w \in Workers, FinishDegrade(w) PROVE UNCHANGED rule \/ DegradeRecover(w)
  BY <1>2, ZenonT(30) DEF FinishDegrade, DegradeCool
<1>3. ASSUME NEW w \in Workers, RecordDegradation(w) PROVE \E r, e : e \in BOOLEAN /\ RecordResult(w, r, e)
  <2>1. RecordResult(w, msg[w].cmd, stage[w] = "failed rule") /\ (stage[w] = "failed rule") \in BOOLEAN
    BY <1>3, ZenonT(30) DEF RecordDegradation
  <2> QED BY <2>1, ZenonT(30)
<1>4. ASSUME NEW w \in Workers, FinishRecord(w) PROVE StampDegrade(w)
  BY <1>4, ZenonT(30) DEF FinishRecord
<1>5. ASSUME NEW w \in Workers, ProcessStep(w),
             ~(StartDegrade(w) \/ FinishDegrade(w) \/ RecordDegradation(w) \/ FinishRecord(w))
      PROVE  UNCHANGED rule
  BY <1>5, ZenonT(30) DEF ProcessStep, Receive, CheckOverload, CheckSession, FindClient, CheckBlacklist,
     CheckWhitelistEmpty, CheckWhitelisted, StartLimit, LimitStep, CheckWaf, StartBreaker, BreakerAdmission,
     CheckIntegrity, RunFilters, Send, RecordBreaker, Still, degradationVars
<1>6. CASE Reload
  BY <1>6, ZenonT(30) DEF Reload, ReloadLimiter, Retune, ReloadWhite, ReloadBlack, ReloadTraffic, AddRule,
     Still, degradationVars
<1>7. CASE CheckLoad \/ Drift \/ Maintain \/ Time \/ UNCHANGED vars
  BY <1>7, ZenonT(30) DEF CheckLoad, Drift, Maintain, Background, Time, vars, Still, degradationVars
<1> QED BY <1>1, <1>2, <1>3, <1>4, <1>5, <1>6, <1>7, ZenonT(30) DEF Next

(* The invariant of the degradation rules.                                 *)
THEOREM RuleInvariance == Spec => []RuleInv
<1>1. Init => RuleInv
  <2> SUFFICES ASSUME Init PROVE RuleInv
    BY ZenonT(30)
  <2>1. rule = [id \in Ids |-> NewRule]
    BY ZenonT(30) DEF Init, DegradationInit
  <2>2. NewRule \in RuleType
    BY DEF NewRule, RuleType
  <2>3. NewRule.pos = 0 /\ NewRule.count = 0 /\ NewRule.errors = 0 /\ NewRule.log = <<>> /\ Len(<<>>) = 0
    BY ZenonT(30) DEF NewRule
  <2>4. Recent(<<>>) = {}
    BY DEF Recent
  <2>5. Exact(NewRule)
    BY <2>3, <2>4, FS_EmptySet DEF Exact
  <2> QED BY <2>1, <2>2, <2>5, ZenonT(30) DEF RuleInv
<1>2. RuleInv /\ GateInv /\ [Next]_vars => RuleInv'
  <2> SUFFICES ASSUME RuleInv, GateInv, [Next]_vars PROVE RuleInv'
    BY ZenonT(30)
  <2>1. CASE UNCHANGED rule
    BY <2>1, ZenonT(30) DEF RuleInv
  <2>2. now \in Nat
    BY ZenonT(30) DEF GateInv, GateType
  <2> QED BY <2>1, <2>2, RuleMoves, RuleSteps, ZenonT(30)
<1> QED BY <1>1, <1>2, GateInvariance, PTL DEF Spec

(* errorCount is the number of errors among the last WindowSize results of *)
(* the route, for every window size and any number of workers, before and  *)
(* after the ring wraps and across reloads of the rule (degradation.go,    *)
(* recordResult).                                                          *)
THEOREM ErrorCountIsExact == Spec => []ErrorWindowExact
<1>1. RuleInv => ErrorWindowExact
  BY ZenonT(30) DEF RuleInv, Exact, Recent, ErrorWindowExact
<1> QED BY <1>1, RuleInvariance, PTL

-----------------------------------------------------------------------------
(* The limiter.                                                            *)

\* The stages in which a worker is inside the limiter, or about to be.
LimitStages == {"global", "global bucket", "ip", "ip bucket", "route", "route bucket"}
Limited == \A w \in Workers : stage[w] \in LimitStages => On("limit")

(* From goes to the limiter only where there is one.                       *)
LEMMA FromLimit ==
  \A s \in {"overload", "black", "global", "waf", "breaker", "integrity", "filters", "degrade"} :
    From(s) \in LimitStages => On("limit")
<1>1. ASSUME NEW n \in 1..11 PROVE From(Chain[n]) \in LimitStages => On("limit")
  <2>1. PICK m \in n..11 : From(Chain[n]) = Chain[m] /\ Present(Chain[m])
    BY FromIs, ZenonT(30)
  <2>2. m \in {1, 2, 3, 4, 5, 6, 7, 8, 9, 10, 11}
    BY <2>1
  <2>3. CASE m = 5
    BY <2>1, <2>3, ChainIs, ZenonT(30) DEF Present
  <2>4. CASE m # 5
    BY <2>1, <2>2, <2>4, ChainIs, ZenonT(30) DEF LimitStages
  <2> QED BY <2>3, <2>4, ZenonT(30)
<1>2. ASSUME NEW s \in {"overload", "black", "global", "waf", "breaker", "integrity", "filters", "degrade"}
      PROVE  \E n \in 1..11 : s = Chain[n]
  BY ChainIs
<1> QED BY <1>1, <1>2, ZenonT(30)

(* The deployment does not change.                                         *)
LEMMA SceneStays == ASSUME [Next]_vars PROVE scene' = scene
<1>1. ASSUME NEW w \in Workers, ProcessStep(w) PROVE scene' = scene
  BY <1>1, ZenonT(30) DEF ProcessStep, Receive, CheckOverload, CheckSession, FindClient, CheckBlacklist,
     CheckWhitelistEmpty, CheckWhitelisted, StartLimit, LimitStep, CheckWaf, WafUnchanged, StartBreaker,
     BreakerAdmission, CheckIntegrity, RunFilters, StartDegrade, FinishDegrade, Send, RecordBreaker,
     RecordDegradation, FinishRecord, Env
<1>2. CASE Reload
  BY <1>2, ZenonT(30) DEF Reload, ReloadLimiter, Retune, ReloadWhite, ReloadBlack, ReloadTraffic,
     ReloadUnchanged
<1>3. CASE CheckLoad \/ Drift \/ Maintain \/ Time \/ UNCHANGED vars
  BY <1>3, ZenonT(30) DEF CheckLoad, Drift, Maintain, Time, gateVars, vars
<1> QED BY <1>1, <1>2, <1>3, ZenonT(30) DEF Next

(* A worker enters the limiter where the deployment has one.               *)
LEMMA StageMoves ==
  ASSUME [Next]_vars, GateType, NEW v \in Workers, stage'[v] \in LimitStages
  PROVE  stage[v] \in LimitStages \/ On("limit")
<1> SUFFICES ASSUME stage'[v] # stage[v] PROVE stage[v] \in LimitStages \/ On("limit")
  BY ZenonT(30)
<1>0. stage \in [Workers -> Stages]
  BY ZenonT(30) DEF GateType
<1>1. PICK w \in Workers : ProcessStep(w)
  BY ZenonT(30) DEF Next, vars, gateVars, Reload, ReloadLimiter, Retune, ReloadWhite, ReloadBlack,
     ReloadTraffic, ReloadUnchanged, CheckLoad, Drift, Maintain, Time
<1>2. ASSUME NEW s, stage' = [stage EXCEPT ![w] = s]
      PROVE  v = w /\ s \in LimitStages
  BY <1>2
<1>3. CASE StartLimit(w) \/ LimitStep(w)
  <2>1. stage[w] \in LimitStages /\ \E s : stage' = [stage EXCEPT ![w] = s]
    BY <1>3, ZenonT(30) DEF StartLimit, LimitStep, LimitStages, Goto, Pass, Refuse, Drop
  <2> QED BY <2>1
<1>4. ASSUME NEW s, stage' = [stage EXCEPT ![w] = s], s \notin LimitStages
      PROVE  FALSE
  BY <1>4
<1>5. ASSUME NEW c \in {"overload", "black", "global", "waf", "breaker", "integrity", "filters", "degrade"},
             stage' = [stage EXCEPT ![w] = From(c)]
      PROVE  On("limit")
  BY <1>5, FromLimit
<1>6. CASE Receive(w) \/ CheckOverload(w) \/ CheckSession(w)
  <2>1. \/ stage' = [stage EXCEPT ![w] = From("overload")] \/ stage' = [stage EXCEPT ![w] = "idle"]
        \/ stage' = [stage EXCEPT ![w] = "session"] \/ stage' = [stage EXCEPT ![w] = "client"]
    BY <1>6, ZenonT(30) DEF Receive, CheckOverload, CheckSession, Goto, Pass, Refuse, Drop
  <2> QED BY <1>4, <1>5, <2>1, ZenonT(30) DEF LimitStages
<1>7. CASE FindClient(w) \/ CheckBlacklist(w) \/ CheckWhitelistEmpty(w) \/ CheckWhitelisted(w)
  <2>1. \/ stage' = [stage EXCEPT ![w] = From("black")] \/ stage' = [stage EXCEPT ![w] = From("global")]
        \/ stage' = [stage EXCEPT ![w] = "idle"] \/ stage' = [stage EXCEPT ![w] = "send"]
        \/ stage' = [stage EXCEPT ![w] = "white"] \/ stage' = [stage EXCEPT ![w] = "listed"]
    BY <1>7, ZenonT(30) DEF FindClient, CheckBlacklist, CheckWhitelistEmpty, CheckWhitelisted, Goto, Pass,
       Refuse, Drop
  <2> QED BY <1>4, <1>5, <2>1, ZenonT(30) DEF LimitStages
<1>8. CASE CheckWaf(w) \/ StartBreaker(w) \/ BreakerAdmission(w) \/ CheckIntegrity(w)
  <2>1. \/ stage' = [stage EXCEPT ![w] = From("breaker")] \/ stage' = [stage EXCEPT ![w] = From("integrity")]
        \/ stage' = [stage EXCEPT ![w] = From("filters")]
        \/ stage' = [stage EXCEPT ![w] = "idle"] \/ stage' = [stage EXCEPT ![w] = "admission"]
    BY <1>8, ZenonT(30) DEF CheckWaf, StartBreaker, BreakerAdmission, CheckIntegrity, Goto, Pass, Refuse, Drop
  <2> QED BY <1>4, <1>5, <2>1, ZenonT(30) DEF LimitStages
<1>9. CASE RunFilters(w) \/ StartDegrade(w) \/ FinishDegrade(w)
  <2>1. \/ stage' = [stage EXCEPT ![w] = From("degrade")] \/ stage' = [stage EXCEPT ![w] = "idle"]
        \/ stage' = [stage EXCEPT ![w] = "send"] \/ stage' = [stage EXCEPT ![w] = "cool"]
    BY <1>9, ZenonT(30) DEF RunFilters, StartDegrade, FinishDegrade, Goto, Pass, Refuse, Drop
  <2> QED BY <1>4, <1>5, <2>1, ZenonT(30) DEF LimitStages
<1>10. CASE Send(w) \/ RecordBreaker(w) \/ RecordDegradation(w) \/ FinishRecord(w)
  <2>1. \E s \in Decided : stage' = [stage EXCEPT ![w] = s]
    <3>1. CASE Send(w)
      BY <3>1, ZenonT(30) DEF Send, Recording, Decided
    <3>2. CASE RecordBreaker(w)
      BY <3>2, ZenonT(30) DEF RecordBreaker, Goto, Recording, Decided
    <3>3. CASE RecordDegradation(w) \/ FinishRecord(w)
      BY <3>3, ZenonT(30) DEF RecordDegradation, FinishRecord, Goto, Decided
    <3> QED BY <1>10, <3>1, <3>2, <3>3, ZenonT(30)
  <2>2. Decided \cap LimitStages = {}
    BY ZenonT(30) DEF Decided, LimitStages
  <2> QED BY <2>1, <2>2
<1> QED BY <1>1, <1>3, <1>6, <1>7, <1>8, <1>9, <1>10, ZenonT(30) DEF ProcessStep

(* What Process and its surroundings do to the limiter.                    *)
LEMMA LimiterMoves ==
  ASSUME GateInv, Limited, [Next]_vars
  PROVE  (LimiterStep /\ now' = now) \/ (UNCHANGED limiterVars /\ (now' = now \/ Tick))
<1>1. ASSUME NEW w \in Workers, StartLimit(w)
      PROVE  now' = now /\ (AllowGlobal(w) \/ \E k \in Keys : Allow(w, k))
  <2>1. Ip[w] \in Keys
    BY ProtectionAssumption, ZenonT(30)
  <2>2. stage[w] = "route" => msg[w].cmd \in Keys
    BY ProtectionAssumption, ZenonT(30) DEF GateInv, GateType, Commanded, Limited, LimitStages, On
  <2> QED BY <1>1, <2>1, <2>2, ZenonT(30) DEF StartLimit
<1>2. ASSUME NEW w \in Workers, LimitStep(w)
      PROVE  now' = now /\ \/ CreateBucket(w) \/ ReadClock(w) \/ ReadLast(w) \/ SwapLast(w)
                           \/ ReadBurst(w) \/ AddRefill(w) \/ TakeToken(w)
  BY <1>2, ZenonT(30) DEF LimitStep
<1>3. ASSUME NEW w \in Workers, ProcessStep(w), ~StartLimit(w), ~LimitStep(w)
      PROVE  UNCHANGED limiterVars /\ now' = now
  BY <1>3, ZenonT(30) DEF ProcessStep, Receive, CheckOverload, CheckSession, FindClient, CheckBlacklist,
     CheckWhitelistEmpty, CheckWhitelisted, CheckWaf, StartBreaker, BreakerAdmission, CheckIntegrity, RunFilters,
     StartDegrade, FinishDegrade, Send, RecordBreaker, RecordDegradation, FinishRecord, Still
<1>4. ASSUME NEW s \in Settings, ReloadLimiter(s) PROVE now' = now /\ (UpdateRate(s) \/ UNCHANGED limiterVars)
  BY <1>4, ZenonT(30) DEF ReloadLimiter
<1>5. CASE Retune
  BY <1>5, ZenonT(30) DEF Retune, LimiterStep
<1>6. CASE (\E l \in SUBSET Addresses : ReloadWhite(l) \/ ReloadBlack(l)) \/ ReloadTraffic \/ CheckLoad \/ Drift
  BY <1>6, ZenonT(30) DEF ReloadWhite, ReloadBlack, ReloadTraffic, CheckLoad, Drift, Still
<1>7. CASE Maintain
  BY <1>7, ZenonT(30) DEF Maintain, Background, Still, LimiterStep
<1>8. CASE Time \/ UNCHANGED vars
  BY <1>8, ZenonT(30) DEF Time, vars
<1>9. ASSUME NEW w \in Workers, ProcessStep(w)
      PROVE  (LimiterStep /\ now' = now) \/ (UNCHANGED limiterVars /\ now' = now)
  BY <1>1, <1>2, <1>3, <1>9, ZenonT(30) DEF LimiterStep
<1>10. CASE Reload
  BY <1>4, <1>5, <1>6, <1>10, ZenonT(30) DEF Reload, LimiterStep
<1> QED BY <1>6, <1>7, <1>8, <1>9, <1>10, ZenonT(30) DEF Next

(* The invariant of the limiter, whatever else Process does.               *)
THEOREM LimitInvariance == Spec => [](LimitInv /\ Limited)
<1>1. Init => LimitInv /\ Limited
  <2> SUFFICES ASSUME Init PROVE LimitInv /\ Limited
    BY ZenonT(30)
  <2>1. LimiterInit /\ now = 0 /\ BucketIds # {} /\ stage = [w \in Workers |-> "idle"]
    BY ProtectionAssumption, ZenonT(30) DEF Init
  <2>2. Limited
    BY <2>1, ZenonT(30) DEF Limited, LimitStages
  <2> QED BY <2>1, <2>2, InitLimit, ZenonT(30)
<1>2. LimitInv /\ Limited /\ GateInv /\ [Next]_vars => LimitInv' /\ Limited'
  <2> SUFFICES ASSUME LimitInv, Limited, GateInv, [Next]_vars PROVE LimitInv' /\ Limited'
    BY ZenonT(30)
  <2>1. LimitInv'
    BY LimiterMoves, LimitStepKeeps, ZenonT(30)
  <2>2. GateType /\ scene' = scene
    BY SceneStays, ZenonT(30) DEF GateInv
  <2>3. Limited'
    BY <2>2, StageMoves, ZenonT(30) DEF Limited, On
  <2> QED BY <2>1, <2>3, ZenonT(30)
<1> QED BY <1>1, <1>2, GateInvariance, PTL DEF Spec

(* A bucket never hands out more than its rate at the start and one rate   *)
(* for each refresh period since, for any number of workers that refill    *)
(* and take, of reloads, and of creations and cleanups of buckets          *)
(* (ratelimit.go, tryConsume).                                             *)
THEOREM GrantsAreBounded == Spec => []GrantBound
BY LimitInvariance, PaidBound, PTL
=============================================================================
