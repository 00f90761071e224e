---------------------------- MODULE GatewayProofs ----------------------------
(***************************************************************************)
(* For any deployments, engines, connections, event loops and addresses:   *)
(* the counters of connections, in all and per address, are exact, and the *)
(* first passes the limit by less than the number of loops (Admission);    *)
(* what is in force is valid, carries the security switches of the start   *)
(* and is in force as a whole when no update is under way, for any files,  *)
(* any patches of the configuration centre and any order of the goroutines *)
(* that bring them in (ConfigReload); the gateway admits connections as    *)
(* Admission says, serves only with every security feature in place, and   *)
(* closing it leaves nothing behind (Gateway).                             *)
(***************************************************************************)
EXTENDS Gateway, FiniteSetTheorems, TLAPS

USE SMTT(30), ZenonT(30)

-----------------------------------------------------------------------------
(* Admission.                                                              *)

\* Loops that have passed the check and have not yet raised the counter.
Adding == {l \in Loops : lpc[l] \in {"perIP", "add"}}

\* What a loop at work knows about its connection.
Shape ==
  /\ \A l \in Loops : lpc[l] # "idle" <=> at[l] \in Conns
  /\ \A l \in Loops : lpc[l] \in {"drop", "raise", "set"} => to[l] \in IPs
  /\ \A l \in Loops : lpc[l] \in {"perIP", "add"} => state[at[l]] = "new"
  /\ \A l, m \in Loops : l # m /\ at[l] \in Conns => at[l] # at[m]

\* Every loop that has passed the check is counted as if it had added.
Reserved == count + Cardinality(Adding) <= MaxConns + Cardinality(Loops) - 1

IInv == TypeOK /\ Shape /\ CountExact /\ Reserved

(* Live and Adding are finite, with cardinalities in Nat.                  *)
LEMMA FiniteCounts ==
  /\ IsFiniteSet(Live) /\ Cardinality(Live) \in Nat
  /\ IsFiniteSet(Adding) /\ Cardinality(Adding) \in Nat /\ Cardinality(Adding) <= Cardinality(Loops)
  /\ Cardinality(Loops) \in Nat /\ Cardinality(Loops) > 0
<1>1. Live \subseteq Conns /\ Adding \subseteq Loops
  BY ZenonT(30) DEF Live, Adding
<1>2. IsFiniteSet(Live) /\ IsFiniteSet(Adding)
  BY <1>1, FS_Subset, AdmissionAssumption, ZenonT(30)
<1>3. Cardinality(Live) \in Nat /\ Cardinality(Adding) \in Nat /\ Cardinality(Loops) \in Nat
  BY <1>2, FS_CardinalityType, AdmissionAssumption, ZenonT(30)
<1>4. Cardinality(Adding) <= Cardinality(Loops)
  BY <1>1, FS_Subset, AdmissionAssumption, ZenonT(30)
<1>5. Cardinality(Loops) # 0
  BY FS_EmptySet, AdmissionAssumption, ZenonT(30)
<1> QED BY <1>2, <1>3, <1>4, <1>5

(* The initial states satisfy the invariant: nothing is open or being      *)
(* opened.                                                                 *)
LEMMA InitIInv == Init => IInv
<1> SUFFICES ASSUME Init PROVE IInv
  BY ZenonT(30)
<1>1. TypeOK /\ Shape
  BY AdmissionAssumption DEF Init, TypeOK, Shape
<1>2. Live = {} /\ Adding = {}
  BY ZenonT(30) DEF Init, Live, Adding
<1>3. Cardinality(Live) = 0 /\ Cardinality(Adding) = 0
  BY <1>2, FS_EmptySet, ZenonT(30)
<1>4. CountExact /\ Reserved
  BY <1>3, FiniteCounts, AdmissionAssumption DEF Init, CountExact, Reserved
<1> QED BY <1>1, <1>4, ZenonT(30) DEF IInv

(* A step that neither adds a connection nor completes a removal leaves    *)
(* the counter and the live connections alone.                             *)
LEMMA SameCount ==
  ASSUME IInv, count' = count, Live' = Live, Adding' \subseteq Adding
  PROVE  CountExact' /\ Reserved'
<1>1. CountExact'
  BY ZenonT(30) DEF IInv, CountExact
<1>2. IsFiniteSet(Adding) /\ Cardinality(Adding) \in Nat /\ Cardinality(Loops) \in Nat
  BY FiniteCounts, ZenonT(30)
<1>3. IsFiniteSet(Adding') /\ Cardinality(Adding') <= Cardinality(Adding) /\ Cardinality(Adding') \in Nat
  BY <1>2, FS_Subset, FS_CardinalityType, ZenonT(30)
<1>4. Reserved'
  BY <1>2, <1>3, AdmissionAssumption DEF IInv, Reserved, TypeOK
<1> QED BY <1>1, <1>4, ZenonT(30)

(* Types and the shape of the loops' work are preserved by every step.     *)
LEMMA ShapeStep == TypeOK /\ Shape /\ Next => TypeOK' /\ Shape'
<1> SUFFICES ASSUME TypeOK, Shape, Next PROVE TypeOK' /\ Shape'
  BY ZenonT(30)
<1>1. ASSUME NEW l \in Loops, NEW c \in Conns, CanAccept(l, c) PROVE TypeOK' /\ Shape'
  BY <1>1 DEF TypeOK, Shape, CanAccept, Step, Busy
<1>2. ASSUME NEW l \in Loops, CanAcceptIP(l) PROVE TypeOK' /\ Shape'
  BY AdmissionAssumption, <1>2 DEF TypeOK, Shape, CanAcceptIP, Step, Done
<1>3. ASSUME NEW l \in Loops, AddConnection(l) PROVE TypeOK' /\ Shape'
  BY <1>3 DEF TypeOK, Shape, AddConnection, Step
<1>4. ASSUME NEW l \in Loops, AddIP(l) PROVE TypeOK' /\ Shape'
  BY AdmissionAssumption, <1>4 DEF TypeOK, Shape, AddIP, Step, Done, incrementIP
<1>5. ASSUME NEW l \in Loops, NEW c \in Conns, NEW i \in IPs, UpdateConnectionIP(l, c, i)
      PROVE TypeOK' /\ Shape'
  BY <1>5, ZenonT(30) DEF TypeOK, Shape, UpdateConnectionIP, Step, Busy
<1>6. ASSUME NEW l \in Loops, DropOld(l) PROVE TypeOK' /\ Shape'
  BY <1>6 DEF TypeOK, Shape, DropOld, Step, decrementIP
<1>7. ASSUME NEW l \in Loops, RaiseNew(l) PROVE TypeOK' /\ Shape'
  BY <1>7 DEF TypeOK, Shape, RaiseNew, Step, incrementIP
<1>8. ASSUME NEW l \in Loops, SetRemoteHost(l) PROVE TypeOK' /\ Shape'
  BY AdmissionAssumption, <1>8, ZenonT(30) DEF TypeOK, Shape, SetRemoteHost, Step, Done
<1>9. ASSUME NEW c \in Conns, Delete(c) PROVE TypeOK' /\ Shape'
  BY <1>9, ZenonT(30) DEF TypeOK, Shape, Delete
<1>10. ASSUME NEW c \in Conns, LowerIP(c) PROVE TypeOK' /\ Shape'
  BY <1>10 DEF TypeOK, Shape, LowerIP, decrementIP
<1>11. ASSUME NEW c \in Conns, LowerCount(c) PROVE TypeOK' /\ Shape'
  BY <1>11 DEF TypeOK, Shape, LowerCount
<1> QED BY <1>1, <1>2, <1>3, <1>4, <1>5, <1>6, <1>7, <1>8, <1>9, <1>10, <1>11, ZenonT(30) DEF Next

(* The step that passes the check reserves a place, the step that adds     *)
(* uses it, and the one that completes a removal frees one.                *)
LEMMA CountStep == IInv /\ Next => CountExact' /\ Reserved'
<1> SUFFICES ASSUME IInv, Next PROVE CountExact' /\ Reserved'
  BY ZenonT(30)
<1>1. ASSUME NEW l \in Loops, NEW c \in Conns, CanAccept(l, c) PROVE CountExact' /\ Reserved'
  <2>1. Live' = Live /\ count' = count
    BY <1>1, ZenonT(30) DEF CanAccept, Live, IInv, TypeOK
  <2>2. CASE UNCHANGED lpc
    BY <2>1, <2>2, SameCount, ZenonT(30) DEF Adding
  <2>3. CASE count < MaxConns /\ Step(l, "idle", "perIP")
    <3>1. Adding' \subseteq Loops
      BY ZenonT(30) DEF Adding
    <3>2. Cardinality(Adding') <= Cardinality(Loops) /\ Cardinality(Adding') \in Nat
      BY <3>1, FS_Subset, FS_CardinalityType, AdmissionAssumption, ZenonT(30)
    <3>3. Reserved'
      BY <2>1, <2>3, <3>2, FiniteCounts, AdmissionAssumption DEF Reserved, IInv, TypeOK
    <3> QED BY <2>1, <3>3, ZenonT(30) DEF CountExact, IInv
  <2> QED BY <1>1, <2>2, <2>3, ZenonT(30) DEF CanAccept
<1>2. ASSUME NEW l \in Loops, CanAcceptIP(l) PROVE CountExact' /\ Reserved'
  <2>1. Live' = Live
    BY <1>2, ZenonT(30) DEF CanAcceptIP, Step, Done, Live, IInv, TypeOK, Shape
  <2>2. Adding' \subseteq Adding /\ count' = count
    BY <1>2, ZenonT(30) DEF CanAcceptIP, Step, Done, Adding, IInv, TypeOK
  <2> QED BY <2>1, <2>2, SameCount, ZenonT(30)
<1>3. ASSUME NEW l \in Loops, AddConnection(l) PROVE CountExact' /\ Reserved'
  <2> DEFINE c == at[l]
  <2>1. c \in Conns /\ state[c] = "new" /\ count' = count + 1
    BY <1>3, ZenonT(30) DEF AddConnection, Step, IInv, Shape
  <2>2. Live' = Live \cup {c} /\ c \notin Live
    BY <1>3, <2>1, ZenonT(30) DEF AddConnection, Live, IInv, TypeOK
  <2>3. Adding' = Adding \ {l} /\ l \in Adding
    BY <1>3, ZenonT(30) DEF AddConnection, Step, Adding, IInv, TypeOK
  <2>4. Cardinality(Live') = Cardinality(Live) + 1
    BY <2>2, FiniteCounts, FS_AddElement, ZenonT(30)
  <2>5. Cardinality(Adding') = Cardinality(Adding) - 1
    BY <2>3, FiniteCounts, FS_RemoveElement, ZenonT(30)
  <2>6. CountExact'
    BY <2>1, <2>4, ZenonT(30) DEF CountExact, IInv
  <2>7. Reserved'
    BY <2>1, <2>5, FiniteCounts DEF Reserved, IInv, TypeOK
  <2> QED BY <2>6, <2>7, ZenonT(30)
<1>4. ASSUME NEW c \in Conns, LowerCount(c) PROVE CountExact' /\ Reserved'
  <2>1. Live' = Live \ {c} /\ c \in Live /\ count' = count - 1 /\ Adding' = Adding
    BY <1>4, ZenonT(30) DEF LowerCount, Live, Adding, IInv, TypeOK
  <2>2. Cardinality(Live') = Cardinality(Live) - 1
    BY <2>1, FiniteCounts, FS_RemoveElement, ZenonT(30)
  <2>3. CountExact'
    BY <2>1, <2>2, ZenonT(30) DEF CountExact, IInv
  <2>4. Reserved'
    BY <2>1, FiniteCounts, AdmissionAssumption DEF Reserved, IInv, TypeOK
  <2> QED BY <2>3, <2>4, ZenonT(30)
<1>5. ASSUME NEW l \in Loops, AddIP(l) \/ DropOld(l) \/ RaiseNew(l) \/ SetRemoteHost(l)
      PROVE CountExact' /\ Reserved'
  <2>1. Live' = Live /\ Adding' \subseteq Adding /\ count' = count
    BY <1>5, ZenonT(30) DEF AddIP, DropOld, RaiseNew, SetRemoteHost, Step, Done, Live, Adding, IInv, TypeOK
  <2> QED BY <2>1, SameCount, ZenonT(30)
<1>6. ASSUME NEW l \in Loops, NEW c \in Conns, NEW i \in IPs, UpdateConnectionIP(l, c, i)
      PROVE CountExact' /\ Reserved'
  <2>1. Live' = Live /\ Adding' \subseteq Adding /\ count' = count
    BY <1>6, ZenonT(30) DEF UpdateConnectionIP, Step, Live, Adding, IInv, TypeOK
  <2> QED BY <2>1, SameCount, ZenonT(30)
<1>7. ASSUME NEW c \in Conns, Delete(c) \/ LowerIP(c) PROVE CountExact' /\ Reserved'
  <2>1. Live' = Live /\ Adding' \subseteq Adding /\ count' = count
    BY <1>7, ZenonT(30) DEF Delete, LowerIP, Live, Adding, IInv, TypeOK
  <2> QED BY <2>1, SameCount, ZenonT(30)
<1> QED BY <1>1, <1>2, <1>3, <1>4, <1>5, <1>6, <1>7, ZenonT(30) DEF Next

(* Stuttering changes nothing the invariant speaks of.                     *)
LEMMA StutterIInv == IInv /\ UNCHANGED vars => IInv'
<1> SUFFICES ASSUME IInv, UNCHANGED vars PROVE IInv'
  BY ZenonT(30)
<1>1. TypeOK' /\ Shape'
  BY ZenonT(30) DEF IInv, TypeOK, Shape, vars
<1>2. Live' = Live /\ Adding' \subseteq Adding /\ count' = count
  BY ZenonT(30) DEF vars, Live, Adding
<1> QED BY <1>1, <1>2, SameCount, ZenonT(30) DEF IInv

(* The invariant holds in every reachable state.                           *)
THEOREM Invariance == Spec => []IInv
<1>1. IInv /\ [Next]_vars => IInv'
  BY ShapeStep, CountStep, StutterIInv, ZenonT(30) DEF IInv
<1> QED BY InitIInv, <1>1, PTL DEF Spec

(* count is the number of connections whose removal is not complete        *)
(* (AddConnection, RemoveConnection), for any number of loops and checkers. *)
THEOREM CountIsExact == Spec => []CountExact
<1>1. IInv => CountExact
  BY ZenonT(30) DEF IInv
<1> QED BY Invariance, <1>1, PTL

(* CanAccept and AddConnection, apart as they are, let the counter pass    *)
(* maxConnections by at most one less than the number of event loops.      *)
THEOREM AdmissionIsBounded == Spec => []AdmissionBound
<1>1. IInv => AdmissionBound
  BY FiniteCounts, AdmissionAssumption DEF IInv, Reserved, AdmissionBound, TypeOK
<1> QED BY Invariance, <1>1, PTL

-----------------------------------------------------------------------------
(* The counters of the addresses.                                          *)

\* A connection that was not removed under a loop is open while a loop counts
\* or moves it.
Uncrossed ==
  crossed = {} => \A l \in Loops : lpc[l] \in {"addIP", "drop", "raise", "set"} => state[at[l]] = "open"

IPInv == TypeOK /\ Shape /\ Uncrossed /\ IPExact

\* Where a connection is counted when no loop has it in hand.
Resting(c) == IF state[c] \in {"open", "deleted"} THEN ip[c] ELSE None

\* CountedAt, by what the connection's loop is doing.
Counting ==
  \A c \in Conns :
    /\ \A l \in Loops : at[l] = c =>
         CountedAt(c) = CASE lpc[l] \in {"addIP", "raise"} -> None
                          [] lpc[l] = "set" -> to[l]
                          [] OTHER -> Resting(c)
    /\ ~Busy(c) => CountedAt(c) = Resting(c)

(* A loop that has a connection in hand is the only one.                   *)
LEMMA CountedAtIs == Shape => Counting
<1> SUFFICES ASSUME Shape, NEW c \in Conns
             PROVE  /\ \A l \in Loops : at[l] = c =>
                         CountedAt(c) = CASE lpc[l] \in {"addIP", "raise"} -> None
                                          [] lpc[l] = "set" -> to[l]
                                          [] OTHER -> Resting(c)
                    /\ ~Busy(c) => CountedAt(c) = Resting(c)
  BY ZenonT(30) DEF Counting
<1>1. ASSUME NEW l \in Loops, at[l] = c
      PROVE  CountedAt(c) = CASE lpc[l] \in {"addIP", "raise"} -> None
                              [] lpc[l] = "set" -> to[l]
                              [] OTHER -> Resting(c)
  <2>1. \A m \in Loops : at[m] = c => m = l
    BY <1>1, ZenonT(30) DEF Shape
  <2>2. (CHOOSE m \in Loops : at[m] = c) = l
    BY <1>1, <2>1, ZenonT(30)
  <2> QED BY <1>1, <2>1, <2>2, ZenonT(30) DEF CountedAt, Resting
<1>2. ~Busy(c) => CountedAt(c) = Resting(c)
  BY ZenonT(30) DEF Busy, CountedAt, Resting
<1> QED BY <1>1, <1>2, ZenonT(30)

\* The connections that f counts at i.
CountedBy(f, i) == {d \in Conns : f[d] = i}

(* What one connection counted elsewhere does to the number counted at an  *)
(* address.                                                                *)
LEMMA Recount ==
  ASSUME NEW f, NEW g, NEW c \in Conns, NEW i, \A d \in Conns \ {c} : g[d] = f[d]
  PROVE  /\ Cardinality(CountedBy(f, i)) \in Nat /\ Cardinality(CountedBy(g, i)) \in Nat
         /\ (f[c] = i) = (g[c] = i) => Cardinality(CountedBy(g, i)) = Cardinality(CountedBy(f, i))
         /\ f[c] # i /\ g[c] = i => Cardinality(CountedBy(g, i)) = Cardinality(CountedBy(f, i)) + 1
         /\ f[c] = i /\ g[c] # i => /\ Cardinality(CountedBy(f, i)) > 0
                                    /\ Cardinality(CountedBy(g, i)) = Cardinality(CountedBy(f, i)) - 1
<1> DEFINE F == CountedBy(f, i)
           G == CountedBy(g, i)
<1>1. IsFiniteSet(F) /\ IsFiniteSet(G)
  <2>1. F \subseteq Conns /\ G \subseteq Conns
    BY ZenonT(30) DEF CountedBy
  <2> QED BY <2>1, FS_Subset, AdmissionAssumption, ZenonT(30) DEF CountedBy
<1>2. Cardinality(F) \in Nat /\ Cardinality(G) \in Nat
  BY <1>1, FS_CardinalityType, ZenonT(30) DEF CountedBy
<1>3. (f[c] = i) = (g[c] = i) => G = F
  BY ZenonT(30) DEF CountedBy
<1>4. f[c] # i /\ g[c] = i => G = F \cup {c} /\ c \notin F
  BY DEF CountedBy
<1>5. f[c] = i /\ g[c] # i => G = F \ {c} /\ c \in F
  BY ZenonT(30) DEF CountedBy
<1> HIDE DEF F, G
<1>6. f[c] # i /\ g[c] = i => Cardinality(G) = Cardinality(F) + 1
  BY <1>1, <1>4, FS_AddElement, ZenonT(30) DEF CountedBy
<1>7. f[c] = i /\ g[c] # i => Cardinality(F) > 0 /\ Cardinality(G) = Cardinality(F) - 1
  BY <1>1, <1>2, <1>5, FS_RemoveElement DEF CountedBy
<1> HIDE DEF CountedBy
<1> QED BY <1>2, <1>3, <1>6, <1>7, ZenonT(30) DEF F, G

(* A counter goes up with a connection that comes to be counted at its     *)
(* address, and down with one that ceases to be.                           *)
LEMMA CounterStep ==
  ASSUME IPInv, crossed = {}, NEW c \in Conns,
         \A d \in Conns \ {c} : CountedAt(d)' = CountedAt(d),
         \/ CountedAt(c)' = CountedAt(c) /\ UNCHANGED ipConnections
         \/ \E i \in IPs : CountedAt(c) = None /\ CountedAt(c)' = i /\ incrementIP(i)
         \/ \E i \in IPs : CountedAt(c) = i /\ CountedAt(c)' = None /\ decrementIP(i)
  PROVE  IPExact'
<1> SUFFICES ASSUME NEW i \in IPs
             PROVE  ipConnections'[i] = Cardinality({d \in Conns : CountedAt(d)' = i})
  BY ZenonT(30) DEF IPExact
<1> DEFINE f == [d \in Conns |-> CountedAt(d)]
           g == [d \in Conns |-> CountedAt(d)']
           F == CountedBy(f, i)
           G == CountedBy(g, i)
<1>1. F = {d \in Conns : CountedAt(d) = i} /\ G = {d \in Conns : CountedAt(d)' = i}
  BY ZenonT(30) DEF CountedBy
<1>2. f[c] = CountedAt(c) /\ g[c] = CountedAt(c)' /\ \A d \in Conns \ {c} : g[d] = f[d]
  BY ZenonT(30)
<1>3. ipConnections[i] = Cardinality(F) /\ ipConnections \in [IPs -> Nat]
  BY <1>1, ZenonT(30) DEF IPInv, IPExact, TypeOK
<1> HIDE DEF f, g
<1>4. /\ Cardinality(F) \in Nat /\ Cardinality(G) \in Nat
      /\ (f[c] = i) = (g[c] = i) => Cardinality(G) = Cardinality(F)
      /\ f[c] # i /\ g[c] = i => Cardinality(G) = Cardinality(F) + 1
      /\ f[c] = i /\ g[c] # i => Cardinality(F) > 0 /\ Cardinality(G) = Cardinality(F) - 1
  BY <1>2, Recount
<1> HIDE DEF F, G
<1>5. i # None
  BY AdmissionAssumption, ZenonT(30)
<1>6. ipConnections'[i] = Cardinality(G)
  <2>1. CASE CountedAt(c)' = CountedAt(c) /\ UNCHANGED ipConnections
    BY <1>2, <1>3, <1>4, <2>1, ZenonT(30)
  <2>2. ASSUME NEW j \in IPs, CountedAt(c) = None, CountedAt(c)' = j, incrementIP(j)
        PROVE  ipConnections'[i] = Cardinality(G)
    <3>1. f[c] # i /\ (g[c] = i <=> j = i)
      BY <1>2, <1>5, <2>2, ZenonT(30)
    <3>2. CASE j = i
      BY <1>3, <1>4, <2>2, <3>1, <3>2, ZenonT(30) DEF incrementIP
    <3>3. CASE j # i
      BY <1>3, <1>4, <2>2, <3>1, <3>3, ZenonT(30) DEF incrementIP
    <3> QED BY <3>2, <3>3, ZenonT(30)
  <2>3. ASSUME NEW j \in IPs, CountedAt(c) = j, CountedAt(c)' = None, decrementIP(j)
        PROVE  ipConnections'[i] = Cardinality(G)
    <3>1. g[c] # i /\ (f[c] = i <=> j = i)
      BY <1>2, <1>5, <2>3, ZenonT(30)
    <3>2. CASE j = i
      BY <1>3, <1>4, <2>3, <3>1, <3>2 DEF decrementIP
    <3>3. CASE j # i
      BY <1>3, <1>4, <2>3, <3>1, <3>3, ZenonT(30) DEF decrementIP
    <3> QED BY <3>2, <3>3, ZenonT(30)
  <2> QED BY <2>1, <2>2, <2>3, ZenonT(30)
<1> QED BY <1>1, <1>6, ZenonT(30)

(* A step of a loop with its connection leaves the others where they are   *)
(* counted.                                                                *)
LEMMA OthersCounted ==
  ASSUME TypeOK, Shape, Shape', NEW c \in Conns,
         \A m \in Loops : at[m] \in Conns \ {c} \/ at'[m] \in Conns \ {c} =>
           lpc'[m] = lpc[m] /\ at'[m] = at[m] /\ to'[m] = to[m],
         \A d \in Conns \ {c} : state'[d] = state[d] /\ ip'[d] = ip[d]
  PROVE  \A d \in Conns \ {c} : CountedAt(d)' = CountedAt(d)
<1>1. Counting /\ Counting'
  <2>1. Shape' => Counting'
    BY CountedAtIs, PTL
  <2> QED BY <2>1, CountedAtIs, ZenonT(30)
<1> SUFFICES ASSUME NEW d \in Conns \ {c} PROVE CountedAt(d)' = CountedAt(d)
  BY ZenonT(30)
<1>2. Resting(d)' = Resting(d)
  BY ZenonT(30) DEF Resting
<1>3. CASE \E l \in Loops : at[l] = d
  BY <1>1, <1>2, <1>3 DEF Counting
<1>4. CASE ~\E l \in Loops : at[l] = d
  <2>1. ~Busy(d) /\ ~Busy(d)'
    BY <1>4, ZenonT(30) DEF Busy
  <2> QED BY <1>1, <1>2, <2>1, ZenonT(30) DEF Counting
<1> QED BY <1>3, <1>4, ZenonT(30)

(* Every step keeps the counters of the addresses exact, as long as no     *)
(* connection is removed under a loop that moves it.                       *)
LEMMA IPStep == IPInv /\ Next => Uncrossed' /\ IPExact'
<1> SUFFICES ASSUME IPInv, Next PROVE Uncrossed' /\ IPExact'
  BY ZenonT(30)
<1>0. /\ TypeOK /\ Shape /\ Uncrossed /\ TypeOK' /\ Shape' /\ Counting /\ Counting'
  <2>1. TypeOK' /\ Shape'
    BY ShapeStep, ZenonT(30) DEF IPInv
  <2>2. Shape' => Counting'
    BY CountedAtIs, PTL
  <2> QED BY <2>1, <2>2, CountedAtIs, ZenonT(30) DEF IPInv
<1>1. CASE crossed' # {}
  BY <1>1, ZenonT(30) DEF Uncrossed, IPExact
<1>2. ASSUME crossed' = {}, crossed = {}, NEW l \in Loops, NEW c \in Conns, CanAccept(l, c)
      PROVE  Uncrossed' /\ IPExact'
  <2>1. Uncrossed'
    BY <1>0, <1>2 DEF CanAccept, Step, Busy, TypeOK, Shape, Uncrossed
  <2>2. \A d \in Conns \ {c} : CountedAt(d)' = CountedAt(d)
    <3>1. \A m \in Loops : at[m] \in Conns \ {c} \/ at'[m] \in Conns \ {c} =>
            lpc'[m] = lpc[m] /\ at'[m] = at[m] /\ to'[m] = to[m]
      BY <1>0, <1>2 DEF CanAccept, Step, Busy, TypeOK, Shape
    <3>2. \A d \in Conns \ {c} : state'[d] = state[d] /\ ip'[d] = ip[d]
      BY <1>0, <1>2, ZenonT(30) DEF CanAccept, TypeOK
    <3> QED BY <1>0, <3>1, <3>2, OthersCounted, ZenonT(30)
  <2>3. CountedAt(c) = None /\ CountedAt(c)' = None
    BY <1>0, <1>2 DEF CanAccept, Step, Busy, TypeOK, Counting, Resting
  <2>4. UNCHANGED ipConnections
    BY <1>2, ZenonT(30) DEF CanAccept
  <2> QED BY <1>2, <2>1, <2>2, <2>3, <2>4, CounterStep, ZenonT(30)
<1>3. ASSUME crossed' = {}, crossed = {}, NEW l \in Loops, CanAcceptIP(l)
      PROVE  Uncrossed' /\ IPExact'
  <2>0. PICK c \in Conns : c = at[l] /\ lpc[l] = "perIP"
    BY <1>0, <1>3, ZenonT(30) DEF CanAcceptIP, Step, Done, Shape
  <2>1. Uncrossed'
    BY <1>0, <1>3, <2>0 DEF CanAcceptIP, Step, Done, TypeOK, Shape, Uncrossed
  <2>2. \A d \in Conns \ {c} : CountedAt(d)' = CountedAt(d)
    <3>1. \A m \in Loops : at[m] \in Conns \ {c} \/ at'[m] \in Conns \ {c} =>
            lpc'[m] = lpc[m] /\ at'[m] = at[m] /\ to'[m] = to[m]
      BY <1>0, <1>3, <2>0 DEF CanAcceptIP, Step, Done, TypeOK, Shape
    <3>2. \A d \in Conns \ {c} : state'[d] = state[d] /\ ip'[d] = ip[d]
      BY <1>0, <1>3, <2>0, ZenonT(30) DEF CanAcceptIP, Step, Done, TypeOK
    <3> QED BY <1>0, <2>0, <3>1, <3>2, OthersCounted, ZenonT(30)
  <2>3. CountedAt(c)' = CountedAt(c)
    BY <1>0, <1>3, <2>0 DEF CanAcceptIP, Step, Done, Busy, TypeOK, Shape, Uncrossed, Counting, Resting
  <2>4. UNCHANGED ipConnections
    BY <1>3, ZenonT(30) DEF CanAcceptIP, Step, Done, Busy
  <2> QED BY <1>3, <2>0, <2>1, <2>2, <2>3, <2>4, CounterStep, ZenonT(30)
<1>4. ASSUME crossed' = {}, crossed = {}, NEW l \in Loops, AddConnection(l)
      PROVE  Uncrossed' /\ IPExact'
  <2>0. PICK c \in Conns : c = at[l] /\ lpc[l] = "add"
    BY <1>0, <1>4, ZenonT(30) DEF AddConnection, Step, Shape
  <2>1. Uncrossed'
    BY <1>0, <1>4, <2>0 DEF AddConnection, Step, TypeOK, Shape, Uncrossed
  <2>2. \A d \in Conns \ {c} : CountedAt(d)' = CountedAt(d)
    <3>1. \A m \in Loops : at[m] \in Conns \ {c} \/ at'[m] \in Conns \ {c} =>
            lpc'[m] = lpc[m] /\ at'[m] = at[m] /\ to'[m] = to[m]
      BY <1>0, <1>4, <2>0, ZenonT(30) DEF AddConnection, Step, TypeOK, Shape
    <3>2. \A d \in Conns \ {c} : state'[d] = state[d] /\ ip'[d] = ip[d]
      BY <1>0, <1>4, <2>0, ZenonT(30) DEF AddConnection, Step, TypeOK
    <3> QED BY <1>0, <2>0, <3>1, <3>2, OthersCounted, ZenonT(30)
  <2>3. CountedAt(c)' = CountedAt(c)
    BY <1>0, <1>4, <2>0 DEF AddConnection, Step, TypeOK, Shape, Uncrossed, Counting, Resting
  <2>4. UNCHANGED ipConnections
    BY <1>4, ZenonT(30) DEF AddConnection, Step
  <2> QED BY <1>4, <2>0, <2>1, <2>2, <2>3, <2>4, CounterStep, ZenonT(30)
<1>5. ASSUME crossed' = {}, crossed = {}, NEW l \in Loops, AddIP(l)
      PROVE  Uncrossed' /\ IPExact'
  <2>0. PICK c \in Conns : c = at[l] /\ lpc[l] = "addIP"
    BY <1>0, <1>5, ZenonT(30) DEF AddIP, Step, Done, Shape
  <2>1. Uncrossed'
    BY <1>0, <1>5, <2>0 DEF AddIP, Step, Done, TypeOK, Shape, Uncrossed
  <2>2. \A d \in Conns \ {c} : CountedAt(d)' = CountedAt(d)
    <3>1. \A m \in Loops : at[m] \in Conns \ {c} \/ at'[m] \in Conns \ {c} =>
            lpc'[m] = lpc[m] /\ at'[m] = at[m] /\ to'[m] = to[m]
      BY <1>0, <1>5, <2>0 DEF AddIP, Step, Done, TypeOK, Shape
    <3>2. \A d \in Conns \ {c} : state'[d] = state[d] /\ ip'[d] = ip[d]
      BY <1>0, <1>5, <2>0, ZenonT(30) DEF AddIP, Step, Done, TypeOK
    <3> QED BY <1>0, <2>0, <3>1, <3>2, OthersCounted, ZenonT(30)
  <2>3. ip[c] \in IPs /\ CountedAt(c) = None /\ CountedAt(c)' = ip[c] /\ incrementIP(ip[c])
    BY <1>0, <1>5, <2>0 DEF AddIP, Step, Done, Busy, TypeOK, Shape, Uncrossed, Counting, Resting
  <2> QED BY <1>5, <2>0, <2>1, <2>2, <2>3, CounterStep, ZenonT(30)
<1>6. ASSUME crossed' = {}, crossed = {}, NEW l \in Loops, DropOld(l)
      PROVE  Uncrossed' /\ IPExact'
  <2>0. PICK c \in Conns : c = at[l] /\ lpc[l] = "drop"
    BY <1>0, <1>6, ZenonT(30) DEF DropOld, Step, Shape
  <2>1. Uncrossed'
    BY <1>0, <1>6, <2>0, ZenonT(30) DEF DropOld, Step, TypeOK, Shape, Uncrossed
  <2>2. \A d \in Conns \ {c} : CountedAt(d)' = CountedAt(d)
    <3>1. \A m \in Loops : at[m] \in Conns \ {c} \/ at'[m] \in Conns \ {c} =>
            lpc'[m] = lpc[m] /\ at'[m] = at[m] /\ to'[m] = to[m]
      BY <1>0, <1>6, <2>0, ZenonT(30) DEF DropOld, Step, TypeOK, Shape
    <3>2. \A d \in Conns \ {c} : state'[d] = state[d] /\ ip'[d] = ip[d]
      BY <1>0, <1>6, <2>0, ZenonT(30) DEF DropOld, Step, TypeOK
    <3> QED BY <1>0, <2>0, <3>1, <3>2, OthersCounted, ZenonT(30)
  <2>3. ip[c] \in IPs /\ CountedAt(c) = ip[c] /\ CountedAt(c)' = None /\ decrementIP(ip[c])
    BY <1>0, <1>6, <2>0, ZenonT(30) DEF DropOld, Step, TypeOK, Shape, Uncrossed, Counting, Resting, Busy
  <2> QED BY <1>6, <2>0, <2>1, <2>2, <2>3, CounterStep, ZenonT(30)
<1>7. ASSUME crossed' = {}, crossed = {}, NEW l \in Loops, RaiseNew(l)
      PROVE  Uncrossed' /\ IPExact'
  <2>0. PICK c \in Conns : c = at[l] /\ lpc[l] = "raise"
    BY <1>0, <1>7, ZenonT(30) DEF RaiseNew, Step, Shape
  <2>1. Uncrossed'
    BY <1>0, <1>7, <2>0, ZenonT(30) DEF RaiseNew, Step, TypeOK, Shape, Uncrossed
  <2>2. \A d \in Conns \ {c} : CountedAt(d)' = CountedAt(d)
    <3>1. \A m \in Loops : at[m] \in Conns \ {c} \/ at'[m] \in Conns \ {c} =>
            lpc'[m] = lpc[m] /\ at'[m] = at[m] /\ to'[m] = to[m]
      BY <1>0, <1>7, <2>0, ZenonT(30) DEF RaiseNew, Step, TypeOK, Shape
    <3>2. \A d \in Conns \ {c} : state'[d] = state[d] /\ ip'[d] = ip[d]
      BY <1>0, <1>7, <2>0, ZenonT(30) DEF RaiseNew, Step, TypeOK
    <3> QED BY <1>0, <2>0, <3>1, <3>2, OthersCounted, ZenonT(30)
  <2>3. to[l] \in IPs /\ CountedAt(c) = None /\ CountedAt(c)' = to[l] /\ incrementIP(to[l])
    BY <1>0, <1>7, <2>0, ZenonT(30) DEF RaiseNew, Step, TypeOK, Shape, Uncrossed, Counting, Resting
  <2> QED BY <1>7, <2>0, <2>1, <2>2, <2>3, CounterStep, ZenonT(30)
<1>8. ASSUME crossed' = {}, crossed = {}, NEW l \in Loops, SetRemoteHost(l)
      PROVE  Uncrossed' /\ IPExact'
  <2>0. PICK c \in Conns : c = at[l] /\ lpc[l] = "set"
    BY <1>0, <1>8, ZenonT(30) DEF SetRemoteHost, Step, Done, Shape
  <2>1. Uncrossed'
    BY <1>0, <1>8, <2>0 DEF SetRemoteHost, Step, Done, TypeOK, Shape, Uncrossed
  <2>2. \A d \in Conns \ {c} : CountedAt(d)' = CountedAt(d)
    <3>1. \A m \in Loops : at[m] \in Conns \ {c} \/ at'[m] \in Conns \ {c} =>
            lpc'[m] = lpc[m] /\ at'[m] = at[m] /\ to'[m] = to[m]
      BY <1>0, <1>8, <2>0 DEF SetRemoteHost, Step, Done, TypeOK, Shape
    <3>2. \A d \in Conns \ {c} : state'[d] = state[d] /\ ip'[d] = ip[d]
      BY <1>0, <1>8, <2>0, ZenonT(30) DEF SetRemoteHost, Step, Done, TypeOK
    <3> QED BY <1>0, <2>0, <3>1, <3>2, OthersCounted, ZenonT(30)
  <2>3. CountedAt(c)' = CountedAt(c)
    BY <1>0, <1>8, <2>0 DEF SetRemoteHost, Step, Done, Busy, TypeOK, Shape, Uncrossed, Counting, Resting
  <2>4. UNCHANGED ipConnections
    BY <1>8, ZenonT(30) DEF SetRemoteHost, Step, Done, Busy
  <2> QED BY <1>8, <2>0, <2>1, <2>2, <2>3, <2>4, CounterStep, ZenonT(30)
<1>9. ASSUME crossed' = {}, crossed = {}, NEW l \in Loops, NEW c \in Conns, NEW i \in IPs, UpdateConnectionIP(l, c, i)
      PROVE  Uncrossed' /\ IPExact'
  <2>1. Uncrossed'
    BY <1>0, <1>9 DEF UpdateConnectionIP, Step, Busy, TypeOK, Shape, Uncrossed
  <2>2. \A d \in Conns \ {c} : CountedAt(d)' = CountedAt(d)
    <3>1. \A m \in Loops : at[m] \in Conns \ {c} \/ at'[m] \in Conns \ {c} =>
            lpc'[m] = lpc[m] /\ at'[m] = at[m] /\ to'[m] = to[m]
      BY <1>0, <1>9 DEF UpdateConnectionIP, Step, Busy, TypeOK, Shape
    <3>2. \A d \in Conns \ {c} : state'[d] = state[d] /\ ip'[d] = ip[d]
      BY <1>0, <1>9, ZenonT(30) DEF UpdateConnectionIP, Step, Busy, TypeOK
    <3> QED BY <1>0, <3>1, <3>2, OthersCounted, ZenonT(30)
  <2>3. CountedAt(c)' = CountedAt(c)
    BY <1>0, <1>9 DEF UpdateConnectionIP, Step, Busy, TypeOK, Shape, Uncrossed, Counting, Resting
  <2>4. UNCHANGED ipConnections
    BY <1>9, ZenonT(30) DEF UpdateConnectionIP, Step, Busy
  <2> QED BY <1>9, <2>1, <2>2, <2>3, <2>4, CounterStep, ZenonT(30)
<1>10. ASSUME crossed' = {}, crossed = {}, NEW c \in Conns, Delete(c)
      PROVE  Uncrossed' /\ IPExact'
  <2>1. Uncrossed'
    BY <1>0, <1>10, ZenonT(30) DEF Delete, Busy, TypeOK, Shape, Uncrossed
  <2>2. \A d \in Conns \ {c} : CountedAt(d)' = CountedAt(d)
    <3>1. \A m \in Loops : at[m] \in Conns \ {c} \/ at'[m] \in Conns \ {c} =>
            lpc'[m] = lpc[m] /\ at'[m] = at[m] /\ to'[m] = to[m]
      BY <1>0, <1>10, ZenonT(30) DEF Delete, Busy, TypeOK, Shape
    <3>2. \A d \in Conns \ {c} : state'[d] = state[d] /\ ip'[d] = ip[d]
      BY <1>0, <1>10, ZenonT(30) DEF Delete, Busy, TypeOK
    <3> QED BY <1>0, <3>1, <3>2, OthersCounted, ZenonT(30)
  <2>3. CountedAt(c)' = CountedAt(c)
    BY <1>0, <1>10 DEF Delete, Busy, TypeOK, Shape, Uncrossed, Counting, Resting
  <2>4. UNCHANGED ipConnections
    BY <1>10, ZenonT(30) DEF Delete, Busy
  <2> QED BY <1>10, <2>1, <2>2, <2>3, <2>4, CounterStep, ZenonT(30)
<1>11. ASSUME crossed' = {}, crossed = {}, NEW c \in Conns, LowerIP(c)
      PROVE  Uncrossed' /\ IPExact'
  <2>1. Uncrossed'
    BY <1>0, <1>11, ZenonT(30) DEF LowerIP, TypeOK, Shape, Uncrossed
  <2>2. \A d \in Conns \ {c} : CountedAt(d)' = CountedAt(d)
    <3>1. \A m \in Loops : at[m] \in Conns \ {c} \/ at'[m] \in Conns \ {c} =>
            lpc'[m] = lpc[m] /\ at'[m] = at[m] /\ to'[m] = to[m]
      BY <1>0, <1>11, ZenonT(30) DEF LowerIP, TypeOK, Shape
    <3>2. \A d \in Conns \ {c} : state'[d] = state[d] /\ ip'[d] = ip[d]
      BY <1>0, <1>11, ZenonT(30) DEF LowerIP, TypeOK
    <3> QED BY <1>0, <3>1, <3>2, OthersCounted, ZenonT(30)
  <2>3. ip[c] \in IPs /\ CountedAt(c) = ip[c] /\ CountedAt(c)' = None /\ decrementIP(ip[c])
    BY <1>0, <1>11 DEF LowerIP, TypeOK, Shape, Uncrossed, Counting, Resting, Busy
  <2> QED BY <1>11, <2>1, <2>2, <2>3, CounterStep, ZenonT(30)
<1>12. ASSUME crossed' = {}, crossed = {}, NEW c \in Conns, LowerCount(c)
      PROVE  Uncrossed' /\ IPExact'
  <2>1. Uncrossed'
    BY <1>0, <1>12, ZenonT(30) DEF LowerCount, TypeOK, Shape, Uncrossed
  <2>2. \A d \in Conns \ {c} : CountedAt(d)' = CountedAt(d)
    <3>1. \A m \in Loops : at[m] \in Conns \ {c} \/ at'[m] \in Conns \ {c} =>
            lpc'[m] = lpc[m] /\ at'[m] = at[m] /\ to'[m] = to[m]
      BY <1>0, <1>12, ZenonT(30) DEF LowerCount, TypeOK, Shape
    <3>2. \A d \in Conns \ {c} : state'[d] = state[d] /\ ip'[d] = ip[d]
      BY <1>0, <1>12, ZenonT(30) DEF LowerCount, TypeOK
    <3> QED BY <1>0, <3>1, <3>2, OthersCounted, ZenonT(30)
  <2>3. CountedAt(c)' = CountedAt(c)
    BY <1>0, <1>12 DEF LowerCount, Busy, TypeOK, Shape, Uncrossed, Counting, Resting
  <2>4. UNCHANGED ipConnections
    BY <1>12, ZenonT(30) DEF LowerCount, Busy
  <2> QED BY <1>12, <2>1, <2>2, <2>3, <2>4, CounterStep, ZenonT(30)
<1>13. crossed' = {} => crossed = {}
  BY ZenonT(30) DEF Next, CanAccept, CanAcceptIP, AddConnection, AddIP, UpdateConnectionIP, DropOld, RaiseNew,
     SetRemoteHost, Delete, LowerIP, LowerCount
<1> QED BY <1>1, <1>2, <1>3, <1>4, <1>5, <1>6, <1>7, <1>8, <1>9, <1>10, <1>11, <1>12, <1>13, ZenonT(30) DEF Next

(* Each address counts exactly its connections (incrementIP, decrementIP,  *)
(* UpdateConnectionIP), as long as no connection is removed while its loop *)
(* moves it to another address.                                            *)
THEOREM IPCountsAreExact == Spec => []IPExact
<1>1. Init => IPInv
  <2> SUFFICES ASSUME Init PROVE IPInv
    BY ZenonT(30)
  <2>1. TypeOK /\ Shape /\ Uncrossed
    BY AdmissionAssumption DEF Init, TypeOK, Shape, Uncrossed
  <2>2. \A c \in Conns : CountedAt(c) = None
    BY <2>1, CountedAtIs, ZenonT(30) DEF Init, Counting, Busy, Resting
  <2>3. ASSUME NEW i \in IPs PROVE {c \in Conns : CountedAt(c) = i} = {}
    BY <2>2, AdmissionAssumption, ZenonT(30)
  <2>4. IPExact
    BY <2>3, FS_EmptySet, ZenonT(30) DEF IPExact, Init
  <2> QED BY <2>1, <2>4, ZenonT(30) DEF IPInv
<1>2. IPInv /\ [Next]_vars => IPInv'
  <2>1. IPInv /\ Next => IPInv'
    BY IPStep, ShapeStep, ZenonT(30) DEF IPInv
  <2>2. IPInv /\ UNCHANGED vars => IPInv'
    <3> SUFFICES ASSUME IPInv, UNCHANGED vars PROVE IPInv'
      BY ZenonT(30)
    <3>1. TypeOK' /\ Shape' /\ Uncrossed'
      BY ZenonT(30) DEF IPInv, TypeOK, Shape, Uncrossed, vars
    <3>2. \A c \in Conns : CountedAt(c)' = CountedAt(c)
      BY DEF CountedAt, vars
    <3>3. ASSUME NEW i \in IPs PROVE {c \in Conns : CountedAt(c)' = i} = {c \in Conns : CountedAt(c) = i}
      BY <3>2, ZenonT(30)
    <3>4. IPExact'
      BY <3>3, ZenonT(30) DEF IPInv, IPExact, vars
    <3> QED BY <3>1, <3>4, ZenonT(30) DEF IPInv
  <2> QED BY <2>1, <2>2, ZenonT(30)
<1>3. IPInv => IPExact
  BY ZenonT(30) DEF IPInv
<1> QED BY <1>1, <1>2, <1>3, PTL DEF Spec

-----------------------------------------------------------------------------
(* ConfigReload.                                                           *)

Config == [file : Nat, patch : Nat, on : SUBSET STRING, ok : BOOLEAN, frame : Nat, buf : Nat,
           timeout : Nat]

\* A goroutine that may hold a configuration.
Holder == [at : {"idle", "load", "offer", "drop", "again", "send", "check", "parts"},
           cfg : Config \cup {Nothing}]

ConfigType ==
  /\ reload \in Reloads
  /\ file \in 1..Len(reload.files)
  /\ centre \in 0..Len(reload.patches)
  /\ watchCh \in Seq(1..Len(reload.patches))
  /\ updates \in Seq(Config)
  /\ cfg \in Config /\ parts \in [DOMAIN Parts -> Config]
  /\ watcher \in Holder /\ bridge \in Holder /\ updater \in Holder
  /\ watcher.at \in {"offer", "drop", "again"} => watcher.cfg \in Config
  /\ bridge.at = "send" => bridge.cfg \in Config
  /\ updater.at = "check" => updater.cfg \in Config

ConfigInv == ConfigType /\ ValidInForce /\ AppliedWhole

(* A version of the file, parsed, is a configuration.                      *)
LEMMA ParsedType ==
  ASSUME reload \in Reloads, NEW n \in 1..Len(reload.files) PROVE Parsed(n) \in Config
<1> DEFINE File == [on : SUBSET STRING, ok : BOOLEAN, frame : Nat, buf : Nat, timeout : Nat]
<1>1. reload.files \in Seq(File)
  BY ReloadAssumption, ZenonT(30)
<1>2. reload.files[n] \in File
  <2> HIDE DEF File
  <2> QED BY <1>1
<1> QED BY <1>2 DEF Parsed, Config

(* A patch over a configuration is one.                                    *)
LEMMA PatchedType ==
  ASSUME reload \in Reloads, NEW c \in Config, NEW n \in 1..Len(reload.patches)
  PROVE  Patched(c, n) \in Config
<1> DEFINE p == reload.patches[n]
<1>1. \A f \in DOMAIN p : \/ f = "on" /\ p[f] \in SUBSET STRING
                          \/ f = "ok" /\ p[f] \in BOOLEAN
                          \/ f \in {"frame", "buf", "timeout"} /\ p[f] \in Nat
  BY ReloadAssumption, ZenonT(30)
<1> HIDE DEF p
<1>2. /\ (IF "on" \in DOMAIN p THEN p["on"] ELSE c["on"]) \in SUBSET STRING
      /\ (IF "ok" \in DOMAIN p THEN p["ok"] ELSE c["ok"]) \in BOOLEAN
  BY <1>1, ZenonT(30) DEF Config
<1>3. /\ (IF "frame" \in DOMAIN p THEN p["frame"] ELSE c["frame"]) \in Nat
      /\ (IF "buf" \in DOMAIN p THEN p["buf"] ELSE c["buf"]) \in Nat
      /\ (IF "timeout" \in DOMAIN p THEN p["timeout"] ELSE c["timeout"]) \in Nat
  BY <1>1, ZenonT(30) DEF Config
<1> QED BY <1>2, <1>3 DEF p, Patched, Config

(* With its defaults it has no zero limit, and the same switches.          *)
LEMMA DefaultsType ==
  ASSUME NEW c \in Config
  PROVE  LET d == ApplyRuntimeDefaults(c)
         IN  d \in Config /\ d.frame > 0 /\ d.timeout > 0 /\ d.on = c.on /\ d.ok = c.ok
<1> DEFINE frame == IF c.frame = 0 THEN DefaultFrame ELSE c.frame
           buf == IF c.buf = 0 THEN DefaultFrame + Prefix ELSE c.buf
           timeout == IF c.timeout = 0 THEN DefaultTimeout ELSE c.timeout
<1>1. frame \in Nat /\ frame > 0 /\ buf \in Nat /\ timeout \in Nat /\ timeout > 0
  BY ReloadAssumption DEF Config
<1>2. ApplyRuntimeDefaults(c) = [[[c EXCEPT !.frame = frame] EXCEPT !.buf = buf] EXCEPT !.timeout = timeout]
  BY ZenonT(30) DEF ApplyRuntimeDefaults, Config
<1> HIDE DEF frame, buf, timeout
<1> QED BY <1>1, <1>2, ZenonT(30) DEF Config

(* What is appended to a sequence is in it.                                *)
LEMMA AppendType == ASSUME NEW S, NEW s \in Seq(S), NEW x \in S PROVE Append(s, x) \in Seq(S)
  OBVIOUS

(* The start: the first file is valid.                                     *)
LEMMA InitConfig == ConfigInit => ConfigInv
<1> SUFFICES ASSUME ConfigInit PROVE ConfigInv
  BY ZenonT(30)
<1> DEFINE c == Parsed(1)
           f == reload.files[1]
<1>1. reload \in Reloads /\ 1 \in 1..Len(reload.files) /\ Len(reload.patches) \in Nat
  BY ReloadAssumption DEF ConfigInit
<1>2. c \in Config
  BY <1>1, ParsedType, ZenonT(30)
<1>3. cfg = ApplyRuntimeDefaults(c) /\ cfg \in Config /\ cfg.frame > 0 /\ cfg.timeout > 0
  BY <1>2, DefaultsType, ZenonT(30) DEF ConfigInit
<1>4. cfg.ok /\ cfg.buf >= cfg.frame + Prefix
  BY <1>1, <1>3, ReloadAssumption DEF Parsed, ApplyRuntimeDefaults, Validate
<1>5. ConfigType
  BY <1>1, <1>3 DEF ConfigInit, ConfigType, Holder, Free
<1> QED BY <1>3, <1>4, <1>5, ZenonT(30) DEF ConfigInit, ConfigInv, ValidInForce, AppliedWhole

(* The file's watcher, the centre's, and handleConfigUpdate.               *)
LEMMA ConfigStep == ConfigInv /\ ConfigNext => ConfigInv' /\ cfg'.on = cfg.on
<1> SUFFICES ASSUME ConfigInv, ConfigNext PROVE ConfigInv' /\ cfg'.on = cfg.on
  BY ZenonT(30)
<1>1. CASE WriteFile
  BY <1>1 DEF ConfigInv, ConfigType, ValidInForce, AppliedWhole, Holder, Free, WriteFile
<1>2. CASE WritePatch
  <2>1. centre + 1 \in 1..Len(reload.patches) /\ centre' = centre + 1
    BY <1>2 DEF ConfigInv, ConfigType, ValidInForce, AppliedWhole, Holder, Free, WritePatch
  <2>2. watchCh' \in Seq(1..Len(reload.patches))
    <3> DEFINE Numbers == 1..Len(reload.patches)
    <3>1. watchCh' = watchCh \/ watchCh' = Append(watchCh, centre + 1)
      BY <1>2, ZenonT(30) DEF WritePatch
    <3>2. watchCh \in Seq(Numbers) /\ centre + 1 \in Numbers
      BY <2>1, ZenonT(30) DEF ConfigInv, ConfigType, ValidInForce, AppliedWhole, Holder, Free
    <3> HIDE DEF Numbers
    <3>3. Append(watchCh, centre + 1) \in Seq(Numbers)
      BY <3>2, AppendType, ZenonT(30) DEF ConfigInv, ConfigType, ValidInForce, AppliedWhole, Holder, Free
    <3>4. watchCh' \in Seq(Numbers)
      BY <3>1, <3>2, <3>3, ZenonT(30)
    <3>5. UNCHANGED reload
      BY <1>2, ZenonT(30) DEF WritePatch
    <3> QED BY <3>4, <3>5, ZenonT(30) DEF Numbers
  <2>3. UNCHANGED <<reload, file, watcher, bridge, updates, updater, cfg, parts>>
    BY <1>2, ZenonT(30) DEF WritePatch
  <2> QED BY <2>1, <2>2, <2>3 DEF ConfigInv, ConfigType, ValidInForce, AppliedWhole, Holder, Free
<1> <<>> \in Seq(Config) /\ \A c \in Config : <<c>> \in Seq(Config)
  OBVIOUS
<1>3. CASE Stat \/ Offer \/ DropOldest \/ OfferAgain
  <2>1. UNCHANGED <<reload, file, centre, watchCh, bridge, updater, cfg, parts>>
    BY <1>3, ZenonT(30) DEF ConfigInv, ConfigType, ValidInForce, AppliedWhole, Holder, Free, Stat, Offer,
       DropOldest, OfferAgain
  <2>2. watcher' \in Holder /\ (watcher'.at \in {"offer", "drop", "again"} => watcher'.cfg \in Config)
    BY <1>3 DEF ConfigInv, ConfigType, ValidInForce, AppliedWhole, Holder, Free, Stat, Offer, DropOldest,
       OfferAgain
  <2>3. updates' \in Seq(Config)
    BY <1>3, ZenonT(30) DEF ConfigInv, ConfigType, ValidInForce, AppliedWhole, Holder, Free, Stat, Offer,
       DropOldest, OfferAgain
  <2> QED BY <2>1, <2>2, <2>3, ZenonT(30) DEF ConfigInv, ConfigType, ValidInForce, AppliedWhole, Holder, Free
<1>4. CASE Load
  <2>1. ApplyRuntimeDefaults(Parsed(file)) \in Config
    BY ParsedType, DefaultsType, ZenonT(30) DEF ConfigInv, ConfigType, ValidInForce, AppliedWhole, Holder, Free
  <2> QED BY <1>4, <2>1 DEF ConfigInv, ConfigType, ValidInForce, AppliedWhole, Holder, Free, Load
<1>5. CASE TakePatch
  <2>1. Head(watchCh) \in 1..Len(reload.patches) /\ Tail(watchCh) \in Seq(1..Len(reload.patches))
    BY <1>5 DEF ConfigInv, ConfigType, ValidInForce, AppliedWhole, Holder, Free, TakePatch
  <2>2. Patched(cfg, Head(watchCh)) \in Config
    BY <2>1, PatchedType, ZenonT(30) DEF ConfigInv, ConfigType, ValidInForce, AppliedWhole, Holder, Free
  <2> QED BY <1>5, <2>1, <2>2, ZenonT(30) DEF ConfigInv, ConfigType, ValidInForce, AppliedWhole, Holder, Free,
             TakePatch
<1>6. CASE SendPatch
  BY <1>6, ZenonT(30) DEF ConfigInv, ConfigType, ValidInForce, AppliedWhole, Holder, Free, SendPatch
<1>7. CASE TakeUpdate
  BY <1>7 DEF ConfigInv, ConfigType, ValidInForce, AppliedWhole, Holder, Free, TakeUpdate
<1>8. CASE StoreConfig
  <2> DEFINE c == ApplyRuntimeDefaults(updater.cfg)
  <2>1. c \in Config /\ c.frame > 0 /\ c.timeout > 0
    BY <1>8, DefaultsType, ZenonT(30) DEF ConfigInv, ConfigType, ValidInForce, AppliedWhole, Holder, Free,
       StoreConfig
  <2> HIDE DEF c
  <2>2. \/ /\ Validate(c) /\ c.on = cfg.on /\ cfg' = c /\ updater' = [updater EXCEPT !.at = "parts"]
        \/ updater' = Free /\ UNCHANGED cfg
    BY <1>8, ZenonT(30) DEF ConfigInv, ConfigType, ValidInForce, AppliedWhole, Holder, Free, StoreConfig,
       Acceptable, c
  <2>3. UNCHANGED <<reload, file, centre, watchCh, updates, parts, watcher, bridge>>
    BY <1>8, ZenonT(30) DEF ConfigInv, ConfigType, ValidInForce, AppliedWhole, Holder, Free, StoreConfig
  <2> QED BY <1>8, <2>1, <2>2, <2>3 DEF ConfigInv, ConfigType, ValidInForce, AppliedWhole, Holder, Free,
             StoreConfig, Validate
<1>9. ASSUME NEW i \in DOMAIN Parts, StorePart(i) PROVE ConfigInv' /\ cfg'.on = cfg.on
  BY <1>9, ZenonT(30) DEF ConfigInv, ConfigType, ValidInForce, AppliedWhole, Holder, Free, StorePart
<1>10. CASE UpdateDone
  BY <1>10, ZenonT(30) DEF ConfigInv, ConfigType, ValidInForce, AppliedWhole, Holder, Free, UpdateDone
<1> QED BY <1>1, <1>2, <1>3, <1>4, <1>5, <1>6, <1>7, <1>8, <1>9, <1>10, ZenonT(30) DEF ConfigNext, WatcherStep,
           BridgeStep, UpdaterStep

(* Nothing else touches it.                                                *)
LEMMA ConfigStutter == ConfigInv /\ UNCHANGED configVars => ConfigInv'
  BY ZenonT(30) DEF ConfigInv, ConfigType, ValidInForce, AppliedWhole, configVars

-----------------------------------------------------------------------------
(* Types.                                                                  *)

Sweeping == [at : {"off", "idle", "picked", "removing", "done"}, conn : Conns \cup {None}]

LifeType ==
  /\ main \in [at : {"load", "init", "start", "services", "serve", "close", "wait", "exit", "failed"},
               n : Nat]
  /\ closer \in [n : 0..9, todo : SUBSET Engines, waits : Engines \cup {0}]
  /\ engine \in [Engines -> {"off", "boot", "up", "stopping", "down"}]
  /\ engines = {e \in Engines : engine[e] \in {"up", "stopping"}}
  /\ grpc \in {"off", "boot", "up", "down"}
  /\ sweeper \in [Sweepers -> Sweeping]
  /\ \A s \in Sweepers : sweeper[s].at \in {"picked", "removing"} => sweeper[s].conn \in Conns
  /\ heard \subseteq Conns

(* A step of the gateway is a step of Admission or leaves its state alone. *)
LEMMA GatewayAdmits == LifeType /\ [GatewayNext]_gatewayVars => [Next]_vars
<1> SUFFICES ASSUME LifeType, [GatewayNext]_gatewayVars PROVE [Next]_vars
  BY ZenonT(30)
<1>1. CASE MainStep \/ Signal
  BY <1>1, ZenonT(30) DEF MainStep, Signal, LoadAll, NotAdded, InitSecurity, InitObservability, InitTraffic,
     InitCluster, InitGateway, Initialising, StartCluster, StartServices, Close, Exit
<1>2. CASE CloserStep
  BY <1>2, ZenonT(30) DEF CloserStep, CloseStopChan, CopyEngines, StopEngine, EngineStopped, EnginesStopped,
     Drain, ClosePool, StopGrpc, StopConnectionChecker, CloseEnd, Closing
<1>3. CASE HeartbeatEnds \/ GrpcBootstrap \/ Reloading(ConfigNext)
  BY <1>3, ZenonT(30) DEF HeartbeatEnds, GrpcBootstrap, Reloading
<1>4. ASSUME NEW e \in Engines, OnBoot(e) \/ StopsItself(e) \/ OnShutdown(e) PROVE UNCHANGED vars
  BY <1>4, ZenonT(30) DEF OnBoot, StopsItself, OnShutdown
<1>5. ASSUME NEW l \in Loops, NEW c \in Conns, Accept(l, c) \/ \E i \in IPs : Move(l, c, i)
      PROVE Next
  BY <1>5, ZenonT(30) DEF Accept, Move, Next
<1>6. CASE LoopGoesOn
  BY <1>6, ZenonT(30) DEF LoopGoesOn, LoopStep, Next
<1>7. CASE RemovalGoesOn
  BY <1>7, ZenonT(30) DEF RemovalGoesOn, Removed, Next
<1>8. ASSUME NEW c \in Conns, OnClose(c) PROVE Next
  BY <1>8, ZenonT(30) DEF OnClose, Next
<1>9. ASSUME NEW c \in Conns, NEW s \in Sweepers, Pick(s, c) PROVE UNCHANGED vars
  BY <1>9, ZenonT(30) DEF Pick
<1>10. ASSUME NEW s \in Sweepers, Sweep(s) PROVE [Next]_vars
  <2>1. sweeper[s].conn \in Conns
    BY <1>10, ZenonT(30) DEF Sweep, LifeType
  <2> QED BY <1>10, <2>1, ZenonT(30) DEF Sweep, Next
<1>11. CASE UNCHANGED gatewayVars
  BY <1>11, ZenonT(30) DEF gatewayVars
<1> QED BY <1>1, <1>2, <1>3, <1>4, <1>5, <1>6, <1>7, <1>8, <1>9, <1>10, <1>11, ZenonT(30) DEF GatewayNext

(* The steps of closeBody by number.                                       *)
LEMMA Positions ==
  ASSUME closer.n \in 0..9
  PROVE  /\ ClosingAt("stop") <=> closer.n = 1
         /\ ClosingAt("copy") <=> closer.n = 2
         /\ ClosingAt("engines") <=> closer.n = 3
         /\ ClosingAt("drain") <=> closer.n = 4
         /\ ClosingAt("pool") <=> closer.n = 5
         /\ ClosingAt("grpc") <=> closer.n = 6
         /\ ClosingAt("checker") <=> closer.n = 7
         /\ ClosingAt("rest") <=> closer.n = 8
         /\ Past("copy") <=> closer.n > 2
         /\ Past("grpc") <=> closer.n > 6
<1>1. DOMAIN CloseOrder = 1..8
  BY DEF CloseOrder
<1>2. /\ CloseOrder[1] = "stop" /\ CloseOrder[2] = "copy" /\ CloseOrder[3] = "engines"
      /\ CloseOrder[4] = "drain" /\ CloseOrder[5] = "pool" /\ CloseOrder[6] = "grpc"
      /\ CloseOrder[7] = "checker" /\ CloseOrder[8] = "rest"
  BY ZenonT(30) DEF CloseOrder
<1>3. \A n \in 0..9 : n \in 1..8 <=> n \in {1, 2, 3, 4, 5, 6, 7, 8}
  OBVIOUS
<1>4. closer.n \in {0, 1, 2, 3, 4, 5, 6, 7, 8, 9}
  OBVIOUS
<1> QED BY <1>1, <1>2, <1>3, <1>4 DEF ClosingAt, Past

-----------------------------------------------------------------------------
(* Closing.                                                                *)

Up == {e \in Engines : engine[e] \in {"up", "stopping"}}

\* Before the gateway serves nothing runs.
Starting == main.at \in {"load", "init", "start", "services", "failed"}
Quiet ==
  Starting =>
    closer.n = 0 /\ grpc = "off" /\ \A e \in Engines : engine[e] = "off"

\* What closeBody has behind it at each of its steps.
Behind ==
  /\ closing <=> closer.n > 0
  /\ closeDone => closer.n = 9
  /\ ~late => /\ closer.n = 3 => Up \subseteq closer.todo \cup {closer.waits}
              /\ closer.n >= 4 => Up = {}
              /\ closer.n >= 7 => grpc # "up"
              /\ closer.n < 6 => Starting \/ pool
  /\ closer.n >= 8 => sweeper["idle"].at \in {"off", "done"}

LifeInv == LifeType /\ Quiet /\ Behind

(* Every deployment begins in such a state.                                *)
LEMMA InitLife == GatewayInit => LifeInv
<1> SUFFICES ASSUME GatewayInit PROVE LifeInv
  BY ZenonT(30)
<1>1. sweeper \in [Sweepers -> Sweeping] /\ \A s \in Sweepers : sweeper[s].at \in {"off", "idle"}
  BY ZenonT(30) DEF GatewayInit, Sweeping, At
<1>2. /\ engine \in [Engines -> {"off", "boot", "up", "stopping", "down"}]
      /\ engines = Up
      /\ ~scene.serving => \A e \in Engines : engine[e] = "off"
  BY GatewayAssumption, ZenonT(30) DEF GatewayInit, Up
<1>3. main \in [at : {"load", "serve"}, n : Nat] /\ (main.at = "load" <=> ~scene.serving)
  BY ZenonT(30) DEF GatewayInit
<1>4. closer \in [n : 0..9, todo : SUBSET Engines, waits : Engines \cup {0}] /\ closer.n = 0
  BY DEF GatewayInit
<1>5. LifeType
  BY <1>1, <1>2, <1>3, <1>4, ZenonT(30) DEF GatewayInit, LifeType, Up
<1>6. Quiet
  BY <1>2, <1>3, <1>4, ZenonT(30) DEF GatewayInit, Starting, Quiet
<1>7. Behind
  BY <1>2, <1>3, <1>4 DEF GatewayInit, Starting, Behind
<1> QED BY <1>5, <1>6, <1>7, ZenonT(30) DEF LifeInv

(* The container preserves it ...                                          *)
LEMMA MainLife == LifeInv /\ (MainStep \/ Signal) => LifeInv'
<1> SUFFICES ASSUME LifeInv, MainStep \/ Signal PROVE LifeInv'
  BY ZenonT(30)
<1>1. CASE LoadAll \/ NotAdded \/ InitCluster \/ InitGateway
  BY <1>1 DEF LifeInv, LifeType, Quiet, Behind, Starting, Up, mainVars, closeVars, engineVars, linkVars,
     sweepVars, LoadAll, NotAdded, InitCluster, InitGateway, Initialising, InitDone, Fail
<1>2. CASE InitSecurity \/ InitObservability \/ InitTraffic
  BY <1>2 DEF LifeInv, LifeType, Quiet, Behind, Starting, Up, mainVars, closeVars, engineVars, linkVars,
     sweepVars, InitSecurity, InitObservability, InitTraffic, Initialising, InitDone, Fail
<1>3. CASE StartCluster \/ Exit \/ Signal
  BY <1>3 DEF LifeInv, LifeType, Quiet, Behind, Starting, Up, mainVars, closeVars, engineVars, linkVars,
     sweepVars, StartCluster, Exit, Signal, Fail
<1>4. CASE StartServices
  <2>1. CASE UNCHANGED <<engine, linkVars, sweeper>> /\ Fail
    BY <1>4, <2>1, ZenonT(30) DEF LifeInv, LifeType, Quiet, Behind, Starting, Up, mainVars, closeVars,
       engineVars, linkVars, sweepVars, StartServices, Fail
  <2>2. CASE main'.at = "serve"
    <3>1. /\ engine' \in [Engines -> {"off", "boot", "up", "stopping", "down"}]
          /\ Up' = {} /\ Up = {} /\ closer.n = 0
      BY <1>4, <2>2, ZenonT(30) DEF LifeInv, LifeType, Quiet, Behind, Starting, Up, mainVars, closeVars,
         engineVars, linkVars, sweepVars, StartServices, startTransports, Fail
    <3>2. sweeper' \in [Sweepers -> Sweeping]
      BY <1>4, <2>2 DEF LifeInv, LifeType, Quiet, Behind, Starting, Up, mainVars, closeVars, engineVars,
         linkVars, sweepVars, StartServices, Fail, Sweeping, At
    <3>3. \A s \in Sweepers :
            sweeper'[s].at \in {"picked", "removing"} => sweeper'[s].conn \in Conns
      BY <1>4, <2>2 DEF LifeInv, LifeType, Quiet, Behind, Starting, Up, mainVars, closeVars, engineVars,
         linkVars, sweepVars, StartServices, Fail, Sweeping, At
    <3> QED BY <1>4, <2>2, <3>1, <3>2, <3>3 DEF LifeInv, LifeType, Quiet, Behind, Starting, Up, mainVars,
               closeVars, engineVars, linkVars, sweepVars, StartServices, Fail
  <2> QED BY <1>4, <2>1, <2>2 DEF LifeInv, LifeType, Quiet, Behind, Starting, Up, mainVars, closeVars,
             engineVars, linkVars, sweepVars, StartServices
<1>5. CASE Close
  BY <1>5 DEF LifeInv, LifeType, Quiet, Behind, Starting, Up, mainVars, closeVars, engineVars, linkVars,
     sweepVars, Close
<1> QED BY <1>1, <1>2, <1>3, <1>4, <1>5, ZenonT(30) DEF LifeInv, LifeType, Quiet, Behind, Starting, Up,
           mainVars, closeVars, engineVars, linkVars, sweepVars, MainStep

(* ... and so do the engines and the gRPC server, which boot and stop by   *)
(* themselves ...                                                          *)
LEMMA EngineLife ==
  ASSUME LifeInv, NEW e \in Engines, OnBoot(e) \/ StopsItself(e) \/ OnShutdown(e) \/ GrpcBootstrap
  PROVE  LifeInv'
<1>1. CASE OnBoot(e)
  <2>1. CASE engine' = [engine EXCEPT ![e] = "up"] /\ engines' = engines \cup {e}
    <3>1. Up' = Up \cup {e} /\ LifeType'
      BY <1>1, <2>1 DEF LifeInv, LifeType, Quiet, Behind, Starting, Up, mainVars, closeVars, engineVars,
         linkVars, sweepVars, OnBoot
    <3>2. ~late' => ~late /\ ~Past("copy")
      BY <1>1, <2>1, ZenonT(30) DEF LifeInv, LifeType, Quiet, Behind, Starting, Up, mainVars, closeVars,
         engineVars, linkVars, sweepVars, OnBoot
    <3>3. Quiet'
      BY <1>1, <2>1, ZenonT(30) DEF LifeInv, LifeType, Quiet, Behind, Starting, Up, mainVars, closeVars,
         engineVars, linkVars, sweepVars, OnBoot
    <3>4. Behind'
      BY <1>1, <2>1, <3>1, <3>2, Positions DEF LifeInv, LifeType, Quiet, Behind, Starting, Up, mainVars,
         closeVars, engineVars, linkVars, sweepVars, OnBoot
    <3> QED BY <3>1, <3>3, <3>4, ZenonT(30) DEF LifeInv, LifeType, Quiet, Behind, Starting, Up, mainVars,
               closeVars, engineVars, linkVars, sweepVars
  <2>2. CASE engine' = [engine EXCEPT ![e] = "off"] /\ UNCHANGED <<engines, late>>
    BY <1>1, <2>2 DEF LifeInv, LifeType, Quiet, Behind, Starting, Up, mainVars, closeVars, engineVars, linkVars,
       sweepVars, OnBoot
  <2> QED BY <1>1, <2>1, <2>2, ZenonT(30) DEF OnBoot
<1>2. CASE StopsItself(e)
  BY <1>2 DEF LifeInv, LifeType, Quiet, Behind, Starting, Up, mainVars, closeVars, engineVars, linkVars,
     sweepVars, StopsItself
<1>3. CASE OnShutdown(e)
  BY <1>3 DEF LifeInv, LifeType, Quiet, Behind, Starting, Up, mainVars, closeVars, engineVars, linkVars,
     sweepVars, OnShutdown
<1>4. CASE GrpcBootstrap
  <2>1. LifeType' /\ Quiet'
    BY <1>4, ZenonT(30) DEF LifeInv, LifeType, Quiet, Behind, Starting, Up, mainVars, closeVars, engineVars,
       linkVars, sweepVars, GrpcBootstrap
  <2>2. ~late' => ~late /\ (grpc' = "up" => ~Past("grpc"))
    BY <1>4, ZenonT(30) DEF GrpcBootstrap
  <2>3. Behind'
    BY <1>4, <2>2, Positions DEF LifeInv, LifeType, Quiet, Behind, Starting, Up, mainVars, closeVars,
       engineVars, linkVars, sweepVars, GrpcBootstrap
  <2> QED BY <2>1, <2>3, ZenonT(30) DEF LifeInv, LifeType, Quiet, Behind, Starting, Up, mainVars, closeVars,
             engineVars, linkVars, sweepVars
<1> HIDE DEF LifeInv, LifeType, Quiet, Behind, Starting, Up
<1> QED BY <1>1, <1>2, <1>3, <1>4, ZenonT(30) DEF mainVars, closeVars, engineVars, linkVars, sweepVars

(* ... closeBody, whose each step establishes what is behind it ...        *)
LEMMA CloserLife == LifeInv /\ CloserStep => LifeInv'
<1> SUFFICES ASSUME LifeInv, CloserStep PROVE LifeInv'
  BY ZenonT(30)
<1>1. CASE CloseStopChan
  BY Positions, <1>1 DEF LifeInv, LifeType, Quiet, Behind, Starting, Up, mainVars, linkVars, Closing, Onwards,
     CloseStopChan
<1>2. CASE CopyEngines
  BY Positions, <1>2 DEF LifeInv, LifeType, Quiet, Behind, Starting, Up, mainVars, linkVars, Closing, Onwards,
     CopyEngines
<1>3. ASSUME NEW e \in Engines, StopEngine(e) PROVE LifeInv'
  <2>1. Up' = Up /\ engine' \in [Engines -> {"off", "boot", "up", "stopping", "down"}]
    BY Positions, <1>3, ZenonT(30) DEF LifeInv, LifeType, Quiet, Behind, Starting, Up, mainVars, linkVars,
       Closing, Onwards, StopEngine
  <2>2. closer' \in [n : 0..9, todo : SUBSET Engines, waits : Engines \cup {0}] /\ closer'.n = 3
    BY Positions, <1>3, ZenonT(30) DEF LifeInv, LifeType, Quiet, Behind, Starting, Up, mainVars, linkVars,
       Closing, Onwards, StopEngine
  <2>3. Up' \subseteq closer'.todo \cup {closer'.waits} \/ late'
    BY Positions, <1>3, <2>1, GatewayAssumption, ZenonT(30) DEF LifeInv, LifeType, Quiet, Behind, Starting, Up,
       mainVars, linkVars, Closing, Onwards, StopEngine
  <2> QED BY Positions, <1>3, <2>1, <2>2, <2>3 DEF LifeInv, LifeType, Quiet, Behind, Starting, Up, mainVars,
             linkVars, Closing, Onwards, StopEngine
<1>4. CASE EngineStopped
  BY <1>4 DEF LifeInv, LifeType, Quiet, Behind, Starting, Up, mainVars, linkVars, Closing, Onwards,
     EngineStopped
<1>5. CASE EnginesStopped
  BY Positions, <1>5, GatewayAssumption DEF LifeInv, LifeType, Quiet, Behind, Starting, Up, mainVars, linkVars,
     Closing, Onwards, EnginesStopped
<1>6. CASE Drain \/ ClosePool
  BY Positions, <1>6 DEF LifeInv, LifeType, Quiet, Behind, Starting, Up, mainVars, linkVars, Closing, Onwards,
     Drain, ClosePool
<1>7. CASE StopGrpc
  BY Positions, <1>7 DEF LifeInv, LifeType, Quiet, Behind, Starting, Up, mainVars, linkVars, Closing, Onwards,
     StopGrpc
<1>8. CASE StopConnectionChecker
  BY Positions, <1>8 DEF LifeInv, LifeType, Quiet, Behind, Starting, Up, mainVars, linkVars, Closing, Onwards,
     StopConnectionChecker, Sweeping, Sweepers
<1>9. CASE CloseEnd
  BY Positions, <1>9 DEF LifeInv, LifeType, Quiet, Behind, Starting, Up, mainVars, linkVars, Closing, Onwards,
     CloseEnd, Sweeping, Sweepers, At
<1> HIDE DEF LifeInv, LifeType, Quiet, Behind, Starting, Up, mainVars, linkVars, Closing, Onwards
<1> QED BY <1>1, <1>2, <1>3, <1>4, <1>5, <1>6, <1>7, <1>8, <1>9, ZenonT(30) DEF CloserStep

(* ... and the loops and sweepers, which leave all but their own state.    *)
LEMMA ConnectionLife ==
  ASSUME LifeInv,
         \/ HeartbeatEnds \/ Unswept \/ Reloading(ConfigNext)
         \/ \E c \in Conns : OnClose(c) \/ Removed(c) \/ \E s \in Sweepers : Pick(s, c)
         \/ \E s \in Sweepers : Sweep(s)
  PROVE  LifeInv'
<1>1. CASE (\E c \in Conns : OnClose(c)) \/ Unswept \/ Reloading(ConfigNext)
  BY <1>1 DEF LifeInv, LifeType, Quiet, Behind, Starting, Up, Sweepers, Sweeping, OnClose, Notify, Unswept,
     Reloading, mainVars, closeVars, engineVars, linkVars, sweepVars
<1>2. ASSUME UNCHANGED <<main, closer, closing, closeDone, engine, engines, late, grpc, pool>>,
             sweeper' \in [Sweepers -> Sweeping], heard' \subseteq Conns,
             \A t \in Sweepers : sweeper'[t].at \in {"picked", "removing"} => sweeper'[t].conn \in Conns,
             sweeper["idle"].at \in {"off", "done"} => sweeper'["idle"].at \in {"off", "done"}
      PROVE  LifeInv'
  BY <1>2 DEF LifeInv, LifeType, Quiet, Behind, Starting, Up, Sweepers, Sweeping
<1>3. CASE HeartbeatEnds
  BY <1>2, <1>3, ZenonT(30) DEF LifeInv, LifeType, Quiet, Behind, Starting, Up, Sweepers, Sweeping,
     HeartbeatEnds, At, mainVars, closeVars, engineVars, linkVars
<1>4. ASSUME NEW c \in Conns, NEW s \in Sweepers, Pick(s, c) PROVE LifeInv'
  BY <1>2, <1>4, ZenonT(30) DEF LifeInv, LifeType, Quiet, Behind, Starting, Up, Sweepers, Sweeping, Pick,
     Notify, mainVars, closeVars, engineVars, linkVars
<1>5. ASSUME NEW s \in Sweepers, Sweep(s) PROVE LifeInv'
  BY <1>2, <1>5 DEF LifeInv, LifeType, Quiet, Behind, Starting, Up, Sweepers, Sweeping, Sweep, At, mainVars,
     closeVars, engineVars, linkVars
<1>6. ASSUME NEW c \in Conns, Removed(c) PROVE LifeInv'
  BY <1>2, <1>6 DEF LifeInv, LifeType, Quiet, Behind, Starting, Up, Sweepers, Sweeping, Removed, At, mainVars,
     closeVars, engineVars, linkVars
<1> HIDE DEF LifeInv, LifeType, Quiet, Behind, Starting, Up, Sweepers, Sweeping
<1> QED BY <1>1, <1>3, <1>4, <1>5, <1>6, ZenonT(30)

(* All together.                                                           *)
LEMMA LifeStep == LifeInv /\ [GatewayNext]_gatewayVars => LifeInv'
<1> SUFFICES ASSUME LifeInv, [GatewayNext]_gatewayVars PROVE LifeInv'
  BY ZenonT(30)
<1>1. CASE UNCHANGED gatewayVars
  BY <1>1, ConnectionLife, ZenonT(30) DEF gatewayVars, Unswept
<1>2. CASE LoopGoesOn \/ RemovalGoesOn
  BY <1>2, ConnectionLife, ZenonT(30) DEF LoopGoesOn, RemovalGoesOn
<1>3. CASE GatewayNext
  BY <1>2, <1>3, MainLife, EngineLife, CloserLife, ConnectionLife, GatewayAssumption, ZenonT(30) DEF GatewayNext
<1> QED BY <1>1, <1>3, ZenonT(30)

-----------------------------------------------------------------------------
(* Connections while the gateway closes.                                   *)

\* Loops and open connections are those of an engine that runs.
Attached ==
  /\ \A l \in Loops : lpc[l] # "idle" => 1 \in Up
  /\ \A c \in Conns : state[c] = "open" => 1 \in Up
  /\ \A s \in Sweepers :
       sweeper[s].at = "removing" => state[sweeper[s].conn] \in {"deleted", "lowered"}

\* A removal follows its notice.
Noticed ==
  ~late => \A s \in Sweepers : sweeper[s].at \in {"picked", "removing"} => sweeper[s].conn \in heard

\* What the drain has waited for stays so.
Emptied == closer.n >= 5 /\ ~late /\ ~timedOut => count = 0

ClosingInv == Attached /\ Noticed /\ CloseNotifies /\ Emptied

GatewayInv == IInv /\ LifeInv /\ ClosingInv

(* No connection yet.                                                      *)
LEMMA InitClosing == GatewayInit => ClosingInv
  BY DEF GatewayInit, Init, ClosingInv, Attached, Noticed, CloseNotifies, Emptied, At

(* As long as an engine can be running the pool is open.                   *)
LEMMA OpenWhileUp == LifeInv /\ ~late /\ 1 \in Up => pool
  BY SMTT(30) DEF LifeInv, LifeType, Quiet, Behind, Starting, Up

(* Steps that touch no connection.                                         *)
LEMMA QuietClosing ==
  ASSUME GatewayInv, UNCHANGED <<vars, heard>>, 1 \in Up => 1 \in Up',
         closer'.n >= 5 => closer.n >= 5, late => late', timedOut => timedOut',
         \A s \in Sweepers : sweeper'[s] = sweeper[s] \/ sweeper'[s].at \notin {"picked", "removing"}
  PROVE  ClosingInv'
  BY ZenonT(30) DEF GatewayInv, ClosingInv, Attached, Noticed, CloseNotifies, Emptied, vars

(* The container, the engines and closeBody: an engine goes down when its  *)
(* connections have been closed, and the drain looks at the counter.       *)
LEMMA LifeClosing ==
  ASSUME GatewayInv, LifeInv',
         \/ MainStep \/ Signal \/ CloserStep \/ HeartbeatEnds \/ GrpcBootstrap \/ Reloading(ConfigNext)
         \/ \E e \in Engines : OnBoot(e) \/ StopsItself(e) \/ OnShutdown(e)
  PROVE  ClosingInv'
<1>1. CASE (MainStep /\ ~StartServices /\ ~Close) \/ Signal \/ Reloading(ConfigNext)
  <2>1. UNCHANGED <<vars, closeVars, engineVars, sweepVars>>
    BY <1>1, ZenonT(30) DEF GatewayInv, LifeInv, LifeType, MainStep, Signal, Reloading, LoadAll, NotAdded,
       InitSecurity, InitObservability, InitTraffic, InitCluster, InitGateway, Initialising, StartCluster, Exit
  <2> QED BY <2>1, QuietClosing, ZenonT(30) DEF GatewayInv, LifeInv, LifeType, Up, closeVars, engineVars,
             sweepVars
<1>2. CASE Close
  <2>1. closer'.n >= 5 => closer.n >= 5
    BY <1>2 DEF GatewayInv, LifeInv, LifeType, Close
  <2> QED BY <1>2, <2>1, QuietClosing, ZenonT(30) DEF GatewayInv, LifeInv, LifeType, Close, Up, engineVars,
             sweepVars
<1>3. CASE StartServices
  <2>1. 1 \notin Up
    BY <1>3, ZenonT(30) DEF GatewayInv, LifeInv, LifeType, StartServices, Quiet, Starting, Up
  <2>2. ASSUME NEW s \in Sweepers
        PROVE  sweeper'[s] = sweeper[s] \/ sweeper'[s].at \notin {"picked", "removing"}
    <3>1. CASE UNCHANGED sweeper
      BY <3>1, ZenonT(30) DEF GatewayInv, LifeInv, LifeType
    <3>2. CASE sweeper' = [t \in Sweepers |-> IF t \in scene.sweepers THEN At("idle") ELSE sweeper[t]]
      <4>1. sweeper'[s] = sweeper[s] \/ sweeper'[s] = At("idle")
        BY <3>2, ZenonT(30) DEF GatewayInv, LifeInv, LifeType
      <4> QED BY <4>1 DEF GatewayInv, LifeInv, LifeType, At
    <3> QED BY <1>3, <3>1, <3>2, ZenonT(30) DEF GatewayInv, LifeInv, LifeType, StartServices
  <2> QED BY <1>3, <2>1, <2>2, QuietClosing, ZenonT(30) DEF GatewayInv, LifeInv, LifeType, StartServices,
             closeVars
<1>4. CASE HeartbeatEnds
  <2>1. \A s \in Sweepers : sweeper'[s] = sweeper[s] \/ sweeper'[s].at \notin {"picked", "removing"}
    BY <1>4, ZenonT(30) DEF GatewayInv, LifeInv, LifeType, HeartbeatEnds, At, Sweepers
  <2> QED BY <1>4, <2>1, QuietClosing, ZenonT(30) DEF GatewayInv, LifeInv, LifeType, HeartbeatEnds, Up,
             closeVars, engineVars
<1>5. CASE GrpcBootstrap
  <2>1. late => late'
    BY <1>5, ZenonT(30) DEF GrpcBootstrap
  <2> QED BY <1>5, <2>1, QuietClosing, ZenonT(30) DEF GatewayInv, LifeInv, LifeType, GrpcBootstrap, Up,
             closeVars, sweepVars
<1>6. ASSUME NEW e \in Engines, OnBoot(e) \/ StopsItself(e) PROVE ClosingInv'
  <2>1. 1 \in Up => 1 \in Up'
    BY <1>6, ZenonT(30) DEF GatewayInv, LifeInv, LifeType, OnBoot, StopsItself, Up
  <2>2. late => late'
    BY <1>6, ZenonT(30) DEF GatewayInv, LifeInv, LifeType, OnBoot, StopsItself
  <2> QED BY <1>6, <2>1, <2>2, QuietClosing DEF GatewayInv, LifeInv, LifeType, OnBoot, StopsItself, closeVars,
             sweepVars
<1>7. ASSUME NEW e \in Engines, OnShutdown(e), e # 1 PROVE ClosingInv'
  <2>1. 1 \in Up => 1 \in Up'
    BY <1>7 DEF OnShutdown, Up
  <2>2. closer'.n >= 5 => closer.n >= 5
    BY <1>7 DEF OnShutdown
  <2> QED BY <1>7, <2>1, <2>2, QuietClosing, ZenonT(30) DEF OnShutdown, sweepVars
<1>8. CASE OnShutdown(1)
  <2>1. \A l \in Loops : lpc[l] = "idle"
    BY <1>8, SMTT(30) DEF GatewayInv, LifeInv, LifeType, OnShutdown, Drained
  <2>2. ASSUME NEW c \in Conns PROVE state[c] # "open"
    <3>1. \/ state[c] \in {"new", "refused", "gone"}
          \/ \E s \in Sweepers : sweeper[s] = [at |-> "removing", conn |-> c]
      BY <1>8, ZenonT(30) DEF OnShutdown, Drained
    <3>2. ASSUME NEW s \in Sweepers, sweeper[s] = [at |-> "removing", conn |-> c]
          PROVE state[c] \in {"deleted", "lowered"}
      BY <3>2 DEF GatewayInv, LifeInv, LifeType, ClosingInv, Attached
    <3> QED BY <3>1, <3>2, ZenonT(30)
  <2>3. closer'.n >= 5 => closer.n >= 5
    BY <1>8 DEF OnShutdown
  <2> QED BY <1>8, <2>1, <2>2, <2>3, ZenonT(30) DEF GatewayInv, LifeInv, LifeType, OnShutdown, ClosingInv,
             Attached, Noticed, CloseNotifies, Emptied, vars, sweepVars
<1>9. CASE CloseStopChan \/ CopyEngines \/ EngineStopped \/ EnginesStopped
  BY <1>9, QuietClosing, Positions DEF GatewayInv, LifeInv, LifeType, CloseStopChan, CopyEngines, EngineStopped,
     EnginesStopped, Closing, Onwards, Up
<1>10. CASE ClosePool \/ StopGrpc \/ StopConnectionChecker \/ CloseEnd
  BY <1>10, QuietClosing, Positions, SMTT(30) DEF GatewayInv, LifeInv, LifeType, ClosePool, StopGrpc,
     StopConnectionChecker, CloseEnd, Closing, Onwards, Up, At, Sweepers, Sweeping
<1>11. ASSUME NEW e \in Engines, StopEngine(e) PROVE ClosingInv'
  <2>1. UNCHANGED <<vars, heard>> /\ (late => late') /\ (timedOut => timedOut') /\ closer'.n = closer.n
    BY <1>11 DEF StopEngine, Closing
  <2>2. 1 \in Up => 1 \in Up'
    BY <1>11 DEF StopEngine, Closing, Up
  <2>3. \A s \in Sweepers : sweeper'[s] = sweeper[s]
    BY <1>11, ZenonT(30) DEF StopEngine, Closing
  <2> QED BY <2>1, <2>2, <2>3, QuietClosing, ZenonT(30)
<1>12. CASE Drain
  BY <1>12, ZenonT(30) DEF GatewayInv, LifeInv, LifeType, Drain, Closing, ClosingInv, Attached, Noticed,
     CloseNotifies, Emptied, Up, vars
<1> QED BY <1>1, <1>2, <1>3, <1>4, <1>5, <1>6, <1>7, <1>8, <1>9, <1>10, <1>11, <1>12, ZenonT(30) DEF CloserStep

(* The loops: a connection is opened only while its engine runs, so not    *)
(* after the drain.                                                        *)
LEMMA LoopClosing ==
  ASSUME GatewayInv, Unswept, NEW l \in Loops,
         LoopStep(l) \/ \E c \in Conns : Accept(l, c) \/ \E i \in IPs : Move(l, c, i)
  PROVE  ClosingInv'
<1>1. /\ UNCHANGED <<closer, late, timedOut, heard, sweeper>> /\ Up' = Up
  BY ZenonT(30) DEF Unswept, closeVars, engineVars, sweepVars, Up
<1>2. ASSUME NEW c \in Conns, CanAccept(l, c), 1 \in Up PROVE ClosingInv'
  BY <1>1, <1>2, SMTT(30) DEF GatewayInv, LifeInv, LifeType, IInv, TypeOK, Shape, CanAccept, Step, ClosingInv,
     Attached, Noticed, CloseNotifies, Emptied
<1>3. ASSUME NEW c \in Conns, NEW i \in IPs, UpdateConnectionIP(l, c, i), 1 \in Up PROVE ClosingInv'
  BY <1>1, <1>3, ZenonT(30) DEF GatewayInv, LifeInv, LifeType, IInv, TypeOK, Shape, UpdateConnectionIP, Step,
     ClosingInv, Attached, Noticed, CloseNotifies, Emptied
<1>4. CASE CanAcceptIP(l)
  BY <1>1, <1>4, ZenonT(30) DEF GatewayInv, LifeInv, LifeType, IInv, TypeOK, Shape, CanAcceptIP, Step, Done,
     ClosingInv, Attached, Noticed, CloseNotifies, Emptied
<1>5. CASE AddConnection(l)
  <2>1. 1 \in Up /\ at[l] \in Conns /\ state[at[l]] = "new"
    BY <1>5, ZenonT(30) DEF GatewayInv, LifeInv, LifeType, IInv, TypeOK, Shape, AddConnection, Step, ClosingInv,
       Attached
  <2>2. late \/ closer.n < 4
    BY <2>1 DEF GatewayInv, LifeInv, LifeType, IInv, TypeOK, Shape, Behind
  <2>3. Attached' /\ CloseNotifies'
    BY <1>1, <1>5, <2>1, ZenonT(30) DEF GatewayInv, LifeInv, LifeType, IInv, TypeOK, Shape, AddConnection,
       ClosingInv, Attached, CloseNotifies
  <2>4. Noticed' /\ Emptied'
    BY <1>1, <2>2, SMTT(30) DEF GatewayInv, LifeInv, LifeType, IInv, TypeOK, Shape, ClosingInv, Noticed, Emptied
  <2> QED BY <2>3, <2>4, ZenonT(30) DEF GatewayInv, LifeInv, LifeType, IInv, TypeOK, Shape, ClosingInv
<1>6. CASE AddIP(l) \/ DropOld(l) \/ RaiseNew(l) \/ SetRemoteHost(l)
  <2>1. UNCHANGED <<state, count>> /\ \A m \in Loops : lpc'[m] # "idle" => lpc[m] # "idle"
    BY <1>6, ZenonT(30) DEF GatewayInv, LifeInv, LifeType, IInv, TypeOK, Shape, AddIP, DropOld, RaiseNew,
       SetRemoteHost, Step, Done
  <2> QED BY <1>1, <2>1, ZenonT(30) DEF GatewayInv, LifeInv, LifeType, IInv, TypeOK, Shape, ClosingInv,
             Attached, Noticed, CloseNotifies, Emptied
<1> QED BY <1>2, <1>3, <1>4, <1>5, <1>6, GatewayAssumption, ZenonT(30) DEF LoopStep, Accept, Move, Running, Up

(* Removals: the one that begins has its notice, and the one that ends     *)
(* shows that the drain has not found the counter at zero.                 *)
LEMMA RemovalClosing ==
  ASSUME GatewayInv, NEW c \in Conns,
         \/ OnClose(c) \/ (LowerIP(c) /\ Unswept) \/ Removed(c)
         \/ \E s \in Sweepers : Pick(s, c) \/ Sweep(s)
  PROVE  ClosingInv'
<1>1. Up' = Up /\ UNCHANGED <<closer, late, timedOut>>
  BY ZenonT(30) DEF OnClose, Unswept, Removed, Pick, Sweep, closeVars, engineVars, Up
<1>2. CASE OnClose(c)
  <2>1. late \/ pool
    BY <1>2, OpenWhileUp, GatewayAssumption, ZenonT(30) DEF GatewayInv, LifeInv, LifeType, IInv, TypeOK,
       OnClose, Running, Up
  <2>2. Attached'
    BY <1>1, <1>2, SMTT(30) DEF GatewayInv, LifeInv, LifeType, IInv, TypeOK, OnClose, Delete, ClosingInv,
       Attached
  <2>3. Noticed' /\ CloseNotifies' /\ Emptied'
    BY <1>1, <1>2, <2>1, ZenonT(30) DEF GatewayInv, LifeInv, LifeType, IInv, TypeOK, OnClose, Delete, Notify,
       ClosingInv, Noticed, CloseNotifies, Emptied
  <2> QED BY <2>2, <2>3, ZenonT(30) DEF GatewayInv, LifeInv, LifeType, IInv, TypeOK, ClosingInv
<1>3. ASSUME NEW s \in Sweepers, Pick(s, c) PROVE ClosingInv'
  <2>1. late \/ pool
    BY <1>3, OpenWhileUp, ZenonT(30) DEF GatewayInv, LifeInv, LifeType, IInv, TypeOK, Pick, ClosingInv, Attached
  <2>2. Noticed'
    BY <1>1, <1>3, <2>1, SMTT(30) DEF GatewayInv, LifeInv, LifeType, IInv, TypeOK, Pick, Notify, ClosingInv,
       Noticed
  <2>3. Attached' /\ CloseNotifies' /\ Emptied'
    BY <1>1, <1>3, ZenonT(30) DEF GatewayInv, LifeInv, LifeType, IInv, TypeOK, Pick, Notify, ClosingInv,
       Attached, CloseNotifies, Emptied, vars
  <2> QED BY <2>2, <2>3, SMTT(30) DEF GatewayInv, LifeInv, LifeType, IInv, TypeOK, ClosingInv
<1>4. ASSUME NEW s \in Sweepers, Sweep(s) PROVE ClosingInv'
  <2>1. CASE Delete(sweeper[s].conn) /\ sweeper' = [sweeper EXCEPT ![s].at = "removing"]
    <3>1. sweeper[s].conn \in Conns /\ (late \/ sweeper[s].conn \in heard)
      BY <1>4, ZenonT(30) DEF GatewayInv, LifeInv, LifeType, IInv, TypeOK, Sweep, ClosingInv, Noticed
    <3>2. Attached'
      BY <1>1, <2>1, <3>1 DEF GatewayInv, LifeInv, LifeType, IInv, TypeOK, Delete, ClosingInv, Attached,
         Sweeping
    <3>3. Noticed' /\ CloseNotifies' /\ Emptied'
      BY <1>1, <1>4, <2>1, <3>1 DEF GatewayInv, LifeInv, LifeType, IInv, TypeOK, Sweep, Delete, ClosingInv,
         Noticed, CloseNotifies, Emptied, Sweeping
    <3> QED BY <3>2, <3>3, ZenonT(30) DEF GatewayInv, LifeInv, LifeType, IInv, TypeOK, ClosingInv
  <2>2. CASE sweeper' = [sweeper EXCEPT ![s] = At("idle")] /\ UNCHANGED vars
    BY <1>1, <1>4, <2>2 DEF GatewayInv, LifeInv, LifeType, IInv, TypeOK, Sweep, At, ClosingInv, Attached,
       Noticed, CloseNotifies, Emptied, vars
  <2> QED BY <1>4, <2>1, <2>2, ZenonT(30) DEF GatewayInv, LifeInv, LifeType, IInv, TypeOK, Sweep
<1>5. CASE LowerIP(c) /\ Unswept
  BY <1>1, <1>5, ZenonT(30) DEF GatewayInv, LifeInv, LifeType, IInv, TypeOK, LowerIP, Unswept, sweepVars,
     ClosingInv, Attached, Noticed, CloseNotifies, Emptied
<1>6. CASE Removed(c)
  <2>1. count # 0
    <3>1. c \in Live
      BY <1>6, ZenonT(30) DEF GatewayInv, LifeInv, LifeType, IInv, TypeOK, Removed, LowerCount, Live
    <3>2. Cardinality(Live) # 0
      BY <3>1, FiniteCounts, FS_EmptySet, ZenonT(30) DEF GatewayInv, LifeInv, LifeType, IInv, TypeOK
    <3> QED BY <3>2, ZenonT(30) DEF GatewayInv, LifeInv, LifeType, IInv, TypeOK, CountExact
  <2>2. \A s \in Sweepers : sweeper'[s] = sweeper[s] \/ sweeper'[s] = At("idle")
    BY <1>6, ZenonT(30) DEF GatewayInv, LifeInv, LifeType, IInv, TypeOK, Removed
  <2>3. \A s \in Sweepers : sweeper'[s].at = "removing" => sweeper'[s].conn # c
    BY <1>6, SMTT(30) DEF GatewayInv, LifeInv, LifeType, IInv, TypeOK, Removed, At, Sweeping
  <2>4. Attached'
    BY <1>1, <1>6, <2>2, <2>3, SMTT(30) DEF GatewayInv, LifeInv, LifeType, IInv, TypeOK, Removed, LowerCount,
       At, ClosingInv, Attached
  <2>5. Noticed' /\ CloseNotifies'
    BY <1>1, <1>6, <2>2, ZenonT(30) DEF GatewayInv, LifeInv, LifeType, IInv, TypeOK, Removed, LowerCount, At,
       ClosingInv, Noticed, CloseNotifies
  <2>6. Emptied'
    BY <1>1, <2>1, ZenonT(30) DEF GatewayInv, LifeInv, LifeType, IInv, TypeOK, ClosingInv, Emptied
  <2> QED BY <2>4, <2>5, <2>6, ZenonT(30) DEF GatewayInv, LifeInv, LifeType, IInv, TypeOK, ClosingInv
<1> QED BY <1>2, <1>3, <1>4, <1>5, <1>6, ZenonT(30) DEF GatewayInv, LifeInv, LifeType, IInv, TypeOK

(* The whole invariant is inductive.                                       *)
LEMMA GatewayStep == GatewayInv /\ [GatewayNext]_gatewayVars => GatewayInv'
<1> SUFFICES ASSUME GatewayInv, [GatewayNext]_gatewayVars PROVE GatewayInv'
  BY ZenonT(30)
<1>1. LifeInv'
  BY LifeStep, ZenonT(30) DEF GatewayInv
<1>2. IInv'
  <2>1. [Next]_vars
    BY GatewayAdmits, ZenonT(30) DEF GatewayInv, LifeInv
  <2> QED BY <2>1, ShapeStep, CountStep, StutterIInv, ZenonT(30) DEF GatewayInv, IInv
<1>3. CASE UNCHANGED gatewayVars
  <2>1. UNCHANGED <<vars, heard, engine, closer, late, timedOut, sweeper>>
    BY <1>3, ZenonT(30) DEF gatewayVars, closeVars, engineVars, sweepVars
  <2>2. ClosingInv'
    BY <2>1, QuietClosing, ZenonT(30) DEF Up
  <2> QED BY <1>1, <1>2, <2>2, ZenonT(30) DEF GatewayInv
<1>4. CASE GatewayNext
  <2>1. ASSUME NEW l \in Loops, LoopStep(l) /\ Unswept PROVE ClosingInv'
    <3>1. LoopStep(l) \/ \E c \in Conns : Accept(l, c) \/ \E i \in IPs : Move(l, c, i)
      BY <2>1, ZenonT(30)
    <3> QED BY <2>1, LoopClosing, ZenonT(30)
  <2>2. ASSUME NEW c \in Conns, (LowerIP(c) /\ Unswept) \/ Removed(c) PROVE ClosingInv'
    <3>1. \/ OnClose(c) \/ (LowerIP(c) /\ Unswept) \/ Removed(c)
          \/ \E s \in Sweepers : Pick(s, c) \/ Sweep(s)
      BY <2>2, ZenonT(30)
    <3> QED BY <3>1, RemovalClosing, ZenonT(30)
  <2>3. ASSUME NEW l \in Loops, NEW c \in Conns, (Accept(l, c) \/ \E i \in IPs : Move(l, c, i)) /\ Unswept
        PROVE ClosingInv'
    BY <2>3, LoopClosing, ZenonT(30)
  <2>4. ASSUME NEW c \in Conns, OnClose(c) \/ \E s \in Sweepers : Pick(s, c) PROVE ClosingInv'
    <3>1. \/ OnClose(c) \/ (LowerIP(c) /\ Unswept) \/ Removed(c)
          \/ \E s \in Sweepers : Pick(s, c) \/ Sweep(s)
      BY <2>4, ZenonT(30)
    <3> QED BY <3>1, RemovalClosing, ZenonT(30)
  <2>5. ASSUME NEW s \in Sweepers, Sweep(s) PROVE ClosingInv'
    <3>1. sweeper[s].conn \in Conns
      BY <2>5, ZenonT(30) DEF Sweep, GatewayInv, LifeInv, LifeType
    <3> QED BY <2>5, <3>1, RemovalClosing, ZenonT(30)
  <2>6. ClosingInv'
    BY <1>1, <1>4, <2>1, <2>2, <2>3, <2>4, <2>5, LifeClosing, ZenonT(30) DEF GatewayNext, LoopGoesOn,
       RemovalGoesOn
  <2> QED BY <1>1, <1>2, <2>6, ZenonT(30) DEF GatewayInv
<1> QED BY <1>3, <1>4, ZenonT(30)

(* It holds in every reachable state of every deployment.                  *)
THEOREM GatewayInvariance == GatewaySpec => []GatewayInv
<1>1. GatewayInit => GatewayInv
  BY InitIInv, InitLife, InitClosing, ZenonT(30) DEF GatewayInit, GatewayInv
<1> QED BY <1>1, GatewayStep, PTL DEF GatewaySpec

(* The gateway, with its engines, sweepers, reloads and closing, implements *)
(* Admission.                                                              *)
THEOREM GatewayImplementsAdmission == GatewaySpec => Spec
<1>1. GatewayInit => Init
  BY ZenonT(30) DEF GatewayInit
<1>2. GatewayInv /\ [GatewayNext]_gatewayVars => [Next]_vars
  BY GatewayAdmits, ZenonT(30) DEF GatewayInv, LifeInv
<1> QED BY <1>1, <1>2, GatewayInvariance, PTL DEF GatewaySpec, Spec

(* The connection counter stays exact while idle and heartbeat checkers,   *)
(* the event loops and closeBody remove connections at once (manager.go).  *)
THEOREM GatewayCounts == GatewaySpec => []CountExact
BY GatewayImplementsAdmission, CountIsExact, PTL

(* So it passes maxConnections by less than the number of event loops      *)
(* (CanAccept, AddConnection).                                             *)
THEOREM GatewayIsBounded == GatewaySpec => []AdmissionBound
BY GatewayImplementsAdmission, AdmissionIsBounded, PTL

(* Each address counts exactly its connections in the whole gateway, as    *)
(* long as no connection is removed while its loop moves it to another     *)
(* address (incrementIP, decrementIP).                                     *)
THEOREM GatewayCountsAddresses == GatewaySpec => []IPExact
BY GatewayImplementsAdmission, IPCountsAreExact, PTL

(* Types; g.engines is the engines that run (OnBoot, OnShutdown).          *)
THEOREM GatewayTypes == GatewaySpec => []GatewayTypeOK
<1>1. Len(CloseOrder) = 8
  BY ZenonT(30) DEF CloseOrder
<1>2. GatewayInv => GatewayTypeOK
  BY <1>1 DEF GatewayInv, IInv, LifeInv, LifeType, Sweeping, GatewayTypeOK
<1> QED BY <1>2, GatewayInvariance, PTL

(* No connection is removed during closing without an offline notice begun *)
(* before the pool was closed (closeBody).                                 *)
THEOREM ClosingNotifies == GatewaySpec => []CloseNotifies
<1>1. GatewayInv => CloseNotifies
  BY ZenonT(30) DEF GatewayInv, ClosingInv
<1> QED BY <1>1, GatewayInvariance, PTL

(* When closeBody is over the engines, the gRPC server and the idle        *)
(* checker are down (gateway.go:791).                                      *)
THEOREM ClosingStopsAll == GatewaySpec => []CloseStopsAll
<1>1. GatewayInv => CloseStopsAll
  BY DEF GatewayInv, LifeInv, LifeType, Behind, Up, CloseStopsAll
<1> QED BY <1>1, GatewayInvariance, PTL

(* When closeBody is over and the drain did not give up nothing is counted *)
(* (gateway.go:880).                                                       *)
THEOREM ClosingEmpties == GatewaySpec => []EmptyAfterClose
<1>1. GatewayInv => EmptyAfterClose
  BY SMTT(30) DEF GatewayInv, LifeInv, Behind, ClosingInv, Emptied, EmptyAfterClose
<1> QED BY <1>1, GatewayInvariance, PTL

-----------------------------------------------------------------------------
(* The configuration in force.                                             *)

\* What the start has checked stays so.
Wiring ==
  main.at \in {"start", "services", "serve", "close", "wait"} => cfg.on \subseteq wired

ForceInv == ConfigInv /\ Wiring

(* Only reloading changes the configuration, and only InitSecurity, which  *)
(* comes before the check, what is wired.                                  *)
LEMMA OnlyReloads ==
  ASSUME LifeType, [GatewayNext]_gatewayVars
  PROVE  \/ Reloading(ConfigNext)
         \/ /\ UNCHANGED configVars
            /\ \/ UNCHANGED wired /\ (main'.at = main.at \/ main'.at \in {"init", "failed", "exit"})
               \/ UNCHANGED wired /\ main.at \in {"start", "services", "serve", "close"}
               \/ UNCHANGED wired /\ validateSecurityWiring
               \/ main'.at \in {"init", "failed"}
<1>1. CASE LoadAll \/ NotAdded \/ InitSecurity \/ InitObservability \/ InitTraffic \/ InitCluster
  BY <1>1 DEF LifeType, reloadVars, mainVars, LoadAll, NotAdded, InitSecurity, InitObservability, InitTraffic,
     InitCluster, Initialising, InitDone, Fail
<1>2. CASE InitGateway \/ StartCluster \/ StartServices \/ Close \/ Exit \/ Signal
  BY <1>2 DEF reloadVars, mainVars, InitGateway, StartCluster, StartServices, Close, Exit, Signal, Initialising,
     Fail
<1>3. CASE CloserStep \/ HeartbeatEnds \/ GrpcBootstrap
  BY <1>3, ZenonT(30) DEF LifeType, reloadVars, mainVars, CloserStep, CloseStopChan, CopyEngines, StopEngine,
     EngineStopped, EnginesStopped, Drain, ClosePool, StopGrpc, StopConnectionChecker, CloseEnd, Closing,
     HeartbeatEnds, GrpcBootstrap
<1>4. CASE \E e \in Engines : OnBoot(e) \/ StopsItself(e) \/ OnShutdown(e)
  BY <1>4, ZenonT(30) DEF reloadVars, mainVars, OnBoot, StopsItself, OnShutdown
<1>5. CASE Unswept
  BY <1>5, ZenonT(30) DEF LifeType, reloadVars, mainVars, Unswept
<1>6. CASE \E c \in Conns : OnClose(c) \/ Removed(c) \/ \E s \in Sweepers : Pick(s, c)
  BY <1>6, ZenonT(30) DEF reloadVars, mainVars, OnClose, Removed, Pick
<1>7. CASE \E s \in Sweepers : Sweep(s)
  BY <1>7, ZenonT(30) DEF reloadVars, mainVars, Sweep
<1>8. CASE UNCHANGED gatewayVars
  BY <1>8, ZenonT(30) DEF reloadVars, mainVars, gatewayVars
<1> QED BY <1>1, <1>2, <1>3, <1>4, <1>5, <1>6, <1>7, <1>8, ZenonT(30) DEF GatewayNext, MainStep, LoopGoesOn,
           RemovalGoesOn

(* So the invariant is kept by every step of the gateway.                  *)
LEMMA ForceStep == LifeType /\ ForceInv /\ [GatewayNext]_gatewayVars => ForceInv'
<1> SUFFICES ASSUME LifeType, ForceInv, [GatewayNext]_gatewayVars PROVE ForceInv'
  BY ZenonT(30)
<1>1. CASE Reloading(ConfigNext)
  BY <1>1, ConfigStep, ZenonT(30) DEF Reloading, mainVars, ForceInv, Wiring
<1>2. CASE UNCHANGED configVars
  <2>1. ConfigInv' /\ cfg' = cfg
    BY <1>2, ConfigStutter, ZenonT(30) DEF ForceInv, configVars
  <2>2. Wiring'
    BY <1>1, <2>1, OnlyReloads, ZenonT(30) DEF ForceInv, Wiring, validateSecurityWiring
  <2> QED BY <2>1, <2>2, ZenonT(30) DEF ForceInv
<1> QED BY <1>1, <1>2, OnlyReloads, ZenonT(30)

(* It holds in every reachable state.                                      *)
THEOREM ForceInvariance == GatewaySpec => []ForceInv
<1>1. GatewayInit => ForceInv
  BY InitConfig DEF GatewayInit, ForceInv, Wiring
<1>2. GatewayInv /\ ForceInv /\ [GatewayNext]_gatewayVars => ForceInv'
  BY ForceStep, ZenonT(30) DEF GatewayInv, LifeInv
<1> QED BY <1>1, <1>2, GatewayInvariance, PTL DEF GatewaySpec

(* A serving gateway has every security resource its configuration turns   *)
(* on, after any reloads (validateSecurityWiring, handleConfigUpdate).     *)
THEOREM SecurityStaysWired == GatewaySpec => []FailClosed
<1>1. ForceInv => FailClosed
  BY ZenonT(30) DEF ForceInv, Wiring, FailClosed
<1> QED BY <1>1, ForceInvariance, PTL

(* No reload brings in a frame that does not fit its buffer, or a zero     *)
(* timeout (handleConfigUpdate, applyRuntimeDefaults).                     *)
THEOREM ReloadStaysValid == GatewaySpec => []ValidInForce
<1>1. ForceInv => ValidInForce
  BY ZenonT(30) DEF ForceInv, ConfigInv
<1> QED BY <1>1, ForceInvariance, PTL

(* Between two updates every holder has the configuration in force.        *)
THEOREM ReloadIsWhole == GatewaySpec => []AppliedWhole
<1>1. ForceInv => AppliedWhole
  BY ZenonT(30) DEF ForceInv, ConfigInv
<1> QED BY <1>1, ForceInvariance, PTL
=============================================================================
