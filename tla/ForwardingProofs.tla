--------------------------- MODULE ForwardingProofs ---------------------------
(***************************************************************************)
(* For any sessions, shards, messages and sizes: until Close every message *)
(* given to SendMessage has one owner, and neither the queue nor the       *)
(* channels put the messages of a session out of order.                    *)
(***************************************************************************)
EXTENDS Forwarding, FiniteSetTheorems, TLAPS

USE SMTT(30), ZenonT(30)

-----------------------------------------------------------------------------
(* How often a message occurs in a sequence.                               *)

(* The places of a message in a sequence are finitely many.                *)
LEMMA PlacesFinite ==
  ASSUME NEW S, NEW s \in Seq(S), NEW m
  PROVE  IsFiniteSet({i \in 1 .. Len(s) : s[i] = m})
<1>1. PICK n \in Nat : n = Len(s)
  OBVIOUS
<1>2. IsFiniteSet(1 .. n)
  BY FS_Interval
<1>3. {i \in 1 .. n : s[i] = m} \in SUBSET (1 .. n)
  BY ZenonT(30)
<1>4. IsFiniteSet({i \in 1 .. n : s[i] = m})
  BY <1>2, <1>3, FS_Subset, ZenonT(30)
<1> QED BY <1>1, <1>4, ZenonT(30)

(* Occurs counts.                                                          *)
LEMMA OccursType ==
  ASSUME NEW S, NEW s \in Seq(S), NEW m
  PROVE  /\ Occurs(m, s) \in Nat
         /\ Occurs(m, s) = 0 <=> \A i \in 1 .. Len(s) : s[i] # m
<1> DEFINE A == {i \in 1 .. Len(s) : s[i] = m}
<1>1. IsFiniteSet(A)
  BY PlacesFinite, ZenonT(30)
<1>2. A = {} <=> \A i \in 1 .. Len(s) : s[i] # m
  BY ZenonT(30)
<1>3. Occurs(m, s) = Cardinality(A)
  BY ZenonT(30) DEF Occurs
<1> HIDE DEF A
<1>4. Cardinality(A) \in Nat /\ (Cardinality(A) = 0 <=> A = {})
  BY <1>1, FS_CardinalityType, FS_EmptySet, ZenonT(30)
<1> QED BY <1>2, <1>3, <1>4, ZenonT(30)

(* The empty sequence has nothing.                                         *)
LEMMA OccursEmpty == ASSUME NEW m PROVE Occurs(m, <<>>) = 0
<1>1. {i \in 1 .. Len(<<>>) : <<>>[i] = m} = {}
  OBVIOUS
<1> QED BY <1>1, FS_EmptySet, ZenonT(30) DEF Occurs

(* Append adds one occurrence of what is appended.                         *)
LEMMA OccursAppend ==
  ASSUME NEW S, NEW s \in Seq(S), NEW x \in S, NEW m
  PROVE  Occurs(m, Append(s, x)) = Occurs(m, s) + (IF x = m THEN 1 ELSE 0)
<1> DEFINE A == {i \in 1 .. Len(s) : s[i] = m}
           B == {i \in 1 .. Len(Append(s, x)) : Append(s, x)[i] = m}
           n == Len(s) + 1
<1>1. IsFiniteSet(A) /\ Cardinality(A) \in Nat
  BY PlacesFinite, FS_CardinalityType, ZenonT(30)
<1>2. B = IF x = m THEN A \cup {n} ELSE A
  OBVIOUS
<1>3. n \notin A
  OBVIOUS
<1>4. Occurs(m, s) = Cardinality(A) /\ Occurs(m, Append(s, x)) = Cardinality(B)
  BY ZenonT(30) DEF Occurs
<1> HIDE DEF A, B, n
<1>5. Cardinality(A \cup {n}) = Cardinality(A) + 1
  BY <1>1, <1>3, FS_AddElement, ZenonT(30)
<1> QED BY <1>1, <1>2, <1>4, <1>5

(* A sequence is its head and its tail.                                    *)
LEMMA OccursTail ==
  ASSUME NEW S, NEW s \in Seq(S), s # <<>>, NEW m
  PROVE  Occurs(m, s) = Occurs(m, Tail(s)) + (IF Head(s) = m THEN 1 ELSE 0)
<1> DEFINE A == {i \in 1 .. Len(s) : s[i] = m}
           B == {i \in 1 .. Len(Tail(s)) : Tail(s)[i] = m}
           f == [i \in B |-> i + 1]
<1>1. IsFiniteSet(A) /\ IsFiniteSet(B) /\ Cardinality(B) \in Nat /\ Cardinality(A) \in Nat
  <2>1. Tail(s) \in Seq(S)
    OBVIOUS
  <2> QED BY <2>1, PlacesFinite, FS_CardinalityType, ZenonT(30)
<1>2. Len(Tail(s)) = Len(s) - 1 /\ \A i \in 1 .. Len(Tail(s)) : Tail(s)[i] = s[i + 1]
  OBVIOUS
<1>3. f \in [B -> A \ {1}] /\ \A i, j \in B : f[i] = f[j] => i = j
  BY <1>2
<1>4. \A k \in A \ {1} : \E i \in B : f[i] = k
  <2> SUFFICES ASSUME NEW k \in A \ {1} PROVE \E i \in B : f[i] = k
    BY ZenonT(30)
  <2>1. k - 1 \in B /\ f[k - 1] = k
    BY <1>2
  <2> QED BY <2>1, ZenonT(30)
<1>5. 1 \in A <=> Head(s) = m
  OBVIOUS
<1>6. Occurs(m, s) = Cardinality(A) /\ Occurs(m, Tail(s)) = Cardinality(B)
  BY ZenonT(30) DEF Occurs
<1> HIDE DEF A, B, f
<1>7. ExistsBijection(B, A \ {1})
  BY <1>3, <1>4, ZenonT(30) DEF ExistsBijection, Bijection, Injection, Surjection, IsInjective
<1>8. Cardinality(A \ {1}) = Cardinality(B)
  BY <1>1, <1>7, FS_Bijection, ZenonT(30)
<1>9. Cardinality(A \ {1}) = IF 1 \in A THEN Cardinality(A) - 1 ELSE Cardinality(A)
  BY <1>1, FS_RemoveElement, ZenonT(30)
<1> QED BY <1>1, <1>5, <1>6, <1>8, <1>9

(* A message put in front.                                                 *)
LEMMA OccursFront ==
  ASSUME NEW S, NEW s \in Seq(S), NEW x \in S, NEW m
  PROVE  Occurs(m, <<x>> \o s) = Occurs(m, s) + (IF x = m THEN 1 ELSE 0)
<1> DEFINE t == <<x>> \o s
<1>1. t \in Seq(S) /\ Len(t) = Len(s) + 1 /\ Head(t) = x /\ t # <<>>
  OBVIOUS
<1>2. \A i \in 1 .. Len(s) : t[i + 1] = s[i]
  OBVIOUS
<1>3. Tail(t) \in Seq(S) /\ Len(Tail(t)) = Len(s) /\ \A i \in 1 .. Len(s) : Tail(t)[i] = t[i + 1]
  BY <1>1
<1> HIDE DEF t
<1>4. Tail(t) = s
  BY <1>2, <1>3
<1>5. Occurs(m, t) = Occurs(m, s) + (IF x = m THEN 1 ELSE 0)
  BY <1>1, <1>4, OccursTail, ZenonT(30)
<1> QED BY <1>5, ZenonT(30) DEF t

(* One message.                                                            *)
LEMMA OccursOne ==
  ASSUME NEW x, NEW m PROVE Occurs(m, <<x>>) = IF x = m THEN 1 ELSE 0
<1>1. <<>> \in Seq({x}) /\ x \in {x} /\ Append(<<>>, x) = <<x>>
  OBVIOUS
<1>2. Occurs(m, Append(<<>>, x)) = Occurs(m, <<>>) + (IF x = m THEN 1 ELSE 0)
  BY <1>1, OccursAppend, ZenonT(30)
<1>3. Occurs(m, <<>>) = 0
  BY OccursEmpty, ZenonT(30)
<1> QED BY <1>1, <1>2, <1>3

(* Sets that differ in one element.                                        *)
LEMMA Differ ==
  ASSUME NEW S, NEW T, NEW p, IsFiniteSet(S), IsFiniteSet(T), S \ {p} = T \ {p}
  PROVE  /\ Cardinality(S) \in Nat /\ Cardinality(T) \in Nat
         /\ Cardinality(S) + (IF p \in T THEN 1 ELSE 0) = Cardinality(T) + (IF p \in S THEN 1 ELSE 0)
<1>1. /\ Cardinality(S \ {p}) = IF p \in S THEN Cardinality(S) - 1 ELSE Cardinality(S)
      /\ Cardinality(T \ {p}) = IF p \in T THEN Cardinality(T) - 1 ELSE Cardinality(T)
  BY FS_RemoveElement, ZenonT(30)
<1>2. Cardinality(S) \in Nat /\ Cardinality(T) \in Nat
  BY FS_CardinalityType, ZenonT(30)
<1> QED BY <1>1, <1>2

-----------------------------------------------------------------------------
(* The inductive invariant.                                                *)

\* Where the Flusher has a message in its hand.
Pending == {"check", "direct", "closed", "push", "wait", "recheck", "failed"}

\* What a sender holds follows from where it is: a session its last message.
Hands ==
  /\ \A c \in Sessions :
       /\ pc[c] \in {"idle", "start", "closing", "enqueue", "closed", "push", "wait", "recheck", "failed"}
       /\ hand[c] = IF pc[c] = "idle" THEN NoMsg ELSE <<c, sent[c]>>
       /\ pc[c] # "idle" => sent[c] > 0
  /\ pc[Flusher] \in {"idle", "dequeue", "return"} \cup Pending
  /\ hand[Flusher] = NoMsg <=> pc[Flusher] \notin Pending
  /\ pc[Flusher] # "return" => failures < MaxFailures

\* What every send loop has in its channel and its batch.
Loops ==
  \A sh \in Shards :
    /\ loop[sh] \in {"select", "exit"} => batch[sh] = <<>>
    /\ loop[sh] = "drain" => Len(batch[sh]) < MaxBatch
    /\ \A i \in 1 .. Len(sendCh[sh]) : ShardOf(sendCh[sh][i]) = sh
    /\ \A i \in 1 .. Len(batch[sh]) : ShardOf(batch[sh][i]) = sh

\* No shard is stopped before Close.
Open ==
  /\ closing <=> closePC # "open"
  /\ ~closing => stopped = {}

\* What is in the queue or comes from it has seen it.
Queued ==
  /\ \A i \in 1 .. Len(queue) : queue[i] \in viaQueue
  /\ hand[Flusher] \in viaQueue \cup {NoMsg}

Frame == ForwardingTypeOK /\ Hands /\ Loops /\ Open /\ Queued

\* The sets the proofs argue about.
LEMMA Sets ==
  /\ IsFiniteSet(Senders) /\ Flusher \in Senders /\ Sessions \subseteq Senders
  /\ Flusher \notin Sessions
  /\ NoMsg \notin Msgs
  /\ \A m \in Msgs : m[1] \in Sessions /\ m[2] \in 1 .. Count /\ m = <<m[1], m[2]>> /\ ShardOf(m) \in Shards
  /\ \A c \in Sessions, n \in 1 .. Count : <<c, n>> \in Msgs
<1>1. IsFiniteSet(Sessions \cup {Flusher})
  BY ForwardingAssumption, FS_AddElement, ZenonT(30)
<1>2. NoMsg \notin Msgs
  BY DEF NoMsg, Msgs
<1>3. \A m \in Msgs : m[1] \in Sessions /\ m[2] \in 1 .. Count /\ m = <<m[1], m[2]>>
  BY DEF Msgs
<1>4. \A m \in Msgs : ShardOf(m) \in Shards
  BY <1>3, ForwardingAssumption, ZenonT(30) DEF ShardOf
<1>5. \A c \in Sessions, n \in 1 .. Count : <<c, n>> \in Msgs
  BY ZenonT(30) DEF Msgs
<1> QED BY <1>1, <1>2, <1>3, <1>4, <1>5, ForwardingAssumption, ZenonT(30) DEF Senders

\* The sizes are positive.
LEMMA Sizes ==
  /\ Count \in Nat \ {0} /\ ChanCap \in Nat \ {0} /\ QueueMax \in Nat \ {0} /\ MaxBatch \in Nat \ {0}
  /\ MaxFailures \in Nat \ {0} /\ MaxFlushes \in Nat \ {0}
BY ForwardingAssumption, ZenonT(30)

\* Put counts the messages it is given.
LEMMA PutType ==
  ASSUME NEW s \in Seq(Msgs), puts \in [Msgs -> Nat]
  PROVE  /\ Put(s) \in [Msgs -> Nat]
         /\ \A m \in Msgs : Put(s)[m] = puts[m] + Occurs(m, s)
<1>1. \A m \in Msgs : Occurs(m, s) \in Nat
  BY OccursType, ZenonT(30)
<1>2. Put(s) = [m \in Msgs |-> puts[m] + Occurs(m, s)]
  BY ZenonT(30) DEF Put, Occurs
<1> HIDE DEF Put
<1> QED BY <1>1, <1>2

\* A sender with a message holds one that was given to SendMessage.
LEMMA HoldsMsg ==
  ASSUME ForwardingTypeOK, Hands
  PROVE  /\ \A c \in Sessions : pc[c] # "idle" => hand[c] \in Msgs /\ hand[c] = <<c, sent[c]>>
         /\ pc[Flusher] \in Pending => hand[Flusher] \in Msgs
         /\ \A p \in Senders : pc[p] \in {"closed", "push", "wait", "recheck", "failed"} => hand[p] \in Msgs
<1>1. \A c \in Sessions : pc[c] # "idle" => hand[c] \in Msgs /\ hand[c] = <<c, sent[c]>>
  <2> SUFFICES ASSUME NEW c \in Sessions, pc[c] # "idle"
               PROVE  hand[c] \in Msgs /\ hand[c] = <<c, sent[c]>>
    BY ZenonT(30)
  <2>1. hand[c] = <<c, sent[c]>> /\ sent[c] > 0
    BY ZenonT(30) DEF Hands
  <2>2. sent[c] \in 1 .. Count
    BY <2>1, Sizes DEF ForwardingTypeOK
  <2>3. <<c, sent[c]>> \in Msgs
    BY <2>2, Sets, ZenonT(30)
  <2> QED BY <2>1, <2>3, ZenonT(30)
<1>2. pc[Flusher] \in Pending => hand[Flusher] \in Msgs
  BY Sets DEF ForwardingTypeOK, Hands
<1> QED BY <1>1, <1>2, ZenonT(30) DEF Senders, Pending

\* Taking from the front and adding at the back of a sequence of messages.
LEMMA SeqFacts ==
  ASSUME NEW S, NEW s \in Seq(S), NEW x \in S
  PROVE  /\ Append(s, x) \in Seq(S) /\ Len(Append(s, x)) = Len(s) + 1
         /\ \A i \in 1 .. Len(s) : Append(s, x)[i] = s[i]
         /\ Append(s, x)[Len(s) + 1] = x
         /\ s # <<>> => /\ Tail(s) \in Seq(S) /\ Len(Tail(s)) = Len(s) - 1 /\ Len(s) > 0
                        /\ Head(s) \in S /\ Head(s) = s[1]
                        /\ \A i \in 1 .. Len(Tail(s)) : Tail(s)[i] = s[i + 1]
         /\ <<x>> \o s \in Seq(S) /\ Len(<<x>> \o s) = Len(s) + 1 /\ (<<x>> \o s)[1] = x
         /\ \A i \in 1 .. Len(s) : (<<x>> \o s)[i + 1] = s[i]
         /\ Len(s) \in Nat
OBVIOUS

-----------------------------------------------------------------------------
(* The steps keep the frame.                                               *)

\* Enqueue with the drop policy keeps the types.
LEMMA EnqueuedTypes ==
  ASSUME ForwardingTypeOK, NEW m \in Msgs, Enqueued(m)
  PROVE  /\ queue' \in Seq(Msgs) /\ Len(queue') <= QueueMax
         /\ puts' \in [Msgs -> Nat] /\ viaQueue' \subseteq Msgs
<1> DEFINE q == IF Len(queue) >= QueueMax THEN Tail(queue) ELSE queue
<1>1. queue \in Seq(Msgs) /\ Len(queue) <= QueueMax /\ puts \in [Msgs -> Nat] /\ viaQueue \subseteq Msgs
  BY ZenonT(30) DEF ForwardingTypeOK
<1>2. q \in Seq(Msgs) /\ Len(q) < QueueMax /\ (Len(queue) >= QueueMax => Head(queue) \in Msgs)
  BY <1>1, Sizes
<1>3. queue' = Append(q, m) /\ viaQueue' = viaQueue \cup {m}
      /\ puts' = IF Len(queue) >= QueueMax THEN Put(<<Head(queue)>>) ELSE puts
  BY ZenonT(30) DEF Enqueued
<1> HIDE DEF q
<1>4. Len(queue) >= QueueMax => Put(<<Head(queue)>>) \in [Msgs -> Nat]
  <2>1. Len(queue) >= QueueMax => <<Head(queue)>> \in Seq(Msgs)
    BY <1>2
  <2> QED BY <1>1, <2>1, PutType, ZenonT(30)
<1>5. queue' \in Seq(Msgs) /\ Len(queue') <= QueueMax
  BY <1>2, <1>3, Sizes
<1>6. puts' \in [Msgs -> Nat] /\ viaQueue' \subseteq Msgs
  BY <1>1, <1>3, <1>4, ZenonT(30)
<1> QED BY <1>5, <1>6, ZenonT(30)

\* So does a push into a channel with room.
LEMMA PushTypes ==
  ASSUME ForwardingTypeOK, NEW p \in Senders, hand[p] \in Msgs, NEW from, NEW sh \in Shards,
         PushTo(p, from, sh)
  PROVE  /\ sendCh' \in [Shards -> Seq(Msgs)] /\ \A x \in Shards : Len(sendCh'[x]) <= ChanCap
         /\ pc' = [pc EXCEPT ![p] = "recheck"]
<1>1. sendCh \in [Shards -> Seq(Msgs)] /\ \A x \in Shards : Len(sendCh[x]) <= ChanCap
  BY ZenonT(30) DEF ForwardingTypeOK
<1>2. Append(sendCh[sh], hand[p]) \in Seq(Msgs) /\ Len(Append(sendCh[sh], hand[p])) <= ChanCap
  BY <1>1, Sizes DEF PushTo
<1>3. sendCh' = [sendCh EXCEPT ![sh] = Append(sendCh[sh], hand[p])] /\ pc' = [pc EXCEPT ![p] = "recheck"]
  BY ZenonT(30) DEF PushTo, Go
<1> QED BY <1>1, <1>2, <1>3, ZenonT(30)

\* The end of a batch.
LEMMA ReturnTypes ==
  ASSUME ForwardingTypeOK, NEW sh \in Shards, LoopReturn(sh)
  PROVE  /\ batch' \in [Shards -> Seq(Msgs)] /\ \A x \in Shards : Len(batch'[x]) <= MaxBatch
         /\ puts' \in [Msgs -> Nat] /\ loopStream' \in [Shards -> Streams \cup {NoStream}]
         /\ loop' \in [Shards -> {"select", "drain", "read", "send", "exit"}]
<1>1. Put(batch[sh]) \in [Msgs -> Nat]
  BY PutType, ZenonT(30) DEF ForwardingTypeOK
<1> QED BY <1>1, Sizes DEF LoopReturn, LoopGo, ForwardingTypeOK

\* Every step keeps the types.
LEMMA TypeStep ==
  ASSUME Frame, ForwardingNext
  PROVE  ForwardingTypeOK'
<1> USE DEF linkVars
<1>0. ForwardingTypeOK /\ Hands /\ Loops
  BY ZenonT(30) DEF Frame
<1>1. ASSUME LinkStep PROVE ForwardingTypeOK'
  <2>1. UNCHANGED own
    BY <1>1, ZenonT(30) DEF LinkStep
  <2>2. LinkTypeOK'
    <3> USE <1>0 DEF LinkTypeOK, ForwardingTypeOK
    <3>1. ASSUME NEW sh \in Shards, NEW s \in Streams, Bind(sh, s) PROVE LinkTypeOK'
      BY <3>1, ZenonT(30) DEF Bind
    <3>2. ASSUME NEW sh \in Shards, Unbind(sh) PROVE LinkTypeOK'
      BY <3>2, ZenonT(30) DEF Unbind
    <3>3. ASSUME NEW s \in Streams, Break(s) PROVE LinkTypeOK'
      BY <3>3, ZenonT(30) DEF Break
    <3>4. ASSUME Up \/ Down PROVE LinkTypeOK'
      BY <3>4 DEF Up, Down, States
    <3> QED BY <1>1, <3>1, <3>2, <3>3, <3>4, ZenonT(30) DEF LinkStep
  <2> QED BY <1>0, <2>1, <2>2, ZenonT(30) DEF own, ForwardingTypeOK
<1>2. ASSUME NEW c \in Sessions, Route(c) PROVE ForwardingTypeOK'
  <2>1. sent[c] + 1 \in 1 .. Count /\ c \in Senders
    BY <1>2, <1>0, Sizes, Sets DEF Route, ForwardingTypeOK
  <2>2. <<c, sent[c] + 1>> \in Msgs
    BY <2>1, Sets, ZenonT(30)
  <2>3. sent' = [sent EXCEPT ![c] = sent[c] + 1] /\ hand' = [hand EXCEPT ![c] = <<c, sent[c] + 1>>]
    BY <1>2, ZenonT(30) DEF Route
  <2>4. sent' \in [Sessions -> 0 .. Count] /\ hand' \in [Senders -> Msgs \cup {NoMsg}]
    BY <1>0, <2>1, <2>2, <2>3, Sizes DEF ForwardingTypeOK
  <2> QED BY <1>2, <1>0, <2>4, ZenonT(30) DEF ForwardingTypeOK, LinkTypeOK, Route, Go
<1>3. ASSUME NEW c \in Sessions, CheckState(c) PROVE ForwardingTypeOK'
  BY <1>3, <1>0, ZenonT(30) DEF ForwardingTypeOK, LinkTypeOK, CheckState, Go
<1>4. ASSUME NEW c \in Sessions, CheckClosing(c) PROVE ForwardingTypeOK'
  <2>1. c \in Senders
    BY Sets, ZenonT(30)
  <2>2. pc[c] = "closing"
    BY <1>4, ZenonT(30) DEF CheckClosing, Go
  <2>3. <<hand[c]>> \in Seq(Msgs)
    BY <1>0, <2>2, HoldsMsg
  <2>4. Put(<<hand[c]>>) \in [Msgs -> Nat]
    BY <1>0, <2>3, PutType, ZenonT(30) DEF ForwardingTypeOK
  <2> QED BY <1>4, <1>0, <2>1, <2>4, ZenonT(30) DEF ForwardingTypeOK, LinkTypeOK, CheckClosing, Go
<1>5. ASSUME NEW c \in Sessions, EnqueueOffline(c) PROVE ForwardingTypeOK'
  <2>1. c \in Senders /\ pc[c] = "enqueue"
    BY <1>5, Sets, ZenonT(30) DEF EnqueueOffline, Accepted, Go
  <2>2. hand[c] \in Msgs
    BY <1>0, <2>1, HoldsMsg, ZenonT(30)
  <2>3. /\ queue' \in Seq(Msgs) /\ Len(queue') <= QueueMax
        /\ puts' \in [Msgs -> Nat] /\ viaQueue' \subseteq Msgs
    BY <1>5, <1>0, <2>2, EnqueuedTypes, ZenonT(30) DEF EnqueueOffline
  <2> QED BY <1>5, <1>0, <2>1, <2>3, ZenonT(30) DEF ForwardingTypeOK, LinkTypeOK, EnqueueOffline, Accepted, Go
<1>6. ASSUME NEW c \in Sessions, EnqueueRefused(c) PROVE ForwardingTypeOK'
  <2>1. c \in Senders /\ pc[c] = "failed"
    BY <1>6, Sets, ZenonT(30) DEF EnqueueRefused, Accepted, Go
  <2>2. hand[c] \in Msgs
    BY <1>0, <2>1, HoldsMsg, ZenonT(30)
  <2>3. /\ queue' \in Seq(Msgs) /\ Len(queue') <= QueueMax
        /\ puts' \in [Msgs -> Nat] /\ viaQueue' \subseteq Msgs
    BY <1>6, <1>0, <2>2, EnqueuedTypes, ZenonT(30) DEF EnqueueRefused
  <2> QED BY <1>6, <1>0, <2>1, <2>3 DEF ForwardingTypeOK, LinkTypeOK, EnqueueRefused, Accepted, Go
<1>7. ASSUME NEW p \in Senders, CheckClosed(p) PROVE ForwardingTypeOK'
  BY <1>7, <1>0, ZenonT(30) DEF ForwardingTypeOK, LinkTypeOK, CheckClosed, Go
<1>8. ASSUME NEW p \in Senders, Push(p) PROVE ForwardingTypeOK'
  <2>1. hand[p] \in Msgs /\ ShardOf(hand[p]) \in Shards
    BY <1>8, <1>0, HoldsMsg, Sets, ZenonT(30) DEF Push
  <2>2. CASE PushTo(p, "push", ShardOf(hand[p]))
    <3>1. /\ sendCh' \in [Shards -> Seq(Msgs)] /\ \A x \in Shards : Len(sendCh'[x]) <= ChanCap
          /\ pc' = [pc EXCEPT ![p] = "recheck"]
      BY <1>0, <2>1, <2>2, PushTypes, ZenonT(30)
    <3> QED BY <1>8, <1>0, <3>1, ZenonT(30) DEF ForwardingTypeOK, LinkTypeOK, Push
  <2>3. CASE Go(p, "push", "wait") /\ UNCHANGED sendCh
    BY <1>8, <1>0, <2>3, ZenonT(30) DEF ForwardingTypeOK, LinkTypeOK, Push, Go
  <2> QED BY <1>8, <2>2, <2>3, ZenonT(30) DEF Push
<1>9. ASSUME NEW p \in Senders, PushWaiting(p) PROVE ForwardingTypeOK'
  <2>1. hand[p] \in Msgs /\ ShardOf(hand[p]) \in Shards
    BY <1>9, <1>0, HoldsMsg, Sets, ZenonT(30) DEF PushWaiting
  <2>2. CASE PushTo(p, "wait", ShardOf(hand[p]))
    <3>1. /\ sendCh' \in [Shards -> Seq(Msgs)] /\ \A x \in Shards : Len(sendCh'[x]) <= ChanCap
          /\ pc' = [pc EXCEPT ![p] = "recheck"]
      BY <1>0, <2>1, <2>2, PushTypes, ZenonT(30)
    <3> QED BY <1>9, <1>0, <3>1, ZenonT(30) DEF ForwardingTypeOK, LinkTypeOK, PushWaiting
  <2>3. CASE Go(p, "wait", "failed") /\ UNCHANGED sendCh
    BY <1>9, <1>0, <2>3, ZenonT(30) DEF ForwardingTypeOK, LinkTypeOK, PushWaiting, Go
  <2> QED BY <1>9, <2>2, <2>3, ZenonT(30) DEF PushWaiting
<1>10. ASSUME NEW p \in Senders, Recheck(p) PROVE ForwardingTypeOK'
  <2>1. /\ pc' \in [Senders -> {"idle", "start", "closing", "enqueue", "closed", "push", "wait", "recheck",
                                "failed", "dequeue", "check", "direct", "return"}]
        /\ hand' \in [Senders -> Msgs \cup {NoMsg}] /\ failures' \in 0 .. MaxFailures
    <3>1. CASE UNCHANGED <<hand, failures>> /\ Go(p, "recheck", "failed")
      BY <1>0, <3>1, ZenonT(30) DEF ForwardingTypeOK, Go
    <3>2. CASE ShardOK(p, "recheck") /\ p = Flusher
      <4>1. pc' = [pc EXCEPT ![p] = "dequeue"] /\ hand' = [hand EXCEPT ![p] = NoMsg] /\ failures' = 0
        BY <3>2, ZenonT(30) DEF ShardOK, Go
      <4>2. 0 \in 0 .. MaxFailures
        BY Sizes
      <4> QED BY <1>0, <4>1, <4>2, ZenonT(30) DEF ForwardingTypeOK
    <3>3. CASE ShardOK(p, "recheck") /\ p # Flusher
      BY <1>0, <3>3, ZenonT(30) DEF ForwardingTypeOK, ShardOK, Accepted, Go
    <3> QED BY <1>10, <3>1, <3>2, <3>3, ZenonT(30) DEF Recheck
  <2> QED BY <1>10, <1>0, <2>1, ZenonT(30) DEF ForwardingTypeOK, LinkTypeOK, Recheck
<1>11. ASSUME FlushStart PROVE ForwardingTypeOK'
  <2>1. LinkTypeOK' /\ failures' \in 0 .. MaxFailures
    BY <1>11, <1>0, Sizes DEF FlushStart, FlushRuns, ForwardingTypeOK, LinkTypeOK
  <2>2. pc' = pc \/ pc' = [pc EXCEPT ![Flusher] = "dequeue"]
    BY <1>11, ZenonT(30) DEF FlushStart, Go
  <2>3. pc' \in [Senders -> {"idle", "start", "closing", "enqueue", "closed", "push", "wait", "recheck",
                             "failed", "dequeue", "check", "direct", "return"}]
    BY <1>0, <2>2, Sets, ZenonT(30) DEF ForwardingTypeOK
  <2> QED BY <1>11, <1>0, <2>1, <2>3, ZenonT(30) DEF ForwardingTypeOK, FlushStart
<1>12. ASSUME FlushDequeue PROVE ForwardingTypeOK'
  <2>1. queue # <<>> => Head(queue) \in Msgs /\ Tail(queue) \in Seq(Msgs) /\ Len(Tail(queue)) <= QueueMax
    BY <1>0, Sizes DEF ForwardingTypeOK
  <2> QED BY <1>12, <1>0, <2>1, Sets, ZenonT(30) DEF ForwardingTypeOK, LinkTypeOK, FlushDequeue, Go
<1>13. ASSUME FlushCheck PROVE ForwardingTypeOK'
  <2>1. pc[Flusher] = "check"
    BY <1>13, ZenonT(30) DEF FlushCheck, Go
  <2>2. <<hand[Flusher]>> \in Seq(Msgs)
    BY <1>0, <2>1, HoldsMsg DEF Pending
  <2>3. Put(<<hand[Flusher]>>) \in [Msgs -> Nat]
    BY <1>0, <2>2, PutType, ZenonT(30) DEF ForwardingTypeOK
  <2> QED BY <1>13, <1>0, <2>3, Sets, ZenonT(30) DEF ForwardingTypeOK, LinkTypeOK, FlushCheck, Go
<1>14. ASSUME FlushDirect PROVE ForwardingTypeOK'
  BY <1>14, <1>0, ZenonT(30) DEF ForwardingTypeOK, LinkTypeOK, FlushDirect, Go
<1>15. ASSUME FlushRequeue PROVE ForwardingTypeOK'
  <2> DEFINE q == IF Len(queue) >= QueueMax THEN Tail(queue) ELSE queue
  <2>1. pc[Flusher] = "failed" /\ failures < MaxFailures
    BY <1>15, <1>0, ZenonT(30) DEF FlushRequeue, Go, Hands
  <2>2. hand[Flusher] \in Msgs
    BY <1>0, <2>1, HoldsMsg, ZenonT(30) DEF Pending
  <2>3. q \in Seq(Msgs) /\ Len(q) < QueueMax /\ (Len(queue) >= QueueMax => <<Head(queue)>> \in Seq(Msgs))
    BY <1>0, Sizes DEF ForwardingTypeOK
  <2>4. queue' = <<hand[Flusher]>> \o q
    BY <1>15, ZenonT(30) DEF FlushRequeue
  <2>5. queue' \in Seq(Msgs) /\ Len(queue') <= QueueMax
    <3> HIDE DEF q
    <3> QED BY <2>2, <2>3, <2>4, SeqFacts, Sizes
  <2>6. Len(queue) >= QueueMax => Put(<<Head(queue)>>) \in [Msgs -> Nat]
    BY <1>0, <2>3, PutType, ZenonT(30) DEF ForwardingTypeOK
  <2>7. puts' \in [Msgs -> Nat]
    BY <1>15, <1>0, <2>6, ZenonT(30) DEF FlushRequeue, ForwardingTypeOK
  <2>8. failures' = failures + 1 /\ failures \in 0 .. MaxFailures
    BY <1>15, <1>0, ZenonT(30) DEF FlushRequeue, ForwardingTypeOK
  <2>9. failures' \in 0 .. MaxFailures
    BY <2>1, <2>8, Sizes
  <2> HIDE DEF q
  <2> QED BY <1>15, <1>0, <2>5, <2>7, <2>9, Sets, ZenonT(30) DEF ForwardingTypeOK, LinkTypeOK, FlushRequeue, Go
<1>16. ASSUME FlushReturn PROVE ForwardingTypeOK'
  <2>1. failures' \in 0 .. MaxFailures
    BY <1>16, <1>0, Sizes DEF FlushReturn
  <2> QED BY <1>16, <1>0, <2>1, Sets, ZenonT(30) DEF ForwardingTypeOK, LinkTypeOK, FlushReturn, Go
<1>17. ASSUME NEW sh \in Shards, LoopExit(sh) PROVE ForwardingTypeOK'
  BY <1>17, <1>0, ZenonT(30) DEF ForwardingTypeOK, LinkTypeOK, LoopExit, LoopGo
<1>18. ASSUME NEW sh \in Shards, LoopTake(sh) PROVE ForwardingTypeOK'
  <2>1. /\ sendCh[sh] \in Seq(Msgs) /\ Len(sendCh[sh]) <= ChanCap /\ sendCh[sh] # <<>>
        /\ batch[sh] \in Seq(Msgs) /\ Len(batch[sh]) < MaxBatch
    BY <1>18, <1>0, Sizes DEF LoopTake, LoopGo, ForwardingTypeOK, Loops
  <2>2. /\ Tail(sendCh[sh]) \in Seq(Msgs) /\ Len(Tail(sendCh[sh])) <= ChanCap
        /\ Append(batch[sh], Head(sendCh[sh])) \in Seq(Msgs)
        /\ Len(Append(batch[sh], Head(sendCh[sh]))) <= MaxBatch
    BY <2>1, Sizes
  <2>3. /\ sendCh' \in [Shards -> Seq(Msgs)] /\ \A x \in Shards : Len(sendCh'[x]) <= ChanCap
        /\ batch' \in [Shards -> Seq(Msgs)] /\ \A x \in Shards : Len(batch'[x]) <= MaxBatch
    BY <1>18, <1>0, <2>2, ZenonT(30) DEF LoopTake, ForwardingTypeOK
  <2>4. loop' \in [Shards -> {"select", "drain", "read", "send", "exit"}]
    BY <1>18, <1>0, ZenonT(30) DEF LoopTake, LoopGo, ForwardingTypeOK
  <2> QED BY <1>18, <1>0, <2>3, <2>4, ZenonT(30) DEF ForwardingTypeOK, LinkTypeOK, LoopTake
<1>19. ASSUME NEW sh \in Shards, LoopDrained(sh) PROVE ForwardingTypeOK'
  BY <1>19, <1>0, ZenonT(30) DEF ForwardingTypeOK, LinkTypeOK, LoopDrained, LoopGo
<1>20. ASSUME NEW sh \in Shards, LoopRead(sh) PROVE ForwardingTypeOK'
  <2>1. Put(batch[sh]) \in [Msgs -> Nat]
    BY <1>0, PutType, ZenonT(30) DEF ForwardingTypeOK
  <2>2. /\ batch' \in [Shards -> Seq(Msgs)] /\ \A x \in Shards : Len(batch'[x]) <= MaxBatch
    <3>1. CASE UNCHANGED batch
      BY <1>0, <3>1, ZenonT(30) DEF ForwardingTypeOK
    <3>2. CASE batch' = [batch EXCEPT ![sh] = <<>>]
      BY <1>0, <3>2, Sizes DEF ForwardingTypeOK
    <3> QED BY <1>20, <3>1, <3>2, ZenonT(30) DEF LoopRead
  <2> QED BY <1>20, <1>0, <2>1, <2>2, ZenonT(30) DEF ForwardingTypeOK, LinkTypeOK, LoopRead, LoopGo
<1>21. ASSUME NEW sh \in Shards, LoopSendOK(sh) PROVE ForwardingTypeOK'
  <2>1. /\ batch' \in [Shards -> Seq(Msgs)] /\ \A x \in Shards : Len(batch'[x]) <= MaxBatch
        /\ puts' \in [Msgs -> Nat] /\ loopStream' \in [Shards -> Streams \cup {NoStream}]
        /\ loop' \in [Shards -> {"select", "drain", "read", "send", "exit"}]
    BY <1>21, <1>0, ReturnTypes, ZenonT(30) DEF LoopSendOK
  <2>2. wire[sh] \o batch[sh] \in Seq(Msgs)
    BY <1>0 DEF ForwardingTypeOK
  <2>3. wire' \in [Shards -> Seq(Msgs)]
    BY <1>21, <1>0, <2>2, ZenonT(30) DEF LoopSendOK, ForwardingTypeOK
  <2> QED BY <1>21, <1>0, <2>1, <2>3, ZenonT(30) DEF ForwardingTypeOK, LinkTypeOK, LoopSendOK
<1>22. ASSUME NEW sh \in Shards, LoopSendFail(sh) PROVE ForwardingTypeOK'
  <2>1. /\ batch' \in [Shards -> Seq(Msgs)] /\ \A x \in Shards : Len(batch'[x]) <= MaxBatch
        /\ puts' \in [Msgs -> Nat] /\ loopStream' \in [Shards -> Streams \cup {NoStream}]
        /\ loop' \in [Shards -> {"select", "drain", "read", "send", "exit"}]
    BY <1>22, <1>0, ReturnTypes, ZenonT(30) DEF LoopSendFail
  <2>2. LinkTypeOK'
    BY <1>22, <1>0, ZenonT(30) DEF LoopSendFail, Unbind, ForwardingTypeOK, LinkTypeOK
  <2> QED BY <1>22, <1>0, <2>1, <2>2, ZenonT(30) DEF ForwardingTypeOK, LoopSendFail
<1>23. ASSUME CloseLock PROVE ForwardingTypeOK'
  BY <1>23, <1>0, ZenonT(30) DEF ForwardingTypeOK, LinkTypeOK, CloseLock, BeginClose
<1>24. ASSUME CloseUnlock PROVE ForwardingTypeOK'
  BY <1>24, <1>0, ZenonT(30) DEF ForwardingTypeOK, LinkTypeOK, CloseUnlock
<1>25. ASSUME CloseDown PROVE ForwardingTypeOK'
  <2>1. LinkTypeOK'
    BY <1>25, <1>0, ZenonT(30) DEF CloseDown, Down, ForwardingTypeOK, LinkTypeOK, States
  <2> QED BY <1>25, <1>0, <2>1, ZenonT(30) DEF ForwardingTypeOK, CloseDown
<1>26. ASSUME NEW sh \in Shards, CloseStop(sh) PROVE ForwardingTypeOK'
  BY <1>26, <1>0, ZenonT(30) DEF ForwardingTypeOK, LinkTypeOK, CloseStop
<1>27. ASSUME NEW sh \in Shards, CloseDrain(sh) PROVE ForwardingTypeOK'
  <2>1. sendCh[sh] # <<>> => <<Head(sendCh[sh])>> \in Seq(Msgs) /\ Tail(sendCh[sh]) \in Seq(Msgs)
                             /\ Len(Tail(sendCh[sh])) <= ChanCap
    BY <1>0, Sizes DEF ForwardingTypeOK
  <2>2. sendCh[sh] # <<>> => Put(<<Head(sendCh[sh])>>) \in [Msgs -> Nat]
    BY <1>0, <2>1, PutType, ZenonT(30) DEF ForwardingTypeOK
  <2>3. sendCh' \in [Shards -> Seq(Msgs)] /\ \A x \in Shards : Len(sendCh'[x]) <= ChanCap
    BY <1>27, <1>0, <2>1, ZenonT(30) DEF CloseDrain, ForwardingTypeOK
  <2> QED BY <1>27, <1>0, <2>2, <2>3, ZenonT(30) DEF ForwardingTypeOK, LinkTypeOK, CloseDrain
<1> QED
  BY <1>1, <1>2, <1>3, <1>4, <1>5, <1>6, <1>7, <1>8, <1>9, <1>10, <1>11, <1>12, <1>13, <1>14, <1>15, <1>16, <1>17, <1>18, <1>19, <1>20, <1>21, <1>22, <1>23, <1>24, <1>25, <1>26, <1>27, ZenonT(30)
     DEF ForwardingNext, SessionStep, SenderStep, FlushStep, LoopStep, CloseStep

\* Every step keeps what the senders hold.
LEMMA HandsStep ==
  ASSUME Frame, ForwardingNext
  PROVE  Hands'
<1> USE DEF linkVars
<1>0. ForwardingTypeOK /\ Hands
  BY ZenonT(30) DEF Frame
<1>1. ASSUME LinkStep PROVE Hands'
  BY <1>1, <1>0, ZenonT(30) DEF LinkStep, own, Hands
<1>2. ASSUME NEW c \in Sessions, Route(c) PROVE Hands'
  <2>1. /\ pc[c] = "idle" /\ pc' = [pc EXCEPT ![c] = "start"] /\ sent' = [sent EXCEPT ![c] = sent[c] + 1]
        /\ hand' = [hand EXCEPT ![c] = <<c, sent[c] + 1>>] /\ UNCHANGED failures
    BY <1>2, ZenonT(30) DEF Route, Go
  <2>2. c \in Senders /\ c # Flusher /\ sent[c] \in Nat
    BY <1>0, Sets DEF ForwardingTypeOK
  <2>3. pc'[c] = "start" /\ hand'[c] = <<c, sent'[c]>> /\ sent'[c] > 0
    BY <1>0, <2>1, <2>2 DEF ForwardingTypeOK
  <2>4. \A d \in Sessions : d # c => pc'[d] = pc[d] /\ hand'[d] = hand[d] /\ sent'[d] = sent[d]
    BY <1>0, <2>1, Sets, ZenonT(30) DEF ForwardingTypeOK
  <2>5. pc'[Flusher] = pc[Flusher] /\ hand'[Flusher] = hand[Flusher]
    BY <1>0, <2>1, <2>2, Sets, ZenonT(30) DEF ForwardingTypeOK
  <2> QED BY <1>0, <2>1, <2>3, <2>4, <2>5 DEF Hands
<1>3. ASSUME NEW c \in Sessions, CheckState(c) PROVE Hands'
  <2>1. \E to \in {"closed", "closing"} : pc[c] = "start" /\ pc' = [pc EXCEPT ![c] = to]
    BY <1>3, ZenonT(30) DEF CheckState, Go
  <2> QED BY <1>3, <1>0, <2>1, Sets DEF CheckState, Hands, ForwardingTypeOK
<1>4. ASSUME NEW c \in Sessions, CheckClosing(c) PROVE Hands'
  <2>1. \/ pc' = [pc EXCEPT ![c] = "idle"] /\ hand' = [hand EXCEPT ![c] = NoMsg]
        \/ pc' = [pc EXCEPT ![c] = "enqueue"] /\ UNCHANGED hand
    BY <1>4, ZenonT(30) DEF CheckClosing, Go
  <2>2. pc[c] = "closing" /\ UNCHANGED <<sent, failures>>
    BY <1>4, ZenonT(30) DEF CheckClosing, Go
  <2>3. \A d \in Senders \ {c} : pc'[d] = pc[d] /\ hand'[d] = hand[d]
    BY <1>0, <2>1, ZenonT(30) DEF ForwardingTypeOK
  <2>4. \/ pc'[c] = "idle" /\ hand'[c] = NoMsg
        \/ pc'[c] = "enqueue" /\ hand'[c] = hand[c]
    BY <1>0, <2>1, Sets, ZenonT(30) DEF ForwardingTypeOK
  <2> QED BY <1>0, <2>2, <2>3, <2>4, Sets, ZenonT(30) DEF Hands
<1>5. ASSUME NEW c \in Sessions, EnqueueOffline(c) PROVE Hands'
  <2>1. /\ pc' = [pc EXCEPT ![c] = "idle"] /\ hand' = [hand EXCEPT ![c] = NoMsg]
        /\ UNCHANGED <<sent, failures>>
    BY <1>5, ZenonT(30) DEF EnqueueOffline, Accepted, Go
  <2> QED BY <1>0, <2>1, Sets DEF Hands, ForwardingTypeOK
<1>6. ASSUME NEW c \in Sessions, EnqueueRefused(c) PROVE Hands'
  <2>1. /\ pc' = [pc EXCEPT ![c] = "idle"] /\ hand' = [hand EXCEPT ![c] = NoMsg]
        /\ UNCHANGED <<sent, failures>>
    BY <1>6, ZenonT(30) DEF EnqueueRefused, Accepted, Go
  <2> QED BY <1>0, <2>1, Sets DEF Hands, ForwardingTypeOK
<1>7. ASSUME NEW p \in Senders, CheckClosed(p) PROVE Hands'
  <2>1. \E to \in {"failed", "push"} : pc[p] = "closed" /\ pc' = [pc EXCEPT ![p] = to]
    BY <1>7, ZenonT(30) DEF CheckClosed, Go
  <2>2. UNCHANGED <<hand, sent, failures>>
    BY <1>7, ZenonT(30) DEF CheckClosed
  <2> QED BY <1>0, <2>1, <2>2, Sets, ZenonT(30) DEF Hands, Pending, ForwardingTypeOK, Senders
<1>8. ASSUME NEW p \in Senders, Push(p) PROVE Hands'
  <2>1. \E to \in {"recheck", "wait"} : pc[p] = "push" /\ pc' = [pc EXCEPT ![p] = to]
    BY <1>8, ZenonT(30) DEF Push, PushTo, Go
  <2>2. UNCHANGED <<hand, sent, failures>>
    BY <1>8, ZenonT(30) DEF Push
  <2> QED BY <1>0, <2>1, <2>2, Sets, ZenonT(30) DEF Hands, Pending, ForwardingTypeOK, Senders
<1>9. ASSUME NEW p \in Senders, PushWaiting(p) PROVE Hands'
  <2>1. \E to \in {"recheck", "failed"} : pc[p] = "wait" /\ pc' = [pc EXCEPT ![p] = to]
    BY <1>9, ZenonT(30) DEF PushWaiting, PushTo, Go
  <2>2. UNCHANGED <<hand, sent, failures>>
    BY <1>9, ZenonT(30) DEF PushWaiting
  <2> QED BY <1>0, <2>1, <2>2, Sets, ZenonT(30) DEF Hands, Pending, ForwardingTypeOK, Senders
<1>10. ASSUME NEW p \in Senders, Recheck(p) PROVE Hands'
  <2>1. pc[p] = "recheck" /\ UNCHANGED sent
    BY <1>10, ZenonT(30) DEF Recheck
  <2>2. \/ pc' = [pc EXCEPT ![p] = "failed"] /\ UNCHANGED <<hand, failures>>
        \/ /\ p = Flusher /\ pc' = [pc EXCEPT ![p] = "dequeue"] /\ hand' = [hand EXCEPT ![p] = NoMsg]
           /\ failures' = 0
        \/ /\ p # Flusher /\ pc' = [pc EXCEPT ![p] = "idle"] /\ hand' = [hand EXCEPT ![p] = NoMsg]
           /\ UNCHANGED failures
    BY <1>10, ZenonT(30) DEF Recheck, ShardOK, Accepted, Go
  <2>3. CASE p = Flusher
    BY <1>0, <2>1, <2>2, <2>3, Sets, Sizes DEF Hands, Pending, ForwardingTypeOK
  <2>4. CASE p # Flusher
    BY <1>0, <2>1, <2>2, <2>4, Sets, ZenonT(30) DEF Hands, Pending, ForwardingTypeOK, Senders
  <2> QED BY <2>3, <2>4, ZenonT(30)
<1>11. ASSUME FlushStart PROVE Hands'
  <2>1. \/ pc[Flusher] = "idle" /\ pc' = [pc EXCEPT ![Flusher] = "dequeue"] /\ failures' = 0
        \/ UNCHANGED <<pc, failures>>
    BY <1>11, ZenonT(30) DEF FlushStart, Go
  <2>2. UNCHANGED <<hand, sent>>
    BY <1>11, ZenonT(30) DEF FlushStart
  <2>3. CASE UNCHANGED <<pc, failures>>
    BY <1>0, <2>2, <2>3, ZenonT(30) DEF Hands
  <2>4. CASE pc[Flusher] = "idle" /\ pc' = [pc EXCEPT ![Flusher] = "dequeue"] /\ failures' = 0
    <3>1. pc'[Flusher] = "dequeue" /\ \A c \in Sessions : pc'[c] = pc[c]
      BY <1>0, <2>4, Sets, ZenonT(30) DEF ForwardingTypeOK
    <3>2. 0 < MaxFailures
      BY Sizes
    <3> QED BY <1>0, <2>2, <2>4, <3>1, <3>2, ZenonT(30) DEF Hands, Pending
  <2> QED BY <2>1, <2>3, <2>4, ZenonT(30)
<1>12. ASSUME FlushDequeue PROVE Hands'
  <2>1. pc[Flusher] = "dequeue" /\ UNCHANGED <<sent, failures>>
    BY <1>12, ZenonT(30) DEF FlushDequeue, Go
  <2>2. \/ pc' = [pc EXCEPT ![Flusher] = "return"] /\ UNCHANGED hand
        \/ /\ queue # <<>> /\ pc' = [pc EXCEPT ![Flusher] = "check"]
           /\ hand' = [hand EXCEPT ![Flusher] = Head(queue)]
    BY <1>12, ZenonT(30) DEF FlushDequeue, Go
  <2>3. queue # <<>> => Head(queue) \in Msgs /\ Head(queue) # NoMsg
    <3>1. queue # <<>> => Head(queue) \in Msgs
      BY <1>0 DEF ForwardingTypeOK
    <3> QED BY <3>1, Sets, ZenonT(30)
  <2> QED BY <1>0, <2>1, <2>2, <2>3, Sets DEF Hands, Pending, ForwardingTypeOK
<1>13. ASSUME FlushCheck PROVE Hands'
  <2>1. pc[Flusher] = "check" /\ UNCHANGED <<sent, failures>>
    BY <1>13, ZenonT(30) DEF FlushCheck, Go
  <2>2. \/ pc' = [pc EXCEPT ![Flusher] = "return"] /\ hand' = [hand EXCEPT ![Flusher] = NoMsg]
        \/ \E to \in {"direct", "failed"} : pc' = [pc EXCEPT ![Flusher] = to] /\ UNCHANGED hand
    BY <1>13, ZenonT(30) DEF FlushCheck, Go
  <2> QED BY <1>0, <2>1, <2>2, Sets DEF Hands, Pending, ForwardingTypeOK
<1>14. ASSUME FlushDirect PROVE Hands'
  <2>1. /\ pc[Flusher] = "direct" /\ UNCHANGED <<hand, sent, failures>>
        /\ \E to \in {"failed", "closed"} : pc' = [pc EXCEPT ![Flusher] = to]
    BY <1>14, ZenonT(30) DEF FlushDirect, Go
  <2> QED BY <1>0, <2>1, Sets, ZenonT(30) DEF Hands, Pending, ForwardingTypeOK
<1>15. ASSUME FlushRequeue PROVE Hands'
  <2>1. /\ pc[Flusher] = "failed" /\ hand' = [hand EXCEPT ![Flusher] = NoMsg] /\ UNCHANGED sent
        /\ failures' = failures + 1
        /\ pc' = [pc EXCEPT ![Flusher] = IF failures + 1 < MaxFailures THEN "dequeue" ELSE "return"]
    BY <1>15, ZenonT(30) DEF FlushRequeue, Go
  <2> QED BY <1>0, <2>1, Sets, Sizes DEF Hands, Pending, ForwardingTypeOK
<1>16. ASSUME FlushReturn PROVE Hands'
  <2>1. /\ pc[Flusher] = "return" /\ pc' = [pc EXCEPT ![Flusher] = "idle"] /\ UNCHANGED <<hand, sent>>
        /\ failures' = 0
    BY <1>16, ZenonT(30) DEF FlushReturn, Go
  <2> QED BY <1>0, <2>1, Sets, Sizes DEF Hands, Pending, ForwardingTypeOK
<1>17. ASSUME NEW sh \in Shards, LoopExit(sh) PROVE Hands'
  BY <1>17, <1>0, ZenonT(30) DEF LoopExit, Hands
<1>18. ASSUME NEW sh \in Shards, LoopTake(sh) PROVE Hands'
  BY <1>18, <1>0, ZenonT(30) DEF LoopTake, Hands
<1>19. ASSUME NEW sh \in Shards, LoopDrained(sh) PROVE Hands'
  BY <1>19, <1>0, ZenonT(30) DEF LoopDrained, Hands
<1>20. ASSUME NEW sh \in Shards, LoopRead(sh) PROVE Hands'
  BY <1>20, <1>0, ZenonT(30) DEF LoopRead, Hands
<1>21. ASSUME NEW sh \in Shards, LoopSendOK(sh) PROVE Hands'
  BY <1>21, <1>0, ZenonT(30) DEF LoopSendOK, Hands
<1>22. ASSUME NEW sh \in Shards, LoopSendFail(sh) PROVE Hands'
  BY <1>22, <1>0, ZenonT(30) DEF LoopSendFail, Hands
<1>23. ASSUME CloseLock PROVE Hands'
  BY <1>23, <1>0, ZenonT(30) DEF CloseLock, Hands
<1>24. ASSUME CloseUnlock PROVE Hands'
  BY <1>24, <1>0, ZenonT(30) DEF CloseUnlock, Hands
<1>25. ASSUME CloseDown PROVE Hands'
  BY <1>25, <1>0, ZenonT(30) DEF CloseDown, Hands
<1>26. ASSUME NEW sh \in Shards, CloseStop(sh) PROVE Hands'
  BY <1>26, <1>0, ZenonT(30) DEF CloseStop, Hands
<1>27. ASSUME NEW sh \in Shards, CloseDrain(sh) PROVE Hands'
  BY <1>27, <1>0, ZenonT(30) DEF CloseDrain, Hands
<1> QED
  BY <1>1, <1>2, <1>3, <1>4, <1>5, <1>6, <1>7, <1>8, <1>9, <1>10, <1>11, <1>12, <1>13, <1>14, <1>15, <1>16, <1>17, <1>18, <1>19, <1>20, <1>21, <1>22, <1>23, <1>24, <1>25, <1>26, <1>27, ZenonT(30)
     DEF ForwardingNext, SessionStep, SenderStep, FlushStep, LoopStep, CloseStep

\* Every step keeps what the send loops have.
LEMMA LoopsStep ==
  ASSUME Frame, ForwardingNext
  PROVE  Loops'
<1> USE DEF linkVars
<1>0. ForwardingTypeOK /\ Hands /\ Loops
  BY ZenonT(30) DEF Frame
<1>1. ASSUME LinkStep PROVE Loops'
  BY <1>1, <1>0, ZenonT(30) DEF LinkStep, own, Loops
<1>2. ASSUME NEW c \in Sessions, Route(c) PROVE Loops'
  BY <1>2, <1>0, ZenonT(30) DEF Route, Loops, ShardOf
<1>3. ASSUME NEW c \in Sessions, CheckState(c) PROVE Loops'
  BY <1>3, <1>0, ZenonT(30) DEF CheckState, Loops, ShardOf
<1>4. ASSUME NEW c \in Sessions, CheckClosing(c) PROVE Loops'
  BY <1>4, <1>0, ZenonT(30) DEF CheckClosing, Loops, ShardOf
<1>5. ASSUME NEW c \in Sessions, EnqueueOffline(c) PROVE Loops'
  BY <1>5, <1>0, ZenonT(30) DEF EnqueueOffline, Loops, ShardOf
<1>6. ASSUME NEW c \in Sessions, EnqueueRefused(c) PROVE Loops'
  BY <1>6, <1>0, ZenonT(30) DEF EnqueueRefused, Loops, ShardOf
<1>7. ASSUME NEW p \in Senders, CheckClosed(p) PROVE Loops'
  BY <1>7, <1>0, ZenonT(30) DEF CheckClosed, Loops, ShardOf
<1>8. ASSUME NEW p \in Senders, Push(p) PROVE Loops'
  <2>1. hand[p] \in Msgs /\ ShardOf(hand[p]) \in Shards
    BY <1>8, <1>0, HoldsMsg, Sets, ZenonT(30) DEF Push
  <2>2. UNCHANGED <<loop, batch>>
    BY <1>8, ZenonT(30) DEF Push
  <2>3. UNCHANGED sendCh \/ sendCh' = [sendCh EXCEPT ![ShardOf(hand[p])] = Append(sendCh[ShardOf(hand[p])], hand[p])]
    BY <1>8, ZenonT(30) DEF Push, PushTo
  <2>4. ASSUME NEW sh \in Shards
        PROVE  \A i \in 1 .. Len(sendCh'[sh]) : ShardOf(sendCh'[sh][i]) = sh
    <3> DEFINE s == sendCh[sh]
               t == Append(s, hand[p])
    <3>1. s \in Seq(Msgs) /\ \A i \in 1 .. Len(s) : ShardOf(s[i]) = sh
      BY <1>0, ZenonT(30) DEF Loops, ForwardingTypeOK
    <3>2. sendCh'[sh] = s \/ (ShardOf(hand[p]) = sh /\ sendCh'[sh] = t)
      BY <1>0, <2>1, <2>3, ZenonT(30) DEF ForwardingTypeOK
    <3> HIDE DEF s
    <3>3. \A i \in 1 .. Len(t) : t[i] = IF i <= Len(s) THEN s[i] ELSE hand[p]
      BY <2>1, <3>1
    <3>4. \A i \in 1 .. Len(t) : i <= Len(s) => i \in 1 .. Len(s)
      BY <3>1
    <3> HIDE DEF t
    <3> QED BY <3>1, <3>2, <3>3, <3>4, ZenonT(30)
  <2> QED BY <1>0, <2>2, <2>4, ZenonT(30) DEF Loops, ShardOf
<1>9. ASSUME NEW p \in Senders, PushWaiting(p) PROVE Loops'
  <2>1. hand[p] \in Msgs /\ ShardOf(hand[p]) \in Shards
    BY <1>9, <1>0, HoldsMsg, Sets, ZenonT(30) DEF PushWaiting
  <2>2. UNCHANGED <<loop, batch>>
    BY <1>9, ZenonT(30) DEF PushWaiting
  <2>3. UNCHANGED sendCh \/ sendCh' = [sendCh EXCEPT ![ShardOf(hand[p])] = Append(sendCh[ShardOf(hand[p])], hand[p])]
    BY <1>9, ZenonT(30) DEF PushWaiting, PushTo
  <2>4. ASSUME NEW sh \in Shards
        PROVE  \A i \in 1 .. Len(sendCh'[sh]) : ShardOf(sendCh'[sh][i]) = sh
    <3> DEFINE s == sendCh[sh]
               t == Append(s, hand[p])
    <3>1. s \in Seq(Msgs) /\ \A i \in 1 .. Len(s) : ShardOf(s[i]) = sh
      BY <1>0, ZenonT(30) DEF Loops, ForwardingTypeOK
    <3>2. sendCh'[sh] = s \/ (ShardOf(hand[p]) = sh /\ sendCh'[sh] = t)
      BY <1>0, <2>1, <2>3, ZenonT(30) DEF ForwardingTypeOK
    <3> HIDE DEF s
    <3>3. \A i \in 1 .. Len(t) : t[i] = IF i <= Len(s) THEN s[i] ELSE hand[p]
      BY <2>1, <3>1
    <3>4. \A i \in 1 .. Len(t) : i <= Len(s) => i \in 1 .. Len(s)
      BY <3>1
    <3> HIDE DEF t
    <3> QED BY <3>1, <3>2, <3>3, <3>4, ZenonT(30)
  <2> QED BY <1>0, <2>2, <2>4, ZenonT(30) DEF Loops, ShardOf
<1>10. ASSUME NEW p \in Senders, Recheck(p) PROVE Loops'
  BY <1>10, <1>0, ZenonT(30) DEF Recheck, Loops, ShardOf
<1>11. ASSUME FlushStart PROVE Loops'
  BY <1>11, <1>0, ZenonT(30) DEF FlushStart, Loops, ShardOf
<1>12. ASSUME FlushDequeue PROVE Loops'
  BY <1>12, <1>0, ZenonT(30) DEF FlushDequeue, Loops, ShardOf
<1>13. ASSUME FlushCheck PROVE Loops'
  BY <1>13, <1>0, ZenonT(30) DEF FlushCheck, Loops, ShardOf
<1>14. ASSUME FlushDirect PROVE Loops'
  BY <1>14, <1>0, ZenonT(30) DEF FlushDirect, Loops, ShardOf
<1>15. ASSUME FlushRequeue PROVE Loops'
  BY <1>15, <1>0, ZenonT(30) DEF FlushRequeue, Loops, ShardOf
<1>16. ASSUME FlushReturn PROVE Loops'
  BY <1>16, <1>0, ZenonT(30) DEF FlushReturn, Loops, ShardOf
<1>17. ASSUME NEW sh \in Shards, LoopExit(sh) PROVE Loops'
  <2>1. UNCHANGED <<sendCh, batch>> /\ loop[sh] = "select" /\ loop' = [loop EXCEPT ![sh] = "exit"]
    BY <1>17, ZenonT(30) DEF LoopExit, LoopGo
  <2> QED BY <1>0, <2>1, ZenonT(30) DEF Loops, ShardOf, ForwardingTypeOK
<1>18. ASSUME NEW sh \in Shards, LoopTake(sh) PROVE Loops'
  <2> DEFINE b == Append(batch[sh], Head(sendCh[sh]))
             t == Tail(sendCh[sh])
  <2>1. /\ sendCh[sh] # <<>> /\ loop[sh] \in {"select", "drain"}
        /\ batch' = [batch EXCEPT ![sh] = b] /\ sendCh' = [sendCh EXCEPT ![sh] = t]
        /\ loop' = [loop EXCEPT ![sh] = IF Len(batch[sh]) + 1 < MaxBatch THEN "drain" ELSE "read"]
    <3>1. loop[sh] = "select" => Len(batch[sh]) = 0
      BY <1>0 DEF Loops
    <3> QED BY <1>18, <1>0, <3>1, Sizes DEF LoopTake, LoopGo
  <2>2. /\ Len(b) = Len(batch[sh]) + 1 /\ Len(b) \in Nat
        /\ \A i \in 1 .. Len(b) : ShardOf(b[i]) = sh
        /\ \A i \in 1 .. Len(t) : ShardOf(t[i]) = sh
    BY <1>0, <2>1 DEF Loops, ForwardingTypeOK
  <2> HIDE DEF b, t
  <2>3. ASSUME NEW x \in Shards, x # sh
        PROVE  loop'[x] = loop[x] /\ batch'[x] = batch[x] /\ sendCh'[x] = sendCh[x]
    BY <1>0, <2>1, <2>3, ZenonT(30) DEF ForwardingTypeOK
  <2>4. batch'[sh] = b /\ sendCh'[sh] = t /\ loop'[sh] = IF Len(b) < MaxBatch THEN "drain" ELSE "read"
    BY <1>0, <2>1, <2>2, ZenonT(30) DEF ForwardingTypeOK
  <2> QED BY <1>0, <2>2, <2>3, <2>4 DEF Loops, ShardOf
<1>19. ASSUME NEW sh \in Shards, LoopDrained(sh) PROVE Loops'
  <2>1. UNCHANGED <<sendCh, batch>> /\ loop' = [loop EXCEPT ![sh] = "read"]
    BY <1>19, ZenonT(30) DEF LoopDrained, LoopGo
  <2>2. loop'[sh] = "read" /\ \A x \in Shards \ {sh} : loop'[x] = loop[x]
    BY <1>0, <2>1, ZenonT(30) DEF ForwardingTypeOK
  <2> QED BY <1>0, <2>1, <2>2, ZenonT(30) DEF Loops, ShardOf
<1>20. ASSUME NEW sh \in Shards, LoopRead(sh) PROVE Loops'
  <2>1. UNCHANGED sendCh
    BY <1>20, ZenonT(30) DEF LoopRead
  <2>2. \/ loop' = [loop EXCEPT ![sh] = "select"] /\ batch' = [batch EXCEPT ![sh] = <<>>]
        \/ loop' = [loop EXCEPT ![sh] = "send"] /\ UNCHANGED batch
    BY <1>20, ZenonT(30) DEF LoopRead, LoopGo
  <2> QED BY <1>0, <2>1, <2>2, Sizes DEF Loops, ShardOf, ForwardingTypeOK
<1>21. ASSUME NEW sh \in Shards, LoopSendOK(sh) PROVE Loops'
  <2>1. /\ UNCHANGED sendCh
        /\ loop' = [loop EXCEPT ![sh] = "select"] /\ batch' = [batch EXCEPT ![sh] = <<>>]
    BY <1>21, ZenonT(30) DEF LoopSendOK, LoopReturn, LoopGo
  <2> QED BY <1>0, <2>1, Sizes DEF Loops, ShardOf, ForwardingTypeOK
<1>22. ASSUME NEW sh \in Shards, LoopSendFail(sh) PROVE Loops'
  <2>1. /\ UNCHANGED sendCh
        /\ loop' = [loop EXCEPT ![sh] = "select"] /\ batch' = [batch EXCEPT ![sh] = <<>>]
    BY <1>22, ZenonT(30) DEF LoopSendFail, LoopReturn, LoopGo
  <2> QED BY <1>0, <2>1, Sizes DEF Loops, ShardOf, ForwardingTypeOK
<1>23. ASSUME CloseLock PROVE Loops'
  BY <1>23, <1>0, ZenonT(30) DEF CloseLock, Loops, ShardOf
<1>24. ASSUME CloseUnlock PROVE Loops'
  BY <1>24, <1>0, ZenonT(30) DEF CloseUnlock, Loops, ShardOf
<1>25. ASSUME CloseDown PROVE Loops'
  BY <1>25, <1>0, ZenonT(30) DEF CloseDown, Loops, ShardOf
<1>26. ASSUME NEW sh \in Shards, CloseStop(sh) PROVE Loops'
  BY <1>26, <1>0, ZenonT(30) DEF CloseStop, Loops, ShardOf
<1>27. ASSUME NEW sh \in Shards, CloseDrain(sh) PROVE Loops'
  <2>1. UNCHANGED <<loop, batch>>
    BY <1>27, ZenonT(30) DEF CloseDrain
  <2>2. UNCHANGED sendCh \/ (sendCh[sh] # <<>> /\ sendCh' = [sendCh EXCEPT ![sh] = Tail(sendCh[sh])])
    BY <1>27, ZenonT(30) DEF CloseDrain
  <2>3. ASSUME NEW x \in Shards
        PROVE  \A i \in 1 .. Len(sendCh'[x]) : ShardOf(sendCh'[x][i]) = x
    <3> DEFINE s == sendCh[x]
    <3>1. s \in Seq(Msgs) /\ \A i \in 1 .. Len(s) : ShardOf(s[i]) = x
      BY <1>0, ZenonT(30) DEF Loops, ForwardingTypeOK
    <3>2. sendCh'[x] = s \/ (s # <<>> /\ sendCh'[x] = Tail(s))
      BY <1>0, <2>2, ZenonT(30) DEF ForwardingTypeOK
    <3> HIDE DEF s
    <3> QED BY <3>1, <3>2
  <2> QED BY <1>0, <2>1, <2>3, ZenonT(30) DEF Loops, ShardOf
<1> QED
  BY <1>1, <1>2, <1>3, <1>4, <1>5, <1>6, <1>7, <1>8, <1>9, <1>10, <1>11, <1>12, <1>13, <1>14, <1>15, <1>16, <1>17, <1>18, <1>19, <1>20, <1>21, <1>22, <1>23, <1>24, <1>25, <1>26, <1>27, ZenonT(30)
     DEF ForwardingNext, SessionStep, SenderStep, FlushStep, LoopStep, CloseStep

\* Every step keeps the link between closing and Close.
LEMMA OpenStep ==
  ASSUME Frame, ForwardingNext
  PROVE  Open'
<1> USE DEF linkVars
<1>0. Open
  BY ZenonT(30) DEF Frame
<1>1. ASSUME LinkStep PROVE Open'
  BY <1>1, <1>0 DEF LinkStep, Bind, Unbind, Break, Up, Down, own, Open
<1>2. ASSUME NEW c \in Sessions, Route(c) PROVE Open'
  BY <1>2, <1>0, ZenonT(30) DEF Route, Open
<1>3. ASSUME NEW c \in Sessions, CheckState(c) PROVE Open'
  BY <1>3, <1>0, ZenonT(30) DEF CheckState, Open
<1>4. ASSUME NEW c \in Sessions, CheckClosing(c) PROVE Open'
  BY <1>4, <1>0, ZenonT(30) DEF CheckClosing, Open
<1>5. ASSUME NEW c \in Sessions, EnqueueOffline(c) PROVE Open'
  BY <1>5, <1>0, ZenonT(30) DEF EnqueueOffline, Open
<1>6. ASSUME NEW c \in Sessions, EnqueueRefused(c) PROVE Open'
  BY <1>6, <1>0, ZenonT(30) DEF EnqueueRefused, Open
<1>7. ASSUME NEW p \in Senders, CheckClosed(p) PROVE Open'
  BY <1>7, <1>0, ZenonT(30) DEF CheckClosed, Open
<1>8. ASSUME NEW p \in Senders, Push(p) PROVE Open'
  BY <1>8, <1>0, ZenonT(30) DEF Push, Open
<1>9. ASSUME NEW p \in Senders, PushWaiting(p) PROVE Open'
  BY <1>9, <1>0, ZenonT(30) DEF PushWaiting, Open
<1>10. ASSUME NEW p \in Senders, Recheck(p) PROVE Open'
  BY <1>10, <1>0, ZenonT(30) DEF Recheck, Open
<1>11. ASSUME FlushStart PROVE Open'
  BY <1>11, <1>0, ZenonT(30) DEF FlushStart, FlushRuns, Open
<1>12. ASSUME FlushDequeue PROVE Open'
  BY <1>12, <1>0, ZenonT(30) DEF FlushDequeue, Open
<1>13. ASSUME FlushCheck PROVE Open'
  BY <1>13, <1>0, ZenonT(30) DEF FlushCheck, Open
<1>14. ASSUME FlushDirect PROVE Open'
  BY <1>14, <1>0, ZenonT(30) DEF FlushDirect, Open
<1>15. ASSUME FlushRequeue PROVE Open'
  BY <1>15, <1>0, ZenonT(30) DEF FlushRequeue, Open
<1>16. ASSUME FlushReturn PROVE Open'
  BY <1>16, <1>0, ZenonT(30) DEF FlushReturn, Open
<1>17. ASSUME NEW sh \in Shards, LoopExit(sh) PROVE Open'
  BY <1>17, <1>0, ZenonT(30) DEF LoopExit, Open
<1>18. ASSUME NEW sh \in Shards, LoopTake(sh) PROVE Open'
  BY <1>18, <1>0, ZenonT(30) DEF LoopTake, Open
<1>19. ASSUME NEW sh \in Shards, LoopDrained(sh) PROVE Open'
  BY <1>19, <1>0, ZenonT(30) DEF LoopDrained, Open
<1>20. ASSUME NEW sh \in Shards, LoopRead(sh) PROVE Open'
  BY <1>20, <1>0, ZenonT(30) DEF LoopRead, Open
<1>21. ASSUME NEW sh \in Shards, LoopSendOK(sh) PROVE Open'
  BY <1>21, <1>0, ZenonT(30) DEF LoopSendOK, Open
<1>22. ASSUME NEW sh \in Shards, LoopSendFail(sh) PROVE Open'
  BY <1>22, <1>0 DEF LoopSendFail, Unbind, Open
<1>23. ASSUME CloseLock PROVE Open'
  BY <1>23, <1>0, ZenonT(30) DEF CloseLock, BeginClose, Open
<1>24. ASSUME CloseUnlock PROVE Open'
  BY <1>24, <1>0, ZenonT(30) DEF CloseUnlock, Open
<1>25. ASSUME CloseDown PROVE Open'
  BY <1>25, <1>0, ZenonT(30) DEF CloseDown, Down, Open
<1>26. ASSUME NEW sh \in Shards, CloseStop(sh) PROVE Open'
  BY <1>26, <1>0, ZenonT(30) DEF CloseStop, Open
<1>27. ASSUME NEW sh \in Shards, CloseDrain(sh) PROVE Open'
  BY <1>27, <1>0, ZenonT(30) DEF CloseDrain, Open
<1> QED
  BY <1>1, <1>2, <1>3, <1>4, <1>5, <1>6, <1>7, <1>8, <1>9, <1>10, <1>11, <1>12, <1>13, <1>14, <1>15, <1>16, <1>17, <1>18, <1>19, <1>20, <1>21, <1>22, <1>23, <1>24, <1>25, <1>26, <1>27, ZenonT(30)
     DEF ForwardingNext, SessionStep, SenderStep, FlushStep, LoopStep, CloseStep

\* What is queued has seen the queue.
LEMMA EnqueuedAre ==
  ASSUME ForwardingTypeOK, NEW m \in Msgs, Enqueued(m), \A i \in 1 .. Len(queue) : queue[i] \in viaQueue
  PROVE  viaQueue \subseteq viaQueue' /\ \A i \in 1 .. Len(queue') : queue'[i] \in viaQueue'
<1> DEFINE q == IF Len(queue) >= QueueMax THEN Tail(queue) ELSE queue
<1>1. queue' = Append(q, m) /\ viaQueue' = viaQueue \cup {m}
  BY ZenonT(30) DEF Enqueued
<1>2. q \in Seq(Msgs) /\ \A i \in 1 .. Len(q) : q[i] \in viaQueue
  BY Sizes DEF ForwardingTypeOK
<1> HIDE DEF q
<1> QED BY <1>1, <1>2

\* Every step keeps what the queue has seen.
LEMMA QueuedStep ==
  ASSUME Frame, ForwardingNext
  PROVE  Queued'
<1> USE DEF linkVars
<1>0. ForwardingTypeOK /\ Hands /\ Queued
  BY ZenonT(30) DEF Frame
<1>1. ASSUME LinkStep PROVE Queued'
  BY <1>1, <1>0, ZenonT(30) DEF LinkStep, own, Queued
<1>2. ASSUME NEW c \in Sessions, Route(c) PROVE Queued'
  <2>1. hand'[Flusher] = hand[Flusher]
    BY <1>2, <1>0, Sets, ZenonT(30) DEF Route, ForwardingTypeOK
  <2> QED BY <1>2, <1>0, <2>1, ZenonT(30) DEF Route, Queued
<1>3. ASSUME NEW c \in Sessions, CheckState(c) PROVE Queued'
  BY <1>3, <1>0, ZenonT(30) DEF CheckState, Queued
<1>4. ASSUME NEW c \in Sessions, CheckClosing(c) PROVE Queued'
  <2>1. hand'[Flusher] = hand[Flusher]
    BY <1>4, <1>0, Sets, ZenonT(30) DEF CheckClosing, ForwardingTypeOK
  <2> QED BY <1>4, <1>0, <2>1, ZenonT(30) DEF CheckClosing, Queued
<1>5. ASSUME NEW c \in Sessions, EnqueueOffline(c) PROVE Queued'
  <2>1. hand'[Flusher] = hand[Flusher]
    BY <1>5, <1>0, Sets, ZenonT(30) DEF EnqueueOffline, Accepted, ForwardingTypeOK
  <2>2. pc[c] = "enqueue" /\ Enqueued(hand[c])
    BY <1>5, ZenonT(30) DEF EnqueueOffline, Accepted, Go
  <2>3. hand[c] \in Msgs
    BY <1>0, <2>2, HoldsMsg, ZenonT(30)
  <2>4. viaQueue \subseteq viaQueue' /\ \A i \in 1 .. Len(queue') : queue'[i] \in viaQueue'
    BY <1>0, <2>2, <2>3, EnqueuedAre, ZenonT(30) DEF Queued
  <2> QED BY <1>0, <2>1, <2>4, ZenonT(30) DEF Queued
<1>6. ASSUME NEW c \in Sessions, EnqueueRefused(c) PROVE Queued'
  <2>1. hand'[Flusher] = hand[Flusher]
    BY <1>6, <1>0, Sets, ZenonT(30) DEF EnqueueRefused, Accepted, ForwardingTypeOK
  <2>2. pc[c] = "failed" /\ Enqueued(hand[c])
    BY <1>6, ZenonT(30) DEF EnqueueRefused, Accepted, Go
  <2>3. hand[c] \in Msgs
    BY <1>0, <2>2, HoldsMsg, ZenonT(30)
  <2>4. viaQueue \subseteq viaQueue' /\ \A i \in 1 .. Len(queue') : queue'[i] \in viaQueue'
    BY <1>0, <2>2, <2>3, EnqueuedAre, ZenonT(30) DEF Queued
  <2> QED BY <1>0, <2>1, <2>4, ZenonT(30) DEF Queued
<1>7. ASSUME NEW p \in Senders, CheckClosed(p) PROVE Queued'
  BY <1>7, <1>0, ZenonT(30) DEF CheckClosed, Queued
<1>8. ASSUME NEW p \in Senders, Push(p) PROVE Queued'
  BY <1>8, <1>0, ZenonT(30) DEF Push, Queued
<1>9. ASSUME NEW p \in Senders, PushWaiting(p) PROVE Queued'
  BY <1>9, <1>0, ZenonT(30) DEF PushWaiting, Queued
<1>10. ASSUME NEW p \in Senders, Recheck(p) PROVE Queued'
  <2>1. UNCHANGED hand \/ hand' = [hand EXCEPT ![p] = NoMsg]
    BY <1>10, ZenonT(30) DEF Recheck, ShardOK, Accepted
  <2>2. hand'[Flusher] \in {hand[Flusher], NoMsg}
    BY <1>0, <2>1, Sets, ZenonT(30) DEF ForwardingTypeOK
  <2> QED BY <1>10, <1>0, <2>2, ZenonT(30) DEF Recheck, Queued
<1>11. ASSUME FlushStart PROVE Queued'
  BY <1>11, <1>0, ZenonT(30) DEF FlushStart, Queued
<1>12. ASSUME FlushDequeue PROVE Queued'
  <2>1. CASE queue = <<>>
    BY <1>12, <1>0, <2>1, ZenonT(30) DEF FlushDequeue, Queued
  <2>2. CASE queue # <<>>
    <3>1. hand' = [hand EXCEPT ![Flusher] = Head(queue)] /\ queue' = Tail(queue) /\ UNCHANGED viaQueue
      BY <1>12, <2>2, ZenonT(30) DEF FlushDequeue
    <3>2. Head(queue) \in viaQueue /\ \A i \in 1 .. Len(Tail(queue)) : Tail(queue)[i] \in viaQueue
      BY <1>0, <2>2 DEF Queued, ForwardingTypeOK
    <3>3. hand'[Flusher] = Head(queue)
      BY <1>0, <3>1, Sets, ZenonT(30) DEF ForwardingTypeOK
    <3> QED BY <3>1, <3>2, <3>3 DEF Queued
  <2> QED BY <2>1, <2>2, ZenonT(30)
<1>13. ASSUME FlushCheck PROVE Queued'
  <2>1. UNCHANGED hand \/ hand' = [hand EXCEPT ![Flusher] = NoMsg]
    BY <1>13, ZenonT(30) DEF FlushCheck
  <2>2. hand'[Flusher] \in {hand[Flusher], NoMsg}
    BY <1>0, <2>1, Sets, ZenonT(30) DEF ForwardingTypeOK
  <2> QED BY <1>13, <1>0, <2>2, ZenonT(30) DEF FlushCheck, Queued
<1>14. ASSUME FlushDirect PROVE Queued'
  BY <1>14, <1>0, ZenonT(30) DEF FlushDirect, Queued
<1>15. ASSUME FlushRequeue PROVE Queued'
  <2> DEFINE q == IF Len(queue) >= QueueMax THEN Tail(queue) ELSE queue
  <2>1. hand'[Flusher] = NoMsg /\ queue' = <<hand[Flusher]>> \o q /\ UNCHANGED viaQueue /\ pc[Flusher] = "failed"
    BY <1>15, <1>0, Sets, ZenonT(30) DEF FlushRequeue, Go, ForwardingTypeOK
  <2>2. hand[Flusher] \in Msgs /\ hand[Flusher] \in viaQueue
    <3>1. hand[Flusher] \in Msgs
      BY <1>0, <2>1, HoldsMsg, ZenonT(30) DEF Pending
    <3> QED BY <1>0, <3>1, Sets, ZenonT(30) DEF Queued
  <2>3. q \in Seq(Msgs) /\ \A i \in 1 .. Len(q) : q[i] \in viaQueue
    BY <1>0, Sizes DEF Queued, ForwardingTypeOK
  <2> HIDE DEF q
  <2>4. \A i \in 1 .. Len(queue') : queue'[i] \in viaQueue
    BY <2>1, <2>2, <2>3
  <2> QED BY <2>1, <2>4, ZenonT(30) DEF Queued
<1>16. ASSUME FlushReturn PROVE Queued'
  BY <1>16, <1>0, ZenonT(30) DEF FlushReturn, Queued
<1>17. ASSUME NEW sh \in Shards, LoopExit(sh) PROVE Queued'
  BY <1>17, <1>0, ZenonT(30) DEF LoopExit, Queued
<1>18. ASSUME NEW sh \in Shards, LoopTake(sh) PROVE Queued'
  BY <1>18, <1>0, ZenonT(30) DEF LoopTake, Queued
<1>19. ASSUME NEW sh \in Shards, LoopDrained(sh) PROVE Queued'
  BY <1>19, <1>0, ZenonT(30) DEF LoopDrained, Queued
<1>20. ASSUME NEW sh \in Shards, LoopRead(sh) PROVE Queued'
  BY <1>20, <1>0, ZenonT(30) DEF LoopRead, Queued
<1>21. ASSUME NEW sh \in Shards, LoopSendOK(sh) PROVE Queued'
  BY <1>21, <1>0, ZenonT(30) DEF LoopSendOK, Queued
<1>22. ASSUME NEW sh \in Shards, LoopSendFail(sh) PROVE Queued'
  BY <1>22, <1>0, ZenonT(30) DEF LoopSendFail, Queued
<1>23. ASSUME CloseLock PROVE Queued'
  BY <1>23, <1>0, ZenonT(30) DEF CloseLock, Queued
<1>24. ASSUME CloseUnlock PROVE Queued'
  BY <1>24, <1>0, ZenonT(30) DEF CloseUnlock, Queued
<1>25. ASSUME CloseDown PROVE Queued'
  BY <1>25, <1>0, ZenonT(30) DEF CloseDown, Queued
<1>26. ASSUME NEW sh \in Shards, CloseStop(sh) PROVE Queued'
  BY <1>26, <1>0, ZenonT(30) DEF CloseStop, Queued
<1>27. ASSUME NEW sh \in Shards, CloseDrain(sh) PROVE Queued'
  BY <1>27, <1>0, ZenonT(30) DEF CloseDrain, Queued
<1> QED
  BY <1>1, <1>2, <1>3, <1>4, <1>5, <1>6, <1>7, <1>8, <1>9, <1>10, <1>11, <1>12, <1>13, <1>14, <1>15, <1>16, <1>17, <1>18, <1>19, <1>20, <1>21, <1>22, <1>23, <1>24, <1>25, <1>26, <1>27, ZenonT(30)
     DEF ForwardingNext, SessionStep, SenderStep, FlushStep, LoopStep, CloseStep

-----------------------------------------------------------------------------
(* Every message has one owner.                                            *)

\* The senders that hold m and have not given it away.
Holders(m) == {p \in Senders : hand[p] = m /\ pc[p] # "recheck"}

\* 1 if sender p holds m.
Holds(p, m) == IF hand[p] = m /\ pc[p] # "recheck" THEN 1 ELSE 0

\* A step of one sender changes what that sender holds, and nothing else.
LEMMA HeldStep ==
  ASSUME NEW p \in Senders, NEW m, \A q \in Senders \ {p} : hand'[q] = hand[q] /\ pc'[q] = pc[q]
  PROVE  /\ Held(m) \in Nat /\ Held(m)' \in Nat
         /\ Held(m) + Holds(p, m)' = Held(m)' + Holds(p, m)
<1>1. /\ Held(m) = Cardinality(Holders(m)) /\ Held(m)' = Cardinality(Holders(m)')
  BY ZenonT(30) DEF Held, Holders
<1>2. Holders(m) \subseteq Senders /\ Holders(m)' \subseteq Senders
  BY ZenonT(30) DEF Holders
<1>3. IsFiniteSet(Holders(m)) /\ IsFiniteSet(Holders(m)')
  BY <1>2, Sets, FS_Subset, ZenonT(30)
<1>4. Holders(m) \ {p} = Holders(m)' \ {p}
  BY ZenonT(30) DEF Holders
<1>5. Holds(p, m) = IF p \in Holders(m) THEN 1 ELSE 0
  BY ZenonT(30) DEF Holds, Holders
<1>6. Holds(p, m)' = IF p \in Holders(m)' THEN 1 ELSE 0
  BY ZenonT(30) DEF Holds, Holders
<1> HIDE DEF Holders
<1> QED BY <1>1, <1>3, <1>4, <1>5, <1>6, Differ

\* What the counts are.
LEMMA Counts ==
  ASSUME ForwardingTypeOK, NEW m \in Msgs
  PROVE  /\ Held(m) \in Nat /\ Occurs(m, queue) \in Nat /\ Occurs(m, sendCh[ShardOf(m)]) \in Nat
         /\ Occurs(m, batch[ShardOf(m)]) \in Nat /\ puts[m] \in Nat
<1>1. Holders(m) \subseteq Senders /\ Held(m) = Cardinality(Holders(m))
  BY ZenonT(30) DEF Holders, Held
<1>2. Held(m) \in Nat
  BY <1>1, Sets, FS_Subset, FS_CardinalityType
<1>3. /\ queue \in Seq(Msgs) /\ sendCh[ShardOf(m)] \in Seq(Msgs) /\ batch[ShardOf(m)] \in Seq(Msgs)
      /\ puts[m] \in Nat
  BY Sets, ZenonT(30) DEF ForwardingTypeOK
<1>4. /\ Occurs(m, queue) \in Nat /\ Occurs(m, sendCh[ShardOf(m)]) \in Nat
      /\ Occurs(m, batch[ShardOf(m)]) \in Nat
  BY <1>3, OccursType, ZenonT(30)
<1> QED BY <1>2, <1>3, <1>4, ZenonT(30)

\* The head that a full queue drops goes to the pool.
LEMMA DropCounts ==
  ASSUME ForwardingTypeOK, NEW m \in Msgs,
         puts' = IF Len(queue) >= QueueMax THEN Put(<<Head(queue)>>) ELSE puts
  PROVE  /\ Occurs(m, IF Len(queue) >= QueueMax THEN Tail(queue) ELSE queue) + puts'[m]
             = Occurs(m, queue) + puts[m]
         /\ puts'[m] \in Nat
<1>1. queue \in Seq(Msgs) /\ puts[m] \in Nat /\ puts \in [Msgs -> Nat]
  BY ZenonT(30) DEF ForwardingTypeOK
<1>2. CASE Len(queue) >= QueueMax
  <2>1. queue # <<>> /\ Head(queue) \in Msgs /\ <<Head(queue)>> \in Seq(Msgs) /\ Tail(queue) \in Seq(Msgs)
    BY <1>1, <1>2, Sizes
  <2>2. Occurs(m, queue) = Occurs(m, Tail(queue)) + (IF Head(queue) = m THEN 1 ELSE 0)
    BY <1>1, <2>1, OccursTail, ZenonT(30)
  <2>3. puts'[m] = puts[m] + Occurs(m, <<Head(queue)>>)
    BY <1>1, <1>2, <2>1, PutType, ZenonT(30)
  <2>4. Occurs(m, <<Head(queue)>>) = IF Head(queue) = m THEN 1 ELSE 0
    BY OccursOne, ZenonT(30)
  <2>5. Occurs(m, Tail(queue)) \in Nat
    BY <2>1, OccursType, ZenonT(30)
  <2> QED BY <1>1, <1>2, <2>2, <2>3, <2>4, <2>5
<1>3. CASE ~(Len(queue) >= QueueMax)
  BY <1>1, <1>3, ZenonT(30)
<1> QED BY <1>2, <1>3, ZenonT(30)

\* Enqueue puts a message into the queue; what it drops goes to the pool.
LEMMA EnqueuedCounts ==
  ASSUME ForwardingTypeOK, NEW x \in Msgs, Enqueued(x), NEW m \in Msgs
  PROVE  Occurs(m, queue') + puts'[m] = Occurs(m, queue) + puts[m] + (IF x = m THEN 1 ELSE 0)
<1> DEFINE q == IF Len(queue) >= QueueMax THEN Tail(queue) ELSE queue
<1>1. queue' = Append(q, x) /\ puts' = IF Len(queue) >= QueueMax THEN Put(<<Head(queue)>>) ELSE puts
  BY ZenonT(30) DEF Enqueued
<1>2. queue \in Seq(Msgs) /\ puts[m] \in Nat /\ puts \in [Msgs -> Nat]
  BY ZenonT(30) DEF ForwardingTypeOK
<1>3. q \in Seq(Msgs) /\ (Len(queue) >= QueueMax => queue # <<>> /\ <<Head(queue)>> \in Seq(Msgs))
  BY <1>2, Sizes
<1>4. Occurs(m, q) + puts'[m] = Occurs(m, queue) + puts[m]
  BY <1>1, <1>2, <1>3, DropCounts, ZenonT(30)
<1> HIDE DEF q
<1>5. Occurs(m, queue') = Occurs(m, q) + (IF x = m THEN 1 ELSE 0)
  BY <1>1, <1>3, OccursAppend, ZenonT(30)
<1>6. Occurs(m, q) \in Nat /\ Occurs(m, queue) \in Nat
  BY <1>2, <1>3, OccursType, ZenonT(30)
<1>7. puts'[m] \in Nat
  BY EnqueuedTypes, ZenonT(30)
<1> QED BY <1>2, <1>4, <1>5, <1>6, <1>7

\* The count of OneOwner for one message.
Owned(m) == Places(m) + puts[m] = IF m[2] <= sent[m[1]] THEN 1 ELSE 0

\* What a sender p does that neither takes nor gives away a message.
Keeps(p) ==
  /\ \A q \in Senders \ {p} : hand'[q] = hand[q] /\ pc'[q] = pc[q]
  /\ \A m \in Msgs : Holds(p, m)' = Holds(p, m)
  /\ UNCHANGED <<queue, sendCh, batch, puts, sent>>

\* It changes no owner.
LEMMA KeepsOwner ==
  ASSUME NEW p \in Senders, Keeps(p), NEW m \in Msgs, Owned(m)
  PROVE  Owned(m)'
<1>1. Held(m) \in Nat /\ Held(m)' \in Nat /\ Held(m) + Holds(p, m)' = Held(m)' + Holds(p, m)
  BY HeldStep, ZenonT(30) DEF Keeps
<1>2. Holds(p, m)' = Holds(p, m) /\ Holds(p, m) \in Nat
  BY ZenonT(30) DEF Keeps, Holds
<1>3. Held(m)' = Held(m)
  BY <1>1, <1>2
<1> QED BY <1>3, ZenonT(30) DEF Keeps, Owned, Places, ShardOf

\* The batch of a shard is returned.
LEMMA ReturnOwner ==
  ASSUME ForwardingTypeOK, Loops, NEW sh \in Shards, NEW m \in Msgs, Owned(m),
         puts' = Put(batch[sh]), batch' = [batch EXCEPT ![sh] = <<>>],
         UNCHANGED <<queue, sendCh, pc, hand, sent>>
  PROVE  Owned(m)'
<1>1. batch[sh] \in Seq(Msgs) /\ ShardOf(m) \in Shards /\ puts \in [Msgs -> Nat]
  BY Sets, ZenonT(30) DEF ForwardingTypeOK
<1>2. puts'[m] = puts[m] + Occurs(m, batch[sh])
  BY <1>1, PutType, ZenonT(30)
<1>3. ShardOf(m) # sh => Occurs(m, batch[sh]) = 0
  <2>1. ShardOf(m) # sh => \A i \in 1 .. Len(batch[sh]) : batch[sh][i] # m
    BY ZenonT(30) DEF Loops
  <2> QED BY <1>1, <2>1, OccursType, ZenonT(30)
<1>4. batch'[ShardOf(m)] = IF ShardOf(m) = sh THEN <<>> ELSE batch[ShardOf(m)]
  BY <1>1, ZenonT(30) DEF ForwardingTypeOK
<1>5. Occurs(m, <<>>) = 0
  BY OccursEmpty, ZenonT(30)
<1>6. Held(m)' = Held(m)
  BY ZenonT(30) DEF Held
<1>7. /\ Held(m) \in Nat /\ Occurs(m, queue) \in Nat /\ Occurs(m, sendCh[ShardOf(m)]) \in Nat
      /\ Occurs(m, batch[ShardOf(m)]) \in Nat /\ puts[m] \in Nat
  BY Counts, ZenonT(30)
<1>8. /\ Occurs(m, batch'[ShardOf(m)]) + puts'[m] = Occurs(m, batch[ShardOf(m)]) + puts[m]
      /\ Occurs(m, batch'[ShardOf(m)]) \in Nat /\ puts'[m] \in Nat
  <2>1. CASE ShardOf(m) = sh
    <3>1. Occurs(m, batch'[ShardOf(m)]) = 0 /\ puts'[m] = puts[m] + Occurs(m, batch[ShardOf(m)])
      BY <2>1, <1>2, <1>4, <1>5, ZenonT(30)
    <3> QED BY <3>1, <1>7
  <2>2. CASE ShardOf(m) # sh
    <3>1. /\ Occurs(m, batch'[ShardOf(m)]) = Occurs(m, batch[ShardOf(m)])
          /\ puts'[m] = puts[m] + 0
      BY <2>2, <1>2, <1>3, <1>4, ZenonT(30)
    <3> QED BY <3>1, <1>7
  <2> QED BY <2>1, <2>2, ZenonT(30)
<1> QED BY <1>6, <1>7, <1>8 DEF Owned, Places, ShardOf

\* A push moves a message from the sender to the channel.
LEMMA PushOwner ==
  ASSUME ForwardingTypeOK, NEW p \in Senders, hand[p] \in Msgs, NEW from, from # "recheck",
         PushTo(p, from, ShardOf(hand[p])), UNCHANGED <<queue, batch, hand, sent, puts>>,
         NEW m \in Msgs, Owned(m)
  PROVE  Owned(m)'
<1> DEFINE x == hand[p]
           sh == ShardOf(x)
<1>1. /\ sh \in Shards /\ ShardOf(m) \in Shards /\ sendCh[sh] \in Seq(Msgs)
      /\ sendCh' = [sendCh EXCEPT ![sh] = Append(sendCh[sh], x)]
      /\ pc[p] # "recheck" /\ pc' = [pc EXCEPT ![p] = "recheck"]
  BY Sets, ZenonT(30) DEF ForwardingTypeOK, PushTo, Go
<1>2. /\ Holds(p, m) = (IF x = m THEN 1 ELSE 0) /\ Holds(p, m)' = 0
      /\ \A q \in Senders \ {p} : hand'[q] = hand[q] /\ pc'[q] = pc[q]
  BY <1>1, ZenonT(30) DEF Holds, ForwardingTypeOK
<1>3. Held(m) = Held(m)' + (IF x = m THEN 1 ELSE 0) /\ Held(m)' \in Nat
  BY <1>2, HeldStep
<1>4. Occurs(m, Append(sendCh[sh], x)) = Occurs(m, sendCh[sh]) + (IF x = m THEN 1 ELSE 0)
  BY <1>1, OccursAppend, ZenonT(30)
<1>5. sendCh'[ShardOf(m)] = IF ShardOf(m) = sh THEN Append(sendCh[sh], x) ELSE sendCh[ShardOf(m)]
  BY <1>1, ZenonT(30) DEF ForwardingTypeOK
<1>6. ShardOf(m) # sh => x # m
  BY ZenonT(30)
<1> HIDE DEF x, sh
<1>7. Occurs(m, sendCh'[ShardOf(m)]) = Occurs(m, sendCh[ShardOf(m)]) + (IF x = m THEN 1 ELSE 0)
  BY <1>4, <1>5, <1>6, Counts
<1> QED BY <1>3, <1>7, Counts DEF Owned, Places, ShardOf

\* Every step of an open client leaves every message with one owner.
LEMMA OwnerStep ==
  ASSUME Frame, ForwardingTypeOK', NEW m \in Msgs, Owned(m), ~closing, ~closing', ForwardingNext
  PROVE  Owned(m)'
<1> USE DEF linkVars
<1>0. /\ ForwardingTypeOK /\ ForwardingTypeOK' /\ Hands /\ Loops /\ Open
      /\ stopped = {} /\ ~closing /\ ~closing' /\ Owned(m)
  BY ZenonT(30) DEF Frame, Open
<1>00. /\ Held(m) \in Nat /\ Occurs(m, queue) \in Nat /\ Occurs(m, sendCh[ShardOf(m)]) \in Nat
       /\ Occurs(m, batch[ShardOf(m)]) \in Nat /\ puts[m] \in Nat
  BY <1>0, Counts, ZenonT(30)
<1>01. /\ Occurs(m, queue') \in Nat /\ Occurs(m, sendCh'[ShardOf(m)]) \in Nat
       /\ Occurs(m, batch'[ShardOf(m)]) \in Nat /\ puts'[m] \in Nat
  <2>1. /\ queue' \in Seq(Msgs) /\ sendCh'[ShardOf(m)] \in Seq(Msgs) /\ batch'[ShardOf(m)] \in Seq(Msgs)
        /\ puts'[m] \in Nat
    BY <1>0, Sets, ZenonT(30) DEF ForwardingTypeOK
  <2> QED BY <2>1, OccursType, ZenonT(30)
<1>1. ASSUME LinkStep PROVE Owned(m)'
  BY <1>1, <1>0, ZenonT(30) DEF LinkStep, own, Owned, Places, Held, ShardOf
<1>2. ASSUME NEW c \in Sessions, Route(c) PROVE Owned(m)'
  <2> DEFINE x == <<c, sent[c] + 1>>
  <2>1. /\ c \in Senders /\ sent[c] \in Nat /\ sent[c] + 1 \in 1 .. Count
        /\ pc[c] = "idle" /\ pc' = [pc EXCEPT ![c] = "start"] /\ hand' = [hand EXCEPT ![c] = x]
        /\ sent' = [sent EXCEPT ![c] = sent[c] + 1]
    BY <1>2, <1>0, Sets, Sizes DEF Route, Go, ForwardingTypeOK
  <2>2. hand[c] = NoMsg /\ hand[c] # m
    BY <1>0, <2>1, Sets, ZenonT(30) DEF Hands
  <2>3. /\ Holds(c, m) = 0 /\ Holds(c, m)' = (IF x = m THEN 1 ELSE 0)
        /\ \A q \in Senders \ {c} : hand'[q] = hand[q] /\ pc'[q] = pc[q]
    BY <1>0, <2>1, <2>2, ZenonT(30) DEF Holds, ForwardingTypeOK
  <2>4. Held(m)' = Held(m) + (IF x = m THEN 1 ELSE 0)
    BY <2>1, <2>3, HeldStep
  <2>5. (IF m[2] <= sent'[m[1]] THEN 1 ELSE 0) = (IF m[2] <= sent[m[1]] THEN 1 ELSE 0) + (IF x = m THEN 1 ELSE 0)
    <3>0. m = <<m[1], m[2]>> /\ m[1] \in Sessions /\ m[2] \in 1 .. Count /\ sent[m[1]] \in 0 .. Count
      BY <1>0, Sets, ZenonT(30) DEF ForwardingTypeOK
    <3>1. m = <<m[1], m[2]>> /\ m[1] \in Sessions /\ m[2] \in Nat /\ sent[m[1]] \in Nat
      BY <3>0, Sizes
    <3>2. x = m <=> m[1] = c /\ m[2] = sent[c] + 1
      BY <3>1
    <3>3. sent'[m[1]] = IF m[1] = c THEN sent[c] + 1 ELSE sent[m[1]]
      BY <1>0, <2>1, <3>1, ZenonT(30) DEF ForwardingTypeOK
    <3> HIDE DEF x
    <3> QED BY <2>1, <3>1, <3>2, <3>3
  <2>6. UNCHANGED <<queue, sendCh, batch, puts>>
    BY <1>2, ZenonT(30) DEF Route
  <2> HIDE DEF x
  <2> QED BY <1>0, <1>00, <2>4, <2>5, <2>6 DEF Owned, Places, ShardOf
<1>3. ASSUME NEW c \in Sessions, CheckState(c) PROVE Owned(m)'
  <2>1. Keeps(c)
    BY <1>3, <1>0, Sets, ZenonT(30) DEF CheckState, Go, Keeps, Holds, ForwardingTypeOK
  <2> QED BY <1>0, <2>1, KeepsOwner, Sets, ZenonT(30)
<1>4. ASSUME NEW c \in Sessions, CheckClosing(c) PROVE Owned(m)'
  <2>1. Keeps(c)
    BY <1>4, <1>0, Sets DEF CheckClosing, Go, Keeps, Holds, ForwardingTypeOK
  <2> QED BY <1>0, <2>1, KeepsOwner, Sets, ZenonT(30)
<1>5. ASSUME NEW c \in Sessions, EnqueueOffline(c) PROVE Owned(m)'
  <2>1. /\ c \in Senders /\ pc[c] = "enqueue" /\ Enqueued(hand[c])
        /\ pc' = [pc EXCEPT ![c] = "idle"] /\ hand' = [hand EXCEPT ![c] = NoMsg]
        /\ UNCHANGED <<sendCh, batch, sent>>
    BY <1>5, Sets, ZenonT(30) DEF EnqueueOffline, Accepted, Go
  <2>2. hand[c] \in Msgs
    BY <1>0, <2>1, HoldsMsg, ZenonT(30)
  <2>3. /\ Holds(c, m) = (IF hand[c] = m THEN 1 ELSE 0) /\ Holds(c, m)' = 0
        /\ \A q \in Senders \ {c} : hand'[q] = hand[q] /\ pc'[q] = pc[q]
    BY <1>0, <2>1, Sets, ZenonT(30) DEF Holds, ForwardingTypeOK
  <2>4. Held(m) = Held(m)' + (IF hand[c] = m THEN 1 ELSE 0) /\ Held(m)' \in Nat
    BY <2>1, <2>3, HeldStep
  <2>5. Occurs(m, queue') + puts'[m] = Occurs(m, queue) + puts[m] + (IF hand[c] = m THEN 1 ELSE 0)
    BY <1>0, <2>1, <2>2, EnqueuedCounts, ZenonT(30)
  <2>6. Occurs(m, queue') \in Nat /\ puts'[m] \in Nat
    BY <1>01, ZenonT(30)
  <2> QED BY <1>0, <1>00, <2>1, <2>4, <2>5, <2>6 DEF Owned, Places, ShardOf
<1>6. ASSUME NEW c \in Sessions, EnqueueRefused(c) PROVE Owned(m)'
  <2>1. /\ c \in Senders /\ pc[c] = "failed" /\ Enqueued(hand[c])
        /\ pc' = [pc EXCEPT ![c] = "idle"] /\ hand' = [hand EXCEPT ![c] = NoMsg]
        /\ UNCHANGED <<sendCh, batch, sent>>
    BY <1>6, Sets, ZenonT(30) DEF EnqueueRefused, Accepted, Go
  <2>2. hand[c] \in Msgs
    BY <1>0, <2>1, HoldsMsg, ZenonT(30)
  <2>3. /\ Holds(c, m) = (IF hand[c] = m THEN 1 ELSE 0) /\ Holds(c, m)' = 0
        /\ \A q \in Senders \ {c} : hand'[q] = hand[q] /\ pc'[q] = pc[q]
    BY <1>0, <2>1, Sets, ZenonT(30) DEF Holds, ForwardingTypeOK
  <2>4. Held(m) = Held(m)' + (IF hand[c] = m THEN 1 ELSE 0) /\ Held(m)' \in Nat
    BY <2>1, <2>3, HeldStep
  <2>5. Occurs(m, queue') + puts'[m] = Occurs(m, queue) + puts[m] + (IF hand[c] = m THEN 1 ELSE 0)
    BY <1>0, <2>1, <2>2, EnqueuedCounts, ZenonT(30)
  <2>6. Occurs(m, queue') \in Nat /\ puts'[m] \in Nat
    BY <1>01, ZenonT(30)
  <2> QED BY <1>0, <1>00, <2>1, <2>4, <2>5, <2>6 DEF Owned, Places, ShardOf
<1>7. ASSUME NEW p \in Senders, CheckClosed(p) PROVE Owned(m)'
  <2>1. Keeps(p)
    BY <1>7, <1>0, Sets, ZenonT(30) DEF CheckClosed, Go, Keeps, Holds, ForwardingTypeOK
  <2> QED BY <1>0, <2>1, KeepsOwner, Sets, ZenonT(30)
<1>8. ASSUME NEW p \in Senders, Push(p) PROVE Owned(m)'
  <2>1. hand[p] \in Msgs /\ pc[p] = "push" /\ UNCHANGED <<queue, batch, hand, sent, puts>>
    BY <1>8, <1>0, HoldsMsg, ZenonT(30) DEF Push
  <2>2. CASE PushTo(p, "push", ShardOf(hand[p]))
    BY <1>0, <2>1, <2>2, PushOwner, ZenonT(30)
  <2>3. CASE Go(p, "push", "wait") /\ UNCHANGED sendCh
    <3>1. Keeps(p)
      BY <1>0, <2>1, <2>3, ZenonT(30) DEF Go, Keeps, Holds, ForwardingTypeOK
    <3> QED BY <1>0, <3>1, KeepsOwner, ZenonT(30)
  <2> QED BY <1>8, <2>2, <2>3, ZenonT(30) DEF Push
<1>9. ASSUME NEW p \in Senders, PushWaiting(p) PROVE Owned(m)'
  <2>1. hand[p] \in Msgs /\ pc[p] = "wait" /\ UNCHANGED <<queue, batch, hand, sent, puts>>
    BY <1>9, <1>0, HoldsMsg, ZenonT(30) DEF PushWaiting
  <2>2. CASE PushTo(p, "wait", ShardOf(hand[p]))
    BY <1>0, <2>1, <2>2, PushOwner, ZenonT(30)
  <2>3. CASE Go(p, "wait", "failed") /\ UNCHANGED sendCh
    <3>1. Keeps(p)
      BY <1>0, <2>1, <2>3, ZenonT(30) DEF Go, Keeps, Holds, ForwardingTypeOK
    <3> QED BY <1>0, <3>1, KeepsOwner, ZenonT(30)
  <2> QED BY <1>9, <2>2, <2>3, ZenonT(30) DEF PushWaiting
<1>10. ASSUME NEW p \in Senders, Recheck(p) PROVE Owned(m)'
  <2>1. ShardOK(p, "recheck") /\ pc[p] = "recheck"
    BY <1>10, <1>0, ZenonT(30) DEF Recheck
  <2>2. \E to \in {"dequeue", "idle"} : pc' = [pc EXCEPT ![p] = to] /\ hand' = [hand EXCEPT ![p] = NoMsg]
    BY <2>1, ZenonT(30) DEF ShardOK, Accepted, Go
  <2>3. UNCHANGED <<queue, sendCh, batch, puts, sent>>
    BY <1>10, ZenonT(30) DEF Recheck
  <2>4. \A q \in Senders \ {p} : hand'[q] = hand[q] /\ pc'[q] = pc[q]
    BY <1>0, <2>2, ZenonT(30) DEF ForwardingTypeOK
  <2>5. hand'[p] = NoMsg
    BY <1>0, <2>2, ZenonT(30) DEF ForwardingTypeOK
  <2>6. Keeps(p)
    BY <2>1, <2>3, <2>4, <2>5, Sets, ZenonT(30) DEF Keeps, Holds
  <2> QED BY <1>0, <2>6, KeepsOwner, ZenonT(30)
<1>11. ASSUME FlushStart PROVE Owned(m)'
  <2>1. Keeps(Flusher)
    BY <1>11, <1>0, Sets, ZenonT(30) DEF FlushStart, Go, Keeps, Holds, ForwardingTypeOK
  <2> QED BY <1>0, <2>1, KeepsOwner, Sets, ZenonT(30)
<1>12. ASSUME FlushDequeue PROVE Owned(m)'
  <2>1. CASE queue = <<>>
    <3>1. Keeps(Flusher)
      BY <1>12, <1>0, <2>1, Sets, ZenonT(30) DEF FlushDequeue, Go, Keeps, Holds, ForwardingTypeOK
    <3> QED BY <1>0, <3>1, KeepsOwner, Sets, ZenonT(30)
  <2>2. CASE queue # <<>>
    <3>1. /\ pc[Flusher] = "dequeue" /\ pc' = [pc EXCEPT ![Flusher] = "check"]
          /\ hand' = [hand EXCEPT ![Flusher] = Head(queue)] /\ queue' = Tail(queue)
          /\ UNCHANGED <<sendCh, batch, puts, sent>>
      BY <1>12, <2>2, ZenonT(30) DEF FlushDequeue, Go
    <3>2. hand[Flusher] # m
      BY <1>0, <3>1, Sets, ZenonT(30) DEF Hands, Pending
    <3>3. /\ Holds(Flusher, m) = 0 /\ Holds(Flusher, m)' = (IF Head(queue) = m THEN 1 ELSE 0)
          /\ \A q \in Senders \ {Flusher} : hand'[q] = hand[q] /\ pc'[q] = pc[q]
      BY <1>0, <3>1, <3>2, Sets, ZenonT(30) DEF Holds, ForwardingTypeOK
    <3>4. Held(m)' = Held(m) + (IF Head(queue) = m THEN 1 ELSE 0)
      BY <3>3, HeldStep, Sets
    <3>5. Occurs(m, queue) = Occurs(m, queue') + (IF Head(queue) = m THEN 1 ELSE 0)
      BY <1>0, <2>2, <3>1, OccursTail, ZenonT(30) DEF ForwardingTypeOK
    <3> QED BY <1>0, <1>00, <1>01, <3>1, <3>4, <3>5 DEF Owned, Places, ShardOf
  <2> QED BY <2>1, <2>2, ZenonT(30)
<1>13. ASSUME FlushCheck PROVE Owned(m)'
  <2>1. Keeps(Flusher)
    BY <1>13, <1>0, Sets DEF FlushCheck, Go, Keeps, Holds, ForwardingTypeOK
  <2> QED BY <1>0, <2>1, KeepsOwner, Sets, ZenonT(30)
<1>14. ASSUME FlushDirect PROVE Owned(m)'
  <2>1. Keeps(Flusher)
    BY <1>14, <1>0, Sets, ZenonT(30) DEF FlushDirect, Go, Keeps, Holds, ForwardingTypeOK
  <2> QED BY <1>0, <2>1, KeepsOwner, Sets, ZenonT(30)
<1>15. ASSUME FlushRequeue PROVE Owned(m)'
  <2> DEFINE q == IF Len(queue) >= QueueMax THEN Tail(queue) ELSE queue
             x == hand[Flusher]
  <2>1. /\ pc[Flusher] = "failed" /\ hand' = [hand EXCEPT ![Flusher] = NoMsg] /\ queue' = <<x>> \o q
        /\ puts' = IF Len(queue) >= QueueMax THEN Put(<<Head(queue)>>) ELSE puts
        /\ UNCHANGED <<sendCh, batch, sent>>
        /\ pc' = [pc EXCEPT ![Flusher] = IF failures + 1 < MaxFailures THEN "dequeue" ELSE "return"]
    BY <1>15, ZenonT(30) DEF FlushRequeue, Go
  <2>2. x \in Msgs
    BY <1>0, <2>1, HoldsMsg, ZenonT(30) DEF Pending
  <2>3. /\ Holds(Flusher, m) = (IF x = m THEN 1 ELSE 0) /\ Holds(Flusher, m)' = 0
        /\ \A r \in Senders \ {Flusher} : hand'[r] = hand[r] /\ pc'[r] = pc[r]
    BY <1>0, <2>1, Sets, ZenonT(30) DEF Holds, ForwardingTypeOK
  <2>4. Held(m) = Held(m)' + (IF x = m THEN 1 ELSE 0) /\ Held(m)' \in Nat
    BY <2>3, HeldStep, Sets
  <2>5. Occurs(m, q) + puts'[m] = Occurs(m, queue) + puts[m]
    BY <1>0, <2>1, DropCounts, ZenonT(30)
  <2>6. q \in Seq(Msgs)
    BY <1>0, Sizes DEF ForwardingTypeOK
  <2> HIDE DEF q, x
  <2>7. Occurs(m, queue') = Occurs(m, q) + (IF x = m THEN 1 ELSE 0)
    BY <2>1, <2>2, <2>6, OccursFront, ZenonT(30)
  <2>8. Occurs(m, q) \in Nat /\ puts'[m] \in Nat
    BY <1>01, <2>6, OccursType, ZenonT(30)
  <2>9. Held(m)' + Occurs(m, queue') + puts'[m] = Held(m) + Occurs(m, queue) + puts[m]
    BY <1>00, <2>4, <2>5, <2>7, <2>8
  <2>10. UNCHANGED <<sendCh, batch, sent>>
    BY <2>1, ZenonT(30)
  <2> QED BY <1>0, <1>00, <1>01, <2>4, <2>9, <2>10 DEF Owned, Places, ShardOf
<1>16. ASSUME FlushReturn PROVE Owned(m)'
  <2>1. Keeps(Flusher)
    BY <1>16, <1>0, Sets, ZenonT(30) DEF FlushReturn, Go, Keeps, Holds, ForwardingTypeOK
  <2> QED BY <1>0, <2>1, KeepsOwner, Sets, ZenonT(30)
<1>17. ASSUME NEW sh \in Shards, LoopExit(sh) PROVE Owned(m)'
  BY <1>17, <1>0, ZenonT(30) DEF LoopExit, Owned, Places, Held, ShardOf
<1>18. ASSUME NEW sh \in Shards, LoopTake(sh) PROVE Owned(m)'
  <2> DEFINE s == sendCh[sh]
             x == Head(s)
  <2>1. /\ s # <<>> /\ batch' = [batch EXCEPT ![sh] = Append(batch[sh], x)]
        /\ sendCh' = [sendCh EXCEPT ![sh] = Tail(s)] /\ UNCHANGED <<queue, pc, hand, sent, puts>>
    BY <1>18, ZenonT(30) DEF LoopTake
  <2>2. s \in Seq(Msgs) /\ batch[sh] \in Seq(Msgs) /\ ShardOf(m) \in Shards
    BY <1>0, Sets, ZenonT(30) DEF ForwardingTypeOK
  <2>3. x \in Msgs
    BY <2>1, <2>2
  <2>4. Occurs(m, s) = Occurs(m, Tail(s)) + (IF x = m THEN 1 ELSE 0)
    BY <2>1, <2>2, OccursTail, ZenonT(30)
  <2>5. Occurs(m, Append(batch[sh], x)) = Occurs(m, batch[sh]) + (IF x = m THEN 1 ELSE 0)
    BY <2>2, <2>3, OccursAppend, ZenonT(30)
  <2>6. /\ sendCh'[ShardOf(m)] = IF ShardOf(m) = sh THEN Tail(s) ELSE sendCh[ShardOf(m)]
        /\ batch'[ShardOf(m)] = IF ShardOf(m) = sh THEN Append(batch[sh], x) ELSE batch[ShardOf(m)]
    BY <1>0, <2>1, <2>2, ZenonT(30) DEF ForwardingTypeOK
  <2>7. Held(m)' = Held(m)
    BY <2>1, ZenonT(30) DEF Held
  <2>8. Occurs(m, Tail(s)) \in Nat
    <3>1. Tail(s) \in Seq(Msgs)
      BY <2>1, <2>2
    <3> QED BY <3>1, OccursType, ZenonT(30)
  <2>9. Occurs(m, sendCh'[ShardOf(m)]) + Occurs(m, batch'[ShardOf(m)])
          = Occurs(m, sendCh[ShardOf(m)]) + Occurs(m, batch[ShardOf(m)])
    <3> HIDE DEF x
    <3>1. CASE ShardOf(m) = sh
      BY <1>00, <2>4, <2>5, <2>6, <2>8, <3>1
    <3>2. CASE ShardOf(m) # sh
      BY <2>6, <3>2, ZenonT(30)
    <3> QED BY <3>1, <3>2, ZenonT(30)
  <2> QED BY <1>0, <1>00, <1>01, <2>1, <2>7, <2>9 DEF Owned, Places, ShardOf
<1>19. ASSUME NEW sh \in Shards, LoopDrained(sh) PROVE Owned(m)'
  BY <1>19, <1>0, ZenonT(30) DEF LoopDrained, Owned, Places, Held, ShardOf
<1>20. ASSUME NEW sh \in Shards, LoopRead(sh) PROVE Owned(m)'
  <2>1. CASE stream[sh] = NoStream
    <3>1. /\ puts' = Put(batch[sh]) /\ batch' = [batch EXCEPT ![sh] = <<>>]
          /\ UNCHANGED <<queue, sendCh, pc, hand, sent>>
      BY <1>20, <2>1, ZenonT(30) DEF LoopRead
    <3> QED BY <1>0, <3>1, ReturnOwner, ZenonT(30)
  <2>2. CASE stream[sh] # NoStream
    BY <1>20, <1>0, <2>2, ZenonT(30) DEF LoopRead, Owned, Places, Held, ShardOf
  <2> QED BY <2>1, <2>2, ZenonT(30)
<1>21. ASSUME NEW sh \in Shards, LoopSendOK(sh) PROVE Owned(m)'
  <2>1. /\ puts' = Put(batch[sh]) /\ batch' = [batch EXCEPT ![sh] = <<>>]
        /\ UNCHANGED <<queue, sendCh, pc, hand, sent>>
    BY <1>21, ZenonT(30) DEF LoopSendOK, LoopReturn
  <2> QED BY <1>0, <2>1, ReturnOwner, ZenonT(30)
<1>22. ASSUME NEW sh \in Shards, LoopSendFail(sh) PROVE Owned(m)'
  <2>1. /\ puts' = Put(batch[sh]) /\ batch' = [batch EXCEPT ![sh] = <<>>]
        /\ UNCHANGED <<queue, sendCh, pc, hand, sent>>
    BY <1>22, ZenonT(30) DEF LoopSendFail, LoopReturn
  <2> QED BY <1>0, <2>1, ReturnOwner, ZenonT(30)
<1>23. ASSUME CloseLock PROVE Owned(m)'
  BY <1>23, <1>0, ZenonT(30) DEF CloseLock, BeginClose
<1>24. ASSUME CloseUnlock PROVE Owned(m)'
  BY <1>24, <1>0, ZenonT(30) DEF CloseUnlock, Open
<1>25. ASSUME CloseDown PROVE Owned(m)'
  BY <1>25, <1>0, ZenonT(30) DEF CloseDown, Open
<1>26. ASSUME NEW sh \in Shards, CloseStop(sh) PROVE Owned(m)'
  BY <1>26, <1>0, ZenonT(30) DEF CloseStop, Open
<1>27. ASSUME NEW sh \in Shards, CloseDrain(sh) PROVE Owned(m)'
  BY <1>27, <1>0, ZenonT(30) DEF CloseDrain, Open
<1> QED
  BY <1>1, <1>2, <1>3, <1>4, <1>5, <1>6, <1>7, <1>8, <1>9, <1>10, <1>11, <1>12, <1>13, <1>14, <1>15, <1>16, <1>17, <1>18, <1>19, <1>20, <1>21, <1>22, <1>23, <1>24, <1>25, <1>26, <1>27, ZenonT(30)
     DEF ForwardingNext, SessionStep, SenderStep, FlushStep, LoopStep, CloseStep

-----------------------------------------------------------------------------
(* The order of the queue.                                                 *)

\* Of two messages of a session the first is the earlier one.
Earlier(m, n) == m[1] = n[1] => m[2] < n[2]

\* The Flusher has a message that it has not given away.
Ready == hand[Flusher] # NoMsg /\ pc[Flusher] # "recheck"

\* The messages of the queue are in order, after the one Flush has taken.
Ordered ==
  /\ \A i, j \in 1 .. Len(queue) : i < j => Earlier(queue[i], queue[j])
  /\ Ready => \A i \in 1 .. Len(queue) : Earlier(hand[Flusher], queue[i])

\* A sequence with a message in front is in order.
LEMMA FrontInOrder ==
  ASSUME NEW s \in Seq(Msgs), NEW x \in Msgs
  PROVE  InOrder(<<x>> \o s) <=> /\ \A i, j \in 1 .. Len(s) : i < j => Earlier(s[i], s[j])
                                 /\ \A i \in 1 .. Len(s) : Earlier(x, s[i])
<1> DEFINE t == <<x>> \o s
<1>1. /\ Len(t) = Len(s) + 1 /\ t[1] = x /\ \A i \in 1 .. Len(s) : t[i + 1] = s[i]
      /\ Len(s) \in Nat
  OBVIOUS
<1> HIDE DEF t
<1>2. ASSUME InOrder(t)
      PROVE  /\ \A i, j \in 1 .. Len(s) : i < j => Earlier(s[i], s[j])
             /\ \A i \in 1 .. Len(s) : Earlier(x, s[i])
  <2>1. ASSUME NEW i \in 1 .. Len(s), NEW j \in 1 .. Len(s), i < j PROVE Earlier(s[i], s[j])
    <3>1. i + 1 \in 1 .. Len(t) /\ j + 1 \in 1 .. Len(t) /\ i + 1 < j + 1
      BY <1>1, <2>1
    <3> QED BY <1>1, <1>2, <3>1, ZenonT(30) DEF InOrder, Earlier
  <2>2. ASSUME NEW i \in 1 .. Len(s) PROVE Earlier(x, s[i])
    <3>1. i + 1 \in 1 .. Len(t) /\ 1 \in 1 .. Len(t) /\ 1 < i + 1
      BY <1>1, <2>2
    <3> QED BY <1>1, <1>2, <3>1, ZenonT(30) DEF InOrder, Earlier
  <2> QED BY <2>1, <2>2, ZenonT(30)
<1>3. ASSUME \A i, j \in 1 .. Len(s) : i < j => Earlier(s[i], s[j]), \A i \in 1 .. Len(s) : Earlier(x, s[i]),
             NEW k \in 1 .. Len(t), NEW l \in 1 .. Len(t), k < l
      PROVE  Earlier(t[k], t[l])
  <2>1. l - 1 \in 1 .. Len(s) /\ t[l] = s[l - 1]
    BY <1>1, <1>3
  <2>2. CASE k = 1
    BY <1>1, <1>3, <2>1, <2>2, ZenonT(30)
  <2>3. CASE k # 1
    <3>1. k - 1 \in 1 .. Len(s) /\ t[k] = s[k - 1] /\ k - 1 < l - 1
      BY <1>1, <1>3, <2>3
    <3> QED BY <1>3, <2>1, <3>1, ZenonT(30)
  <2> QED BY <2>2, <2>3, ZenonT(30)
<1> QED BY <1>2, <1>3, ZenonT(30) DEF t, InOrder, Earlier

\* That is QueueInOrder, without the concatenation.
LEMMA OrderedIs ==
  ASSUME ForwardingTypeOK
  PROVE  QueueInOrder <=> (~closing => Ordered)
<1>1. queue \in Seq(Msgs)
  BY ZenonT(30) DEF ForwardingTypeOK
<1>2. CASE Ready
  <2>1. hand[Flusher] \in Msgs
    BY <1>2, Sets, ZenonT(30) DEF Ready, ForwardingTypeOK
  <2>2. InOrder(<<hand[Flusher]>> \o queue) <=> Ordered
    BY <1>1, <1>2, <2>1, FrontInOrder, ZenonT(30) DEF Ordered, InOrder, Earlier
  <2> QED BY <1>2, <2>2, ZenonT(30) DEF QueueInOrder, Ready
<1>3. CASE ~Ready
  <2>1. InOrder(queue) <=> Ordered
    BY <1>3, ZenonT(30) DEF Ordered, InOrder, Earlier
  <2> QED BY <1>3, <2>1, ZenonT(30) DEF QueueInOrder, Ready
<1> QED BY <1>2, <1>3, ZenonT(30)

\* A message of the queue was given to SendMessage, and no session has it.
LEMMA QueuedBehind ==
  ASSUME ForwardingTypeOK, Hands, NEW c \in Sessions, pc[c] \notin {"idle", "recheck"}, NEW m \in Msgs, Owned(m),
         Occurs(m, queue) > 0 \/ (hand[Flusher] = m /\ pc[Flusher] # "recheck")
  PROVE  Earlier(m, <<c, sent[c]>>)
<1>1. /\ Held(m) \in Nat /\ Occurs(m, queue) \in Nat /\ Occurs(m, sendCh[ShardOf(m)]) \in Nat
      /\ Occurs(m, batch[ShardOf(m)]) \in Nat /\ puts[m] \in Nat
  BY Counts, ZenonT(30)
<1>2. m = <<m[1], m[2]>> /\ m[1] \in Sessions /\ m[2] \in Nat /\ sent[m[1]] \in Nat
  BY Sets, Sizes DEF ForwardingTypeOK
<1>3. Holders(m) \subseteq Senders /\ IsFiniteSet(Holders(m)) /\ Held(m) = Cardinality(Holders(m))
  BY Sets, FS_Subset, ZenonT(30) DEF Holders, Held
<1>4. Holders(m) # {} => Held(m) > 0
  BY <1>1, <1>3, FS_EmptySet
<1>5. hand[Flusher] = m /\ pc[Flusher] # "recheck" => Flusher \in Holders(m)
  BY Sets, ZenonT(30) DEF Holders
<1>6. m[2] <= sent[m[1]] /\ Held(m) + Occurs(m, queue) <= 1
  <2>1. Held(m) > 0 \/ Occurs(m, queue) > 0
    BY <1>4, <1>5, ZenonT(30)
  <2>2. Held(m) + Occurs(m, queue) + Occurs(m, sendCh[ShardOf(m)]) + Occurs(m, batch[ShardOf(m)]) + puts[m]
          = IF m[2] <= sent[m[1]] THEN 1 ELSE 0
    BY ZenonT(30) DEF Owned, Places
  <2> QED BY <1>1, <2>1, <2>2
<1>7. m # hand[c]
  <2> SUFFICES ASSUME m = hand[c] PROVE FALSE
    BY ZenonT(30)
  <2>1. c \in Holders(m) /\ c # Flusher
    BY Sets, ZenonT(30) DEF Holders
  <2>2. Held(m) > 0
    BY <1>4, <2>1, ZenonT(30)
  <2>3. Flusher \in Holders(m)
    BY <1>1, <1>5, <1>6, <2>2
  <2>4. Cardinality(Holders(m) \ {c}) = Held(m) - 1
    BY <1>3, <2>1, FS_RemoveElement, ZenonT(30)
  <2>5. Holders(m) \ {c} # {} /\ IsFiniteSet(Holders(m) \ {c})
    BY <1>3, <2>1, <2>3, FS_RemoveElement, ZenonT(30)
  <2>6. Cardinality(Holders(m) \ {c}) > 0
    BY <2>5, FS_EmptySet, FS_CardinalityType
  <2> QED BY <1>1, <1>6, <2>4, <2>6
<1>8. hand[c] = <<c, sent[c]>>
  BY HoldsMsg, ZenonT(30)
<1> QED BY <1>2, <1>6, <1>7, <1>8 DEF Earlier

\* A message appended to the queue is the last of its session.
LEMMA EnqueuedOrdered ==
  ASSUME ForwardingTypeOK, ForwardingTypeOK', Hands, Ordered, \A m \in Msgs : Owned(m),
         NEW c \in Sessions, pc[c] \notin {"idle", "recheck"}, Enqueued(hand[c]),
         hand'[Flusher] = hand[Flusher], pc'[Flusher] = pc[Flusher]
  PROVE  Ordered'
<1> DEFINE q == IF Len(queue) >= QueueMax THEN Tail(queue) ELSE queue
           x == hand[c]
<1>1. queue \in Seq(Msgs) /\ x \in Msgs /\ x = <<c, sent[c]>> /\ queue' = Append(q, x)
  BY HoldsMsg, ZenonT(30) DEF ForwardingTypeOK, Enqueued
<1>2. ASSUME NEW i \in 1 .. Len(queue) PROVE Earlier(queue[i], x)
  <2>1. queue[i] \in Msgs
    BY <1>1
  <2>2. Occurs(queue[i], queue) # 0 /\ Occurs(queue[i], queue) \in Nat
    BY <1>1, OccursType, ZenonT(30)
  <2>3. Occurs(queue[i], queue) > 0
    BY <2>2
  <2>4. Owned(queue[i])
    BY <2>1, ZenonT(30)
  <2> QED BY <1>1, <2>1, <2>3, <2>4, QueuedBehind, ZenonT(30)
<1>3. Ready => Earlier(hand[Flusher], x)
  <2>1. Ready => hand[Flusher] \in Msgs
    BY Sets, ZenonT(30) DEF Ready, ForwardingTypeOK
  <2> QED BY <1>1, <2>1, QueuedBehind, ZenonT(30) DEF Ready
<1>4. /\ q \in Seq(Msgs) /\ \A i, j \in 1 .. Len(q) : i < j => Earlier(q[i], q[j])
      /\ \A i \in 1 .. Len(q) : Earlier(q[i], x)
      /\ Ready => \A i \in 1 .. Len(q) : Earlier(hand[Flusher], q[i])
  <2>1. CASE Len(queue) >= QueueMax
    <3>1. queue # <<>> /\ q = Tail(queue)
      BY <1>1, <2>1, Sizes
    <3>2. q \in Seq(Msgs) /\ \A i \in 1 .. Len(q) : i + 1 \in 1 .. Len(queue) /\ q[i] = queue[i + 1]
      BY <1>1, <3>1
    <3> HIDE DEF q, x
    <3>3. \A i, j \in 1 .. Len(q) : i < j => i + 1 < j + 1
      BY <3>2
    <3> QED BY <1>2, <3>2, <3>3, ZenonT(30) DEF Ordered
  <2>2. CASE ~(Len(queue) >= QueueMax)
    BY <1>1, <1>2, <2>2, ZenonT(30) DEF Ordered
  <2> QED BY <2>1, <2>2, ZenonT(30)
<1> HIDE DEF q, x
<1>5. /\ Len(queue') = Len(q) + 1 /\ queue'[Len(q) + 1] = x /\ Len(q) \in Nat
      /\ \A i \in 1 .. Len(q) : queue'[i] = q[i]
  BY <1>1, <1>4
<1>6. \A i \in 1 .. Len(queue') : i \in 1 .. Len(q) \/ i = Len(q) + 1
  BY <1>5
<1>7. ASSUME NEW i \in 1 .. Len(queue'), NEW j \in 1 .. Len(queue'), i < j PROVE Earlier(queue'[i], queue'[j])
  <2>1. i \in 1 .. Len(q)
    BY <1>5, <1>7
  <2> QED BY <1>4, <1>5, <1>6, <1>7, <2>1, ZenonT(30)
<1>8. Ready => \A i \in 1 .. Len(queue') : Earlier(hand[Flusher], queue'[i])
  BY <1>3, <1>4, <1>5, <1>6, ZenonT(30)
<1> QED BY <1>7, <1>8, ZenonT(30) DEF Ordered, Ready, Earlier

\* A queue that does not grow, with the same or no message taken from it.
LEMMA SameOrdered ==
  ASSUME Ordered, UNCHANGED queue, Ready' => Ready /\ hand'[Flusher] = hand[Flusher]
  PROVE  Ordered'
BY ZenonT(30) DEF Ordered, Earlier

\* Every step of an open client keeps the order of the queue.
LEMMA OrderStep ==
  ASSUME Frame, ForwardingTypeOK', \A m \in Msgs : Owned(m), Ordered, ~closing, ~closing', ForwardingNext
  PROVE  Ordered'
<1> USE DEF linkVars
<1>0. /\ ForwardingTypeOK /\ ForwardingTypeOK' /\ Hands /\ Open /\ Ordered
      /\ stopped = {} /\ ~closing /\ ~closing' /\ \A m \in Msgs : Owned(m)
  BY ZenonT(30) DEF Frame, Open
<1>1. ASSUME LinkStep PROVE Ordered'
  BY <1>1, <1>0, SameOrdered, ZenonT(30) DEF LinkStep, own, Ready
<1>2. ASSUME NEW c \in Sessions, Route(c) PROVE Ordered'
  <2>1. hand'[Flusher] = hand[Flusher] /\ pc'[Flusher] = pc[Flusher] /\ UNCHANGED queue
    BY <1>2, <1>0, Sets, ZenonT(30) DEF Route, Go, ForwardingTypeOK
  <2> QED BY <1>0, <2>1, SameOrdered, ZenonT(30) DEF Ready
<1>3. ASSUME NEW c \in Sessions, CheckState(c) PROVE Ordered'
  <2>1. hand'[Flusher] = hand[Flusher] /\ pc'[Flusher] = pc[Flusher] /\ UNCHANGED queue
    BY <1>3, <1>0, Sets, ZenonT(30) DEF CheckState, Go, ForwardingTypeOK
  <2> QED BY <1>0, <2>1, SameOrdered, ZenonT(30) DEF Ready
<1>4. ASSUME NEW c \in Sessions, CheckClosing(c) PROVE Ordered'
  <2>1. hand'[Flusher] = hand[Flusher] /\ pc'[Flusher] = pc[Flusher] /\ UNCHANGED queue
    BY <1>4, <1>0, Sets DEF CheckClosing, Go, ForwardingTypeOK
  <2> QED BY <1>0, <2>1, SameOrdered, ZenonT(30) DEF Ready
<1>5. ASSUME NEW c \in Sessions, EnqueueOffline(c) PROVE Ordered'
  <2>1. hand'[Flusher] = hand[Flusher] /\ pc'[Flusher] = pc[Flusher]
    BY <1>5, <1>0, Sets, ZenonT(30) DEF EnqueueOffline, Accepted, Go, ForwardingTypeOK
  <2>2. pc[c] = "enqueue" /\ Enqueued(hand[c])
    BY <1>5, ZenonT(30) DEF EnqueueOffline, Accepted, Go
  <2> QED BY <1>0, <2>1, <2>2, EnqueuedOrdered, ZenonT(30)
<1>6. ASSUME NEW c \in Sessions, EnqueueRefused(c) PROVE Ordered'
  <2>1. hand'[Flusher] = hand[Flusher] /\ pc'[Flusher] = pc[Flusher]
    BY <1>6, <1>0, Sets, ZenonT(30) DEF EnqueueRefused, Accepted, Go, ForwardingTypeOK
  <2>2. pc[c] = "failed" /\ Enqueued(hand[c])
    BY <1>6, ZenonT(30) DEF EnqueueRefused, Accepted, Go
  <2> QED BY <1>0, <2>1, <2>2, EnqueuedOrdered, ZenonT(30)
<1>7. ASSUME NEW p \in Senders, CheckClosed(p) PROVE Ordered'
  <2>1. UNCHANGED queue
    BY <1>7, ZenonT(30) DEF CheckClosed
  <2>2. Ready' => Ready /\ hand'[Flusher] = hand[Flusher]
    BY <1>7, <1>0, Sets, ZenonT(30) DEF CheckClosed, Go, Ready, ForwardingTypeOK
  <2> QED BY <1>0, <2>1, <2>2, SameOrdered, ZenonT(30)
<1>8. ASSUME NEW p \in Senders, Push(p) PROVE Ordered'
  <2>1. UNCHANGED queue
    BY <1>8, ZenonT(30) DEF Push
  <2>2. Ready' => Ready /\ hand'[Flusher] = hand[Flusher]
    BY <1>8, <1>0, Sets DEF Push, PushTo, Go, Ready, ForwardingTypeOK
  <2> QED BY <1>0, <2>1, <2>2, SameOrdered, ZenonT(30)
<1>9. ASSUME NEW p \in Senders, PushWaiting(p) PROVE Ordered'
  <2>1. UNCHANGED queue
    BY <1>9, ZenonT(30) DEF PushWaiting
  <2>2. Ready' => Ready /\ hand'[Flusher] = hand[Flusher]
    BY <1>9, <1>0, Sets DEF PushWaiting, PushTo, Go, Ready, ForwardingTypeOK
  <2> QED BY <1>0, <2>1, <2>2, SameOrdered, ZenonT(30)
<1>10. ASSUME NEW p \in Senders, Recheck(p) PROVE Ordered'
  <2>1. ShardOK(p, "recheck") /\ pc[p] = "recheck" /\ UNCHANGED queue
    BY <1>10, <1>0, ZenonT(30) DEF Recheck
  <2>2. \E to : pc' = [pc EXCEPT ![p] = to] /\ hand' = [hand EXCEPT ![p] = NoMsg]
    BY <2>1, ZenonT(30) DEF ShardOK, Accepted, Go
  <2>3. Ready' => Ready /\ hand'[Flusher] = hand[Flusher]
    BY <1>0, <2>1, <2>2, Sets, ZenonT(30) DEF Ready, ForwardingTypeOK
  <2> QED BY <1>0, <2>1, <2>3, SameOrdered, ZenonT(30)
<1>11. ASSUME FlushStart PROVE Ordered'
  <2>1. UNCHANGED queue
    BY <1>11, ZenonT(30) DEF FlushStart
  <2>2. Ready' => Ready /\ hand'[Flusher] = hand[Flusher]
    BY <1>11, <1>0, Sets, ZenonT(30) DEF FlushStart, Go, Ready, ForwardingTypeOK, Hands, Pending
  <2> QED BY <1>0, <2>1, <2>2, SameOrdered, ZenonT(30)
<1>12. ASSUME FlushDequeue PROVE Ordered'
  <2>1. CASE queue = <<>>
    <3>1. queue' = queue /\ Ready' => Ready /\ hand'[Flusher] = hand[Flusher]
      BY <1>12, <1>0, <2>1, Sets, ZenonT(30) DEF FlushDequeue, Go, Ready, ForwardingTypeOK
    <3>2. queue' = queue
      BY <1>12, <2>1, ZenonT(30) DEF FlushDequeue
    <3> QED BY <1>0, <3>1, <3>2, SameOrdered, ZenonT(30)
  <2>2. CASE queue # <<>>
    <3>1. hand'[Flusher] = Head(queue) /\ queue' = Tail(queue)
      BY <1>12, <1>0, <2>2, Sets, ZenonT(30) DEF FlushDequeue, ForwardingTypeOK
    <3>2. /\ Head(queue) = queue[1] /\ 1 \in 1 .. Len(queue)
          /\ \A i \in 1 .. Len(queue') : i + 1 \in 1 .. Len(queue) /\ queue'[i] = queue[i + 1] /\ 1 < i + 1
      BY <1>0, <2>2, <3>1 DEF ForwardingTypeOK
    <3>3. \A i, j \in 1 .. Len(queue') : i < j => i + 1 < j + 1
      OBVIOUS
    <3>4. \A i, j \in 1 .. Len(queue') : i < j => Earlier(queue'[i], queue'[j])
      BY <1>0, <3>2, <3>3, ZenonT(30) DEF Ordered
    <3>5. \A i \in 1 .. Len(queue') : Earlier(hand'[Flusher], queue'[i])
      BY <1>0, <3>1, <3>2, ZenonT(30) DEF Ordered
    <3> QED BY <3>4, <3>5, ZenonT(30) DEF Ordered, Earlier
  <2> QED BY <2>1, <2>2, ZenonT(30)
<1>13. ASSUME FlushCheck PROVE Ordered'
  <2>1. UNCHANGED queue
    BY <1>13, ZenonT(30) DEF FlushCheck
  <2>2. Ready' => Ready /\ hand'[Flusher] = hand[Flusher]
    BY <1>13, <1>0, Sets, ZenonT(30) DEF FlushCheck, Go, Ready, ForwardingTypeOK, Hands, Pending
  <2> QED BY <1>0, <2>1, <2>2, SameOrdered, ZenonT(30)
<1>14. ASSUME FlushDirect PROVE Ordered'
  <2>1. UNCHANGED queue
    BY <1>14, ZenonT(30) DEF FlushDirect
  <2>2. Ready' => Ready /\ hand'[Flusher] = hand[Flusher]
    BY <1>14, <1>0, Sets, ZenonT(30) DEF FlushDirect, Go, Ready, ForwardingTypeOK, Hands, Pending
  <2> QED BY <1>0, <2>1, <2>2, SameOrdered, ZenonT(30)
<1>15. ASSUME FlushRequeue PROVE Ordered'
  <2> DEFINE q == IF Len(queue) >= QueueMax THEN Tail(queue) ELSE queue
             x == hand[Flusher]
  <2>1. /\ pc[Flusher] = "failed" /\ hand'[Flusher] = NoMsg /\ queue' = <<x>> \o q
    BY <1>15, <1>0, Sets, ZenonT(30) DEF FlushRequeue, Go, ForwardingTypeOK
  <2>2. x \in Msgs /\ Ready
    BY <1>0, <2>1, HoldsMsg, Sets, ZenonT(30) DEF Pending, Ready
  <2>3. /\ q \in Seq(Msgs) /\ \A i, j \in 1 .. Len(q) : i < j => Earlier(q[i], q[j])
        /\ \A i \in 1 .. Len(q) : Earlier(x, q[i])
    <3>1. CASE Len(queue) >= QueueMax
      <4>1. queue \in Seq(Msgs) /\ queue # <<>> /\ q = Tail(queue)
        BY <1>0, <3>1, Sizes DEF ForwardingTypeOK
      <4>2. q \in Seq(Msgs) /\ \A i \in 1 .. Len(q) : i + 1 \in 1 .. Len(queue) /\ q[i] = queue[i + 1]
        BY <4>1
      <4> HIDE DEF q
      <4>3. \A i, j \in 1 .. Len(q) : i < j => i + 1 < j + 1
        BY <4>2
      <4> QED BY <1>0, <2>2, <4>2, <4>3, ZenonT(30) DEF Ordered
    <3>2. CASE ~(Len(queue) >= QueueMax)
      BY <1>0, <2>2, <3>2, ZenonT(30) DEF Ordered, ForwardingTypeOK
    <3> QED BY <3>1, <3>2, ZenonT(30)
  <2> HIDE DEF q, x
  <2>4. InOrder(queue')
    BY <2>1, <2>2, <2>3, FrontInOrder, ZenonT(30)
  <2> QED BY <2>1, <2>4, ZenonT(30) DEF Ordered, Ready, InOrder, Earlier
<1>16. ASSUME FlushReturn PROVE Ordered'
  <2>1. UNCHANGED queue
    BY <1>16, ZenonT(30) DEF FlushReturn
  <2>2. Ready' => Ready /\ hand'[Flusher] = hand[Flusher]
    BY <1>16, <1>0, Sets, ZenonT(30) DEF FlushReturn, Go, Ready, ForwardingTypeOK, Hands, Pending
  <2> QED BY <1>0, <2>1, <2>2, SameOrdered, ZenonT(30)
<1>17. ASSUME NEW sh \in Shards, LoopExit(sh) PROVE Ordered'
  BY <1>17, <1>0, SameOrdered, ZenonT(30) DEF LoopExit, Ready
<1>18. ASSUME NEW sh \in Shards, LoopTake(sh) PROVE Ordered'
  BY <1>18, <1>0, SameOrdered, ZenonT(30) DEF LoopTake, Ready
<1>19. ASSUME NEW sh \in Shards, LoopDrained(sh) PROVE Ordered'
  BY <1>19, <1>0, SameOrdered, ZenonT(30) DEF LoopDrained, Ready
<1>20. ASSUME NEW sh \in Shards, LoopRead(sh) PROVE Ordered'
  BY <1>20, <1>0, SameOrdered, ZenonT(30) DEF LoopRead, Ready
<1>21. ASSUME NEW sh \in Shards, LoopSendOK(sh) PROVE Ordered'
  BY <1>21, <1>0, SameOrdered, ZenonT(30) DEF LoopSendOK, Ready
<1>22. ASSUME NEW sh \in Shards, LoopSendFail(sh) PROVE Ordered'
  BY <1>22, <1>0, SameOrdered, ZenonT(30) DEF LoopSendFail, Ready
<1>23. ASSUME CloseLock PROVE Ordered'
  BY <1>23, <1>0, SameOrdered, ZenonT(30) DEF CloseLock, Ready
<1>24. ASSUME CloseUnlock PROVE Ordered'
  BY <1>24, <1>0, SameOrdered, ZenonT(30) DEF CloseUnlock, Ready
<1>25. ASSUME CloseDown PROVE Ordered'
  BY <1>25, <1>0, SameOrdered, ZenonT(30) DEF CloseDown, Ready
<1>26. ASSUME NEW sh \in Shards, CloseStop(sh) PROVE Ordered'
  BY <1>26, <1>0, SameOrdered, ZenonT(30) DEF CloseStop, Ready
<1>27. ASSUME NEW sh \in Shards, CloseDrain(sh) PROVE Ordered'
  BY <1>27, <1>0, SameOrdered, ZenonT(30) DEF CloseDrain, Ready
<1> QED
  BY <1>1, <1>2, <1>3, <1>4, <1>5, <1>6, <1>7, <1>8, <1>9, <1>10, <1>11, <1>12, <1>13, <1>14, <1>15, <1>16, <1>17, <1>18, <1>19, <1>20, <1>21, <1>22, <1>23, <1>24, <1>25, <1>26, <1>27, ZenonT(30)
     DEF ForwardingNext, SessionStep, SenderStep, FlushStep, LoopStep, CloseStep

-----------------------------------------------------------------------------
(* The order of the messages that never saw the queue.                     *)

\* Where a session has given its last message to a channel, or to no one.
Free == {"idle", "recheck", "failed"}

\* A message in or behind a channel is not one that its session may push.
Pushed(m) ==
  m \notin viaQueue => m[2] < sent[m[1]] \/ (m[2] = sent[m[1]] /\ pc[m[1]] \in Free)

\* The wire, the batch and the channel of a shard, one behind the other.
Row(s) == \A i, j \in 1 .. Len(s) : i < j => Ahead(s[i], s[j])
Before(s, t) == \A i \in 1 .. Len(s), j \in 1 .. Len(t) : Ahead(s[i], t[j])
Given(s) == \A i \in 1 .. Len(s) : Pushed(s[i])

Lined(w, b, s) ==
  /\ Row(w) /\ Row(b) /\ Row(s)
  /\ Before(w, b) /\ Before(w, s) /\ Before(b, s)

Pipe(w, b, s) == Lined(w, b, s) /\ Given(w) /\ Given(b) /\ Given(s)

Piped == \A sh \in Shards : Pipe(wire[sh], batch[sh], sendCh[sh])

\* What a message at the end of a sequence needs.
LEMMA RowAppend ==
  ASSUME NEW s \in Seq(Msgs), NEW x \in Msgs, Row(s), \A i \in 1 .. Len(s) : Ahead(s[i], x)
  PROVE  Row(Append(s, x))
<1> DEFINE t == Append(s, x)
<1>1. Len(t) = Len(s) + 1 /\ t[Len(s) + 1] = x /\ Len(s) \in Nat /\ \A i \in 1 .. Len(s) : t[i] = s[i]
  BY SeqFacts
<1> HIDE DEF t
<1> SUFFICES ASSUME NEW i \in 1 .. Len(t), NEW j \in 1 .. Len(t), i < j PROVE Ahead(t[i], t[j])
  BY ZenonT(30) DEF t, Row
<1>2. i \in 1 .. Len(s) /\ (j \in 1 .. Len(s) \/ j = Len(s) + 1)
  BY <1>1
<1> QED BY <1>1, <1>2, ZenonT(30) DEF Row

\* The same between two sequences.
LEMMA BeforeAppend ==
  ASSUME NEW s \in Seq(Msgs), NEW t \in Seq(Msgs), NEW x \in Msgs, Before(s, t),
         \A i \in 1 .. Len(s) : Ahead(s[i], x)
  PROVE  Before(s, Append(t, x))
<1>1. /\ Len(Append(t, x)) = Len(t) + 1 /\ Append(t, x)[Len(t) + 1] = x /\ Len(t) \in Nat
      /\ \A i \in 1 .. Len(t) : Append(t, x)[i] = t[i]
  BY SeqFacts
<1>2. \A j \in 1 .. Len(Append(t, x)) : j \in 1 .. Len(t) \/ j = Len(t) + 1
  BY <1>1
<1> QED BY <1>1, <1>2, ZenonT(30) DEF Before

\* The head of a channel moves to the end of the batch.
LEMMA PipeTake ==
  ASSUME NEW w \in Seq(Msgs), NEW b \in Seq(Msgs), NEW s \in Seq(Msgs), s # <<>>, Pipe(w, b, s)
  PROVE  Pipe(w, Append(b, Head(s)), Tail(s))
<1> DEFINE x == Head(s)
           c == Append(b, x)
           t == Tail(s)
<1>1. /\ x \in Msgs /\ x = s[1] /\ t \in Seq(Msgs) /\ c \in Seq(Msgs) /\ 1 \in 1 .. Len(s)
      /\ \A i \in 1 .. Len(t) : i + 1 \in 1 .. Len(s) /\ t[i] = s[i + 1] /\ 1 < i + 1
  OBVIOUS
<1>2. \A i \in 1 .. Len(c) : c[i] = x \/ \E k \in 1 .. Len(b) : c[i] = b[k]
  BY <1>1
<1>3. \A i, j \in 1 .. Len(t) : i < j => i + 1 < j + 1
  OBVIOUS
<1> HIDE DEF x, c, t
<1>4. Row(t) /\ Before(w, t) /\ Given(t)
  BY <1>1, <1>3, ZenonT(30) DEF Pipe, Lined, Row, Before, Given
<1>5. /\ \A i \in 1 .. Len(w) : Ahead(w[i], x)
      /\ \A i \in 1 .. Len(b) : Ahead(b[i], x)
      /\ \A i \in 1 .. Len(t) : Ahead(x, t[i])
      /\ Pushed(x)
  BY <1>1, ZenonT(30) DEF Pipe, Lined, Row, Before, Given
<1>6. Row(c) /\ Before(w, c)
  BY <1>1, <1>5, RowAppend, BeforeAppend, ZenonT(30) DEF Pipe, Lined, c
<1>7. \A i \in 1 .. Len(b), j \in 1 .. Len(t) : Ahead(b[i], t[j])
  BY <1>1, ZenonT(30) DEF Pipe, Lined, Before
<1>8. Before(c, t) /\ Given(c)
  BY <1>2, <1>5, <1>7, ZenonT(30) DEF Pipe, Before, Given
<1> QED BY <1>4, <1>6, <1>8, ZenonT(30) DEF Pipe, Lined, x, c, t

\* A batch is dropped.
LEMMA PipeDrop ==
  ASSUME NEW w, NEW b, NEW s, Pipe(w, b, s)
  PROVE  Pipe(w, <<>>, s)
<1>1. \A i \in 1 .. Len(<<>>) : FALSE
  OBVIOUS
<1> QED BY <1>1, ZenonT(30) DEF Pipe, Lined, Row, Before, Given

\* A batch goes to the transport.
LEMMA PipeSend ==
  ASSUME NEW w \in Seq(Msgs), NEW b \in Seq(Msgs), NEW s \in Seq(Msgs), Pipe(w, b, s)
  PROVE  Pipe(w \o b, <<>>, s)
<1> DEFINE v == w \o b
<1>1. /\ Len(v) = Len(w) + Len(b) /\ Len(w) \in Nat /\ Len(b) \in Nat
      /\ \A i \in 1 .. Len(v) : v[i] = IF i <= Len(w) THEN w[i] ELSE b[i - Len(w)]
  OBVIOUS
<1> HIDE DEF v
<1>2. \A i \in 1 .. Len(v) : \/ i \in 1 .. Len(w) /\ v[i] = w[i]
                             \/ i > Len(w) /\ i - Len(w) \in 1 .. Len(b) /\ v[i] = b[i - Len(w)]
  BY <1>1
<1>3. ASSUME NEW i \in 1 .. Len(v), NEW j \in 1 .. Len(v), i < j PROVE Ahead(v[i], v[j])
  <2>1. CASE i \in 1 .. Len(w) /\ v[i] = w[i] /\ j \in 1 .. Len(w) /\ v[j] = w[j]
    BY <1>3, <2>1, ZenonT(30) DEF Pipe, Lined, Row
  <2>2. CASE i \in 1 .. Len(w) /\ v[i] = w[i] /\ j - Len(w) \in 1 .. Len(b) /\ v[j] = b[j - Len(w)]
    BY <2>2, ZenonT(30) DEF Pipe, Lined, Before
  <2>3. CASE /\ i > Len(w) /\ i - Len(w) \in 1 .. Len(b) /\ v[i] = b[i - Len(w)]
             /\ j - Len(w) \in 1 .. Len(b) /\ v[j] = b[j - Len(w)]
    <3>1. i - Len(w) < j - Len(w)
      BY <1>1, <1>3
    <3> QED BY <2>3, <3>1, ZenonT(30) DEF Pipe, Lined, Row
  <2>4. ~(i > Len(w) /\ j \in 1 .. Len(w))
    BY <1>1, <1>3
  <2> QED BY <1>2, <2>1, <2>2, <2>3, <2>4, ZenonT(30)
<1>4. Row(v)
  BY <1>3, ZenonT(30) DEF Row
<1>5. Before(v, s) /\ Given(v)
  BY <1>2, ZenonT(30) DEF Pipe, Lined, Before, Given
<1>6. \A i \in 1 .. Len(<<>>) : FALSE
  OBVIOUS
<1>7. Row(<<>>) /\ Before(v, <<>>) /\ Before(<<>>, s) /\ Given(<<>>)
  BY <1>6, ZenonT(30) DEF Row, Before, Given
<1> QED BY <1>4, <1>5, <1>7, ZenonT(30) DEF Pipe, Lined, v

\* Close takes the head of a channel away.
LEMMA PipeTail ==
  ASSUME NEW w \in Seq(Msgs), NEW b \in Seq(Msgs), NEW s \in Seq(Msgs), s # <<>>, Pipe(w, b, s)
  PROVE  Pipe(w, b, Tail(s))
<1> DEFINE t == Tail(s)
<1>1. \A i \in 1 .. Len(t) : i + 1 \in 1 .. Len(s) /\ t[i] = s[i + 1]
  OBVIOUS
<1>2. \A i, j \in 1 .. Len(t) : i < j => i + 1 < j + 1
  OBVIOUS
<1> HIDE DEF t
<1>3. Row(t) /\ Before(w, t) /\ Before(b, t) /\ Given(t)
  BY <1>1, <1>2, ZenonT(30) DEF Pipe, Lined, Row, Before, Given
<1> QED BY <1>3, ZenonT(30) DEF Pipe, Lined, t

\* What a message may lose in a step: nothing.
Mono ==
  /\ viaQueue \subseteq viaQueue'
  /\ \A m \in Msgs : Pushed(m) => Pushed(m)'

\* The order stays when messages are seen by the queue.
LEMMA LinedStays ==
  ASSUME NEW w, NEW b, NEW s, viaQueue \subseteq viaQueue', Lined(w, b, s)
  PROVE  Lined(w, b, s)'
<1>1. \A m, n : Ahead(m, n) => Ahead(m, n)'
  BY ZenonT(30) DEF Ahead
<1> QED BY <1>1, ZenonT(30) DEF Lined, Row, Before

\* The order in a pipe stays while its contents do.
LEMMA PipeStays ==
  ASSUME NEW w \in Seq(Msgs), NEW b \in Seq(Msgs), NEW s \in Seq(Msgs), Mono, Pipe(w, b, s)
  PROVE  Pipe(w, b, s)'
<1>1. Lined(w, b, s)'
  BY LinedStays, ZenonT(30) DEF Mono, Pipe
<1>2. /\ \A i \in 1 .. Len(w) : w[i] \in Msgs
      /\ \A i \in 1 .. Len(b) : b[i] \in Msgs
      /\ \A i \in 1 .. Len(s) : s[i] \in Msgs
  OBVIOUS
<1> QED BY <1>1, <1>2, ZenonT(30) DEF Mono, Pipe, Given

\* What a step does to the wire, the batch and the channel of a shard.
Moved(sh) ==
  \/ wire'[sh] = wire[sh] /\ batch'[sh] = batch[sh] /\ sendCh'[sh] = sendCh[sh]
  \/ /\ sendCh[sh] # <<>> /\ wire'[sh] = wire[sh]
     /\ batch'[sh] = Append(batch[sh], Head(sendCh[sh])) /\ sendCh'[sh] = Tail(sendCh[sh])
  \/ wire'[sh] = wire[sh] /\ batch'[sh] = <<>> /\ sendCh'[sh] = sendCh[sh]
  \/ wire'[sh] = wire[sh] \o batch[sh] /\ batch'[sh] = <<>> /\ sendCh'[sh] = sendCh[sh]
  \/ /\ sendCh[sh] # <<>> /\ wire'[sh] = wire[sh] /\ batch'[sh] = batch[sh]
     /\ sendCh'[sh] = Tail(sendCh[sh])

\* The order in a pipe stays when the send loop takes, drops or sends its messages.
LEMMA PipedMoves ==
  ASSUME ForwardingTypeOK, Piped, Mono, NEW sh \in Shards, Moved(sh)
  PROVE  Pipe(wire[sh], batch[sh], sendCh[sh])'
<1>1. PICK w \in Seq(Msgs) : w = wire[sh]
  BY ZenonT(30) DEF ForwardingTypeOK
<1>2. PICK b \in Seq(Msgs) : b = batch[sh]
  BY ZenonT(30) DEF ForwardingTypeOK
<1>3. PICK s \in Seq(Msgs) : s = sendCh[sh]
  BY ZenonT(30) DEF ForwardingTypeOK
<1>4. Pipe(w, b, s)
  BY <1>1, <1>2, <1>3, ZenonT(30) DEF Piped
<1>5. <<>> \in Seq(Msgs)
  OBVIOUS
<1>6. CASE wire'[sh] = w /\ batch'[sh] = b /\ sendCh'[sh] = s
  BY <1>4, <1>6, PipeStays, ZenonT(30)
<1>7. CASE s # <<>> /\ wire'[sh] = w /\ batch'[sh] = Append(b, Head(s)) /\ sendCh'[sh] = Tail(s)
  <2>1. Append(b, Head(s)) \in Seq(Msgs) /\ Tail(s) \in Seq(Msgs)
    BY <1>7
  <2>2. Pipe(w, Append(b, Head(s)), Tail(s))
    BY <1>4, <1>7, PipeTake, ZenonT(30)
  <2>3. Pipe(w, Append(b, Head(s)), Tail(s))'
    BY <2>1, <2>2, PipeStays, ZenonT(30)
  <2> QED BY <1>7, <2>3, ZenonT(30)
<1>8. CASE wire'[sh] = w /\ batch'[sh] = <<>> /\ sendCh'[sh] = s
  <2>1. Pipe(w, <<>>, s)
    BY <1>4, PipeDrop, ZenonT(30)
  <2>2. Pipe(w, <<>>, s)'
    BY <1>5, <2>1, PipeStays, ZenonT(30)
  <2> QED BY <1>8, <2>2, ZenonT(30)
<1>9. CASE wire'[sh] = w \o b /\ batch'[sh] = <<>> /\ sendCh'[sh] = s
  <2>1. w \o b \in Seq(Msgs)
    OBVIOUS
  <2>2. Pipe(w \o b, <<>>, s)
    BY <1>4, PipeSend, ZenonT(30)
  <2>3. Pipe(w \o b, <<>>, s)'
    BY <1>5, <2>1, <2>2, PipeStays, ZenonT(30)
  <2> QED BY <1>9, <2>3, ZenonT(30)
<1>10. CASE s # <<>> /\ wire'[sh] = w /\ batch'[sh] = b /\ sendCh'[sh] = Tail(s)
  <2>1. Tail(s) \in Seq(Msgs)
    BY <1>10
  <2>2. Pipe(w, b, Tail(s))
    BY <1>4, <1>10, PipeTail, ZenonT(30)
  <2>3. Pipe(w, b, Tail(s))'
    BY <2>1, <2>2, PipeStays, ZenonT(30)
  <2> QED BY <1>10, <2>3, ZenonT(30)
<1> QED BY <1>1, <1>2, <1>3, <1>6, <1>7, <1>8, <1>9, <1>10, ZenonT(30) DEF Moved

\* A sender that moves on does not take its last message back.
LEMMA MonoMove ==
  ASSUME ForwardingTypeOK, NEW p \in Senders, NEW to, pc' = [pc EXCEPT ![p] = to], UNCHANGED sent,
         viaQueue \subseteq viaQueue', p \in Sessions /\ pc[p] \in Free => to \in Free
  PROVE  Mono
<1> SUFFICES ASSUME NEW m \in Msgs, Pushed(m), m \notin viaQueue'
             PROVE  m[2] < sent'[m[1]] \/ (m[2] = sent'[m[1]] /\ pc'[m[1]] \in Free)
  BY ZenonT(30) DEF Mono, Pushed
<1>1. m[1] \in Senders /\ m[1] \in Sessions
  BY Sets, ZenonT(30)
<1>2. pc'[m[1]] = IF m[1] = p THEN to ELSE pc[m[1]]
  BY <1>1, ZenonT(30) DEF ForwardingTypeOK
<1> QED BY <1>1, <1>2, ZenonT(30) DEF Pushed

\* A push by a session or by the Flusher.
LEMMA PipedPush ==
  ASSUME ForwardingTypeOK, Hands, Queued, Piped, NEW p \in Senders, hand[p] \in Msgs,
         NEW from \in {"push", "wait"}, PushTo(p, from, ShardOf(hand[p])),
         UNCHANGED <<wire, batch, sent, viaQueue>>
  PROVE  Piped'
<1>1. PICK x \in Msgs : x = hand[p]
  BY ZenonT(30)
<1>2. /\ ShardOf(x) \in Shards /\ pc[p] = from /\ pc' = [pc EXCEPT ![p] = "recheck"]
      /\ sendCh' = [sendCh EXCEPT ![ShardOf(x)] = Append(sendCh[ShardOf(x)], x)]
  BY <1>1, Sets, ZenonT(30) DEF PushTo, Go
<1>3. Mono
  BY <1>2, MonoMove, ZenonT(30) DEF Free
<1>4. x \in viaQueue \/ (p \in Sessions /\ x = <<p, sent[p]>>)
  <2>1. CASE p = Flusher
    BY <1>1, <2>1, Sets, ZenonT(30) DEF Queued
  <2>2. CASE p # Flusher
    BY <1>1, <1>2, <2>2, HoldsMsg, ZenonT(30) DEF Senders
  <2> QED BY <2>1, <2>2, ZenonT(30)
<1>5. ASSUME NEW m \in Msgs, Pushed(m) PROVE Ahead(m, x)
  BY <1>2, <1>4, <1>5 DEF Pushed, Ahead, Free
<1>6. Pushed(x)'
  <2>1. CASE x \in viaQueue
    BY <2>1, ZenonT(30) DEF Pushed
  <2>2. CASE p \in Sessions /\ x = <<p, sent[p]>>
    <3>1. x[1] = p /\ x[2] = sent[p] /\ pc'[p] = "recheck"
      BY <1>2, <2>2, ZenonT(30) DEF ForwardingTypeOK
    <3> QED BY <3>1, ZenonT(30) DEF Pushed, Free
  <2> QED BY <1>4, <2>1, <2>2, ZenonT(30)
<1>7. ASSUME NEW sh \in Shards, sh # ShardOf(x) PROVE Pipe(wire[sh], batch[sh], sendCh[sh])'
  <2>1. Moved(sh)
    BY <1>2, <1>7, ZenonT(30) DEF Moved, ForwardingTypeOK
  <2> QED BY <1>3, <2>1, PipedMoves, ZenonT(30)
<1>8. ASSUME NEW sh \in Shards, sh = ShardOf(x) PROVE Pipe(wire[sh], batch[sh], sendCh[sh])'
  <2>1. PICK w \in Seq(Msgs) : w = wire[sh]
    BY ZenonT(30) DEF ForwardingTypeOK
  <2>2. PICK b \in Seq(Msgs) : b = batch[sh]
    BY ZenonT(30) DEF ForwardingTypeOK
  <2>3. PICK s \in Seq(Msgs) : s = sendCh[sh]
    BY ZenonT(30) DEF ForwardingTypeOK
  <2>4. Pipe(w, b, s)
    BY <2>1, <2>2, <2>3, ZenonT(30) DEF Piped
  <2>5. wire'[sh] = w /\ batch'[sh] = b /\ sendCh'[sh] = Append(s, x)
    BY <1>2, <1>8, <2>1, <2>2, <2>3, ZenonT(30) DEF ForwardingTypeOK
  <2>6. /\ \A i \in 1 .. Len(w) : w[i] \in Msgs
        /\ \A i \in 1 .. Len(b) : b[i] \in Msgs
        /\ \A i \in 1 .. Len(s) : s[i] \in Msgs
    OBVIOUS
  <2>7. /\ \A i \in 1 .. Len(w) : Ahead(w[i], x)
        /\ \A i \in 1 .. Len(b) : Ahead(b[i], x)
        /\ \A i \in 1 .. Len(s) : Ahead(s[i], x)
    BY <1>5, <2>4, <2>6, ZenonT(30) DEF Pipe, Given
  <2>8. Row(Append(s, x)) /\ Before(w, Append(s, x)) /\ Before(b, Append(s, x))
    BY <2>4, <2>7, RowAppend, BeforeAppend, ZenonT(30) DEF Pipe, Lined
  <2>9. Lined(w, b, Append(s, x))
    BY <2>4, <2>8, ZenonT(30) DEF Pipe, Lined
  <2>10. Lined(w, b, Append(s, x))'
    BY <1>3, <2>9, LinedStays, ZenonT(30) DEF Mono
  <2>11. Pipe(w, b, s)'
    BY <1>3, <2>4, PipeStays, ZenonT(30)
  <2>12. \A i \in 1 .. Len(Append(s, x)) : Append(s, x)[i] = x \/ \E k \in 1 .. Len(s) : Append(s, x)[i] = s[k]
    OBVIOUS
  <2>13. Given(Append(s, x))'
    BY <1>6, <2>11, <2>12, ZenonT(30) DEF Pipe, Given
  <2>14. Pipe(w, b, Append(s, x))'
    BY <2>10, <2>11, <2>13, ZenonT(30) DEF Pipe
  <2> QED BY <2>5, <2>14, ZenonT(30)
<1> QED BY <1>7, <1>8, ZenonT(30) DEF Piped

\* Every step keeps the order behind the channels.
LEMMA PipedStep ==
  ASSUME Frame, Piped, ForwardingNext
  PROVE  Piped'
<1> USE DEF linkVars
<1>0. ForwardingTypeOK /\ Hands /\ Queued /\ Piped
  BY ZenonT(30) DEF Frame
<1>1. ASSUME LinkStep PROVE Piped'
  <2>1. \A sh \in Shards : Moved(sh)
    BY <1>1, ZenonT(30) DEF LinkStep, own, Moved
  <2>2. Mono
    BY <1>1, ZenonT(30) DEF LinkStep, own, Mono, Pushed
  <2> QED BY <1>0, <2>1, <2>2, PipedMoves, ZenonT(30) DEF Piped
<1>2. ASSUME NEW c \in Sessions, Route(c) PROVE Piped'
  <2>1. \A sh \in Shards : Moved(sh)
    BY <1>2, ZenonT(30) DEF Route, Moved
  <2>2. Mono
    <3> SUFFICES ASSUME NEW m \in Msgs, Pushed(m), m \notin viaQueue
                 PROVE  m[2] < sent'[m[1]] \/ (m[2] = sent'[m[1]] /\ pc'[m[1]] \in Free)
      BY <1>2, ZenonT(30) DEF Route, Mono, Pushed
    <3>1. m[1] \in Sessions /\ m[1] \in Senders /\ m[2] \in Nat /\ sent[m[1]] \in Nat
      BY <1>0, Sets, Sizes DEF ForwardingTypeOK
    <3>2. pc' = [pc EXCEPT ![c] = "start"] /\ sent' = [sent EXCEPT ![c] = sent[c] + 1]
      BY <1>2, ZenonT(30) DEF Route, Go
    <3>3. m[2] < sent[m[1]] \/ (m[2] = sent[m[1]] /\ pc[m[1]] \in Free)
      BY ZenonT(30) DEF Pushed
    <3>4. CASE m[1] = c
      <4>1. sent'[m[1]] = sent[m[1]] + 1
        BY <1>0, <3>1, <3>2, <3>4, ZenonT(30) DEF ForwardingTypeOK
      <4> QED BY <3>1, <3>3, <4>1
    <3>5. CASE m[1] # c
      <4>1. sent'[m[1]] = sent[m[1]] /\ pc'[m[1]] = pc[m[1]]
        BY <1>0, <3>1, <3>2, <3>5, ZenonT(30) DEF ForwardingTypeOK
      <4> QED BY <3>3, <4>1, ZenonT(30)
    <3> QED BY <3>4, <3>5, ZenonT(30)
  <2> QED BY <1>0, <2>1, <2>2, PipedMoves, ZenonT(30) DEF Piped
<1>3. ASSUME NEW c \in Sessions, CheckState(c) PROVE Piped'
  <2>1. \A sh \in Shards : Moved(sh)
    BY <1>3, ZenonT(30) DEF CheckState, Moved
  <2>2. Mono
    <3>1. PICK to \in {"closed", "closing"} : pc' = [pc EXCEPT ![c] = to]
      BY <1>3, ZenonT(30) DEF CheckState, Go
    <3>2. c \in Sessions /\ pc[c] \in Free => to \in Free
      BY <1>3, <3>1, Sets, ZenonT(30) DEF CheckState, Go, Free
    <3>3. UNCHANGED sent /\ viaQueue \subseteq viaQueue'
      BY <1>3, ZenonT(30) DEF CheckState, Go
    <3> QED BY <1>0, <3>1, <3>2, <3>3, MonoMove, Sets, ZenonT(30)
  <2> QED BY <1>0, <2>1, <2>2, PipedMoves, ZenonT(30) DEF Piped
<1>4. ASSUME NEW c \in Sessions, CheckClosing(c) PROVE Piped'
  <2>1. \A sh \in Shards : Moved(sh)
    BY <1>4, ZenonT(30) DEF CheckClosing, Moved
  <2>2. Mono
    <3>1. PICK to \in {"idle", "enqueue"} : pc' = [pc EXCEPT ![c] = to]
      BY <1>4, ZenonT(30) DEF CheckClosing, Go
    <3>2. c \in Sessions /\ pc[c] \in Free => to \in Free
      BY <1>4, <3>1, Sets, ZenonT(30) DEF CheckClosing, Go, Free
    <3>3. UNCHANGED sent /\ viaQueue \subseteq viaQueue'
      BY <1>4, ZenonT(30) DEF CheckClosing, Go
    <3> QED BY <1>0, <3>1, <3>2, <3>3, MonoMove, Sets, ZenonT(30)
  <2> QED BY <1>0, <2>1, <2>2, PipedMoves, ZenonT(30) DEF Piped
<1>5. ASSUME NEW c \in Sessions, EnqueueOffline(c) PROVE Piped'
  <2>1. \A sh \in Shards : Moved(sh)
    BY <1>5, ZenonT(30) DEF EnqueueOffline, Moved
  <2>2. Mono
    <3>1. PICK to \in {"idle"} : pc' = [pc EXCEPT ![c] = to]
      BY <1>5, ZenonT(30) DEF EnqueueOffline, Accepted, Enqueued, Go
    <3>2. c \in Sessions /\ pc[c] \in Free => to \in Free
      BY <1>5, <3>1, Sets, ZenonT(30) DEF EnqueueOffline, Accepted, Enqueued, Go, Free
    <3>3. UNCHANGED sent /\ viaQueue \subseteq viaQueue'
      BY <1>5, ZenonT(30) DEF EnqueueOffline, Accepted, Enqueued, Go
    <3> QED BY <1>0, <3>1, <3>2, <3>3, MonoMove, Sets, ZenonT(30)
  <2> QED BY <1>0, <2>1, <2>2, PipedMoves, ZenonT(30) DEF Piped
<1>6. ASSUME NEW c \in Sessions, EnqueueRefused(c) PROVE Piped'
  <2>1. \A sh \in Shards : Moved(sh)
    BY <1>6, ZenonT(30) DEF EnqueueRefused, Moved
  <2>2. Mono
    <3>1. PICK to \in {"idle"} : pc' = [pc EXCEPT ![c] = to]
      BY <1>6, ZenonT(30) DEF EnqueueRefused, Accepted, Enqueued, Go
    <3>2. c \in Sessions /\ pc[c] \in Free => to \in Free
      BY <1>6, <3>1, Sets, ZenonT(30) DEF EnqueueRefused, Accepted, Enqueued, Go, Free
    <3>3. UNCHANGED sent /\ viaQueue \subseteq viaQueue'
      BY <1>6, ZenonT(30) DEF EnqueueRefused, Accepted, Enqueued, Go
    <3> QED BY <1>0, <3>1, <3>2, <3>3, MonoMove, Sets, ZenonT(30)
  <2> QED BY <1>0, <2>1, <2>2, PipedMoves, ZenonT(30) DEF Piped
<1>7. ASSUME NEW p \in Senders, CheckClosed(p) PROVE Piped'
  <2>1. \A sh \in Shards : Moved(sh)
    BY <1>7, ZenonT(30) DEF CheckClosed, Moved
  <2>2. Mono
    <3>1. PICK to \in {"failed", "push"} : pc' = [pc EXCEPT ![p] = to]
      BY <1>7, ZenonT(30) DEF CheckClosed, Go
    <3>2. p \in Sessions /\ pc[p] \in Free => to \in Free
      BY <1>7, <3>1, Sets, ZenonT(30) DEF CheckClosed, Go, Free
    <3>3. UNCHANGED sent /\ viaQueue \subseteq viaQueue'
      BY <1>7, ZenonT(30) DEF CheckClosed, Go
    <3> QED BY <1>0, <3>1, <3>2, <3>3, MonoMove, Sets, ZenonT(30)
  <2> QED BY <1>0, <2>1, <2>2, PipedMoves, ZenonT(30) DEF Piped
<1>8. ASSUME NEW p \in Senders, Push(p) PROVE Piped'
  <2>1. hand[p] \in Msgs /\ UNCHANGED <<wire, batch, sent, viaQueue>>
    BY <1>8, <1>0, HoldsMsg, ZenonT(30) DEF Push
  <2>2. CASE PushTo(p, "push", ShardOf(hand[p]))
    BY <1>0, <2>1, <2>2, PipedPush, ZenonT(30)
  <2>3. CASE Go(p, "push", "wait") /\ UNCHANGED sendCh
    <3>1. \A sh \in Shards : Moved(sh)
      BY <2>1, <2>3, ZenonT(30) DEF Moved
    <3>2. Mono
      BY <1>0, <2>1, <2>3, MonoMove, ZenonT(30) DEF Go, Free
    <3> QED BY <1>0, <3>1, <3>2, PipedMoves, ZenonT(30) DEF Piped
  <2> QED BY <1>8, <2>2, <2>3, ZenonT(30) DEF Push
<1>9. ASSUME NEW p \in Senders, PushWaiting(p) PROVE Piped'
  <2>1. hand[p] \in Msgs /\ UNCHANGED <<wire, batch, sent, viaQueue>>
    BY <1>9, <1>0, HoldsMsg, ZenonT(30) DEF PushWaiting
  <2>2. CASE PushTo(p, "wait", ShardOf(hand[p]))
    BY <1>0, <2>1, <2>2, PipedPush, ZenonT(30)
  <2>3. CASE Go(p, "wait", "failed") /\ UNCHANGED sendCh
    <3>1. \A sh \in Shards : Moved(sh)
      BY <2>1, <2>3, ZenonT(30) DEF Moved
    <3>2. Mono
      BY <1>0, <2>1, <2>3, MonoMove, ZenonT(30) DEF Go, Free
    <3> QED BY <1>0, <3>1, <3>2, PipedMoves, ZenonT(30) DEF Piped
  <2> QED BY <1>9, <2>2, <2>3, ZenonT(30) DEF PushWaiting
<1>10. ASSUME NEW p \in Senders, Recheck(p) PROVE Piped'
  <2>1. \A sh \in Shards : Moved(sh)
    BY <1>10, ZenonT(30) DEF Recheck, Moved
  <2>2. Mono
    <3>1. PICK to \in {"failed", "dequeue", "idle"} : pc' = [pc EXCEPT ![p] = to]
      BY <1>10, ZenonT(30) DEF Recheck, ShardOK, Accepted, Go
    <3>2. p \in Sessions /\ pc[p] \in Free => to \in Free
      BY <1>10, <1>0, <3>1, Sets, ZenonT(30) DEF Recheck, ShardOK, Accepted, Go, Free, ForwardingTypeOK
    <3>3. UNCHANGED sent /\ viaQueue \subseteq viaQueue'
      BY <1>10, ZenonT(30) DEF Recheck, ShardOK, Accepted, Go
    <3> QED BY <1>0, <3>1, <3>2, <3>3, MonoMove, Sets, ZenonT(30)
  <2> QED BY <1>0, <2>1, <2>2, PipedMoves, ZenonT(30) DEF Piped
<1>11. ASSUME FlushStart PROVE Piped'
  <2>1. \A sh \in Shards : Moved(sh)
    BY <1>11, ZenonT(30) DEF FlushStart, Moved
  <2>2. Mono
    <3>1. UNCHANGED <<sent, viaQueue>> /\ (UNCHANGED pc \/ pc' = [pc EXCEPT ![Flusher] = "dequeue"])
      BY <1>11, ZenonT(30) DEF FlushStart, Go
    <3>2. CASE UNCHANGED pc
      BY <3>1, <3>2, ZenonT(30) DEF Mono, Pushed
    <3>3. CASE pc' = [pc EXCEPT ![Flusher] = "dequeue"]
      BY <1>0, <3>1, <3>3, MonoMove, Sets, ZenonT(30)
    <3> QED BY <3>1, <3>2, <3>3, ZenonT(30)
  <2> QED BY <1>0, <2>1, <2>2, PipedMoves, ZenonT(30) DEF Piped
<1>12. ASSUME FlushDequeue PROVE Piped'
  <2>1. \A sh \in Shards : Moved(sh)
    BY <1>12, ZenonT(30) DEF FlushDequeue, Moved
  <2>2. Mono
    <3>1. PICK to \in {"return", "check"} : pc' = [pc EXCEPT ![Flusher] = to]
      BY <1>12, ZenonT(30) DEF FlushDequeue, Go
    <3>2. Flusher \in Sessions /\ pc[Flusher] \in Free => to \in Free
      BY Sets, ZenonT(30)
    <3>3. UNCHANGED sent /\ viaQueue \subseteq viaQueue'
      BY <1>12, ZenonT(30) DEF FlushDequeue, Go
    <3> QED BY <1>0, <3>1, <3>2, <3>3, MonoMove, Sets, ZenonT(30)
  <2> QED BY <1>0, <2>1, <2>2, PipedMoves, ZenonT(30) DEF Piped
<1>13. ASSUME FlushCheck PROVE Piped'
  <2>1. \A sh \in Shards : Moved(sh)
    BY <1>13, ZenonT(30) DEF FlushCheck, Moved
  <2>2. Mono
    <3>1. PICK to \in {"return", "direct", "failed"} : pc' = [pc EXCEPT ![Flusher] = to]
      BY <1>13, ZenonT(30) DEF FlushCheck, Go
    <3>2. Flusher \in Sessions /\ pc[Flusher] \in Free => to \in Free
      BY Sets, ZenonT(30)
    <3>3. UNCHANGED sent /\ viaQueue \subseteq viaQueue'
      BY <1>13, ZenonT(30) DEF FlushCheck, Go
    <3> QED BY <1>0, <3>1, <3>2, <3>3, MonoMove, Sets, ZenonT(30)
  <2> QED BY <1>0, <2>1, <2>2, PipedMoves, ZenonT(30) DEF Piped
<1>14. ASSUME FlushDirect PROVE Piped'
  <2>1. \A sh \in Shards : Moved(sh)
    BY <1>14, ZenonT(30) DEF FlushDirect, Moved
  <2>2. Mono
    <3>1. PICK to \in {"failed", "closed"} : pc' = [pc EXCEPT ![Flusher] = to]
      BY <1>14, ZenonT(30) DEF FlushDirect, Go
    <3>2. Flusher \in Sessions /\ pc[Flusher] \in Free => to \in Free
      BY Sets, ZenonT(30)
    <3>3. UNCHANGED sent /\ viaQueue \subseteq viaQueue'
      BY <1>14, ZenonT(30) DEF FlushDirect, Go
    <3> QED BY <1>0, <3>1, <3>2, <3>3, MonoMove, Sets, ZenonT(30)
  <2> QED BY <1>0, <2>1, <2>2, PipedMoves, ZenonT(30) DEF Piped
<1>15. ASSUME FlushRequeue PROVE Piped'
  <2>1. \A sh \in Shards : Moved(sh)
    BY <1>15, ZenonT(30) DEF FlushRequeue, Moved
  <2>2. Mono
    <3>1. PICK to \in {"dequeue", "return"} : pc' = [pc EXCEPT ![Flusher] = to]
      BY <1>15, ZenonT(30) DEF FlushRequeue, Go
    <3>2. Flusher \in Sessions /\ pc[Flusher] \in Free => to \in Free
      BY Sets, ZenonT(30)
    <3>3. UNCHANGED sent /\ viaQueue \subseteq viaQueue'
      BY <1>15, ZenonT(30) DEF FlushRequeue, Go
    <3> QED BY <1>0, <3>1, <3>2, <3>3, MonoMove, Sets, ZenonT(30)
  <2> QED BY <1>0, <2>1, <2>2, PipedMoves, ZenonT(30) DEF Piped
<1>16. ASSUME FlushReturn PROVE Piped'
  <2>1. \A sh \in Shards : Moved(sh)
    BY <1>16, ZenonT(30) DEF FlushReturn, Moved
  <2>2. Mono
    <3>1. PICK to \in {"idle"} : pc' = [pc EXCEPT ![Flusher] = to]
      BY <1>16, ZenonT(30) DEF FlushReturn, Go
    <3>2. Flusher \in Sessions /\ pc[Flusher] \in Free => to \in Free
      BY Sets, ZenonT(30)
    <3>3. UNCHANGED sent /\ viaQueue \subseteq viaQueue'
      BY <1>16, ZenonT(30) DEF FlushReturn, Go
    <3> QED BY <1>0, <3>1, <3>2, <3>3, MonoMove, Sets, ZenonT(30)
  <2> QED BY <1>0, <2>1, <2>2, PipedMoves, ZenonT(30) DEF Piped
<1>17. ASSUME NEW sh \in Shards, LoopExit(sh) PROVE Piped'
  <2>1. \A x \in Shards : Moved(x)
    BY <1>17, <1>0, ZenonT(30) DEF LoopExit, Moved, ForwardingTypeOK
  <2>2. Mono
    BY <1>17, ZenonT(30) DEF LoopExit, Mono, Pushed
  <2> QED BY <1>0, <2>1, <2>2, PipedMoves, ZenonT(30) DEF Piped
<1>18. ASSUME NEW sh \in Shards, LoopTake(sh) PROVE Piped'
  <2>1. \A x \in Shards : Moved(x)
    BY <1>18, <1>0, ZenonT(30) DEF LoopTake, Moved, ForwardingTypeOK
  <2>2. Mono
    BY <1>18, ZenonT(30) DEF LoopTake, Mono, Pushed
  <2> QED BY <1>0, <2>1, <2>2, PipedMoves, ZenonT(30) DEF Piped
<1>19. ASSUME NEW sh \in Shards, LoopDrained(sh) PROVE Piped'
  <2>1. \A x \in Shards : Moved(x)
    BY <1>19, <1>0, ZenonT(30) DEF LoopDrained, Moved, ForwardingTypeOK
  <2>2. Mono
    BY <1>19, ZenonT(30) DEF LoopDrained, Mono, Pushed
  <2> QED BY <1>0, <2>1, <2>2, PipedMoves, ZenonT(30) DEF Piped
<1>20. ASSUME NEW sh \in Shards, LoopRead(sh) PROVE Piped'
  <2>1. \A x \in Shards : Moved(x)
    BY <1>20, <1>0 DEF LoopRead, Moved, ForwardingTypeOK
  <2>2. Mono
    BY <1>20, ZenonT(30) DEF LoopRead, Mono, Pushed
  <2> QED BY <1>0, <2>1, <2>2, PipedMoves, ZenonT(30) DEF Piped
<1>21. ASSUME NEW sh \in Shards, LoopSendOK(sh) PROVE Piped'
  <2>1. \A x \in Shards : Moved(x)
    BY <1>21, <1>0, ZenonT(30) DEF LoopSendOK, LoopReturn, Moved, ForwardingTypeOK
  <2>2. Mono
    BY <1>21, ZenonT(30) DEF LoopSendOK, LoopReturn, Mono, Pushed
  <2> QED BY <1>0, <2>1, <2>2, PipedMoves, ZenonT(30) DEF Piped
<1>22. ASSUME NEW sh \in Shards, LoopSendFail(sh) PROVE Piped'
  <2>1. \A x \in Shards : Moved(x)
    BY <1>22, <1>0, ZenonT(30) DEF LoopSendFail, LoopReturn, Moved, ForwardingTypeOK
  <2>2. Mono
    BY <1>22, ZenonT(30) DEF LoopSendFail, LoopReturn, Mono, Pushed
  <2> QED BY <1>0, <2>1, <2>2, PipedMoves, ZenonT(30) DEF Piped
<1>23. ASSUME CloseLock PROVE Piped'
  <2>1. \A x \in Shards : Moved(x)
    BY <1>23, ZenonT(30) DEF CloseLock, Moved
  <2>2. Mono
    BY <1>23, ZenonT(30) DEF CloseLock, Mono, Pushed
  <2> QED BY <1>0, <2>1, <2>2, PipedMoves, ZenonT(30) DEF Piped
<1>24. ASSUME CloseUnlock PROVE Piped'
  <2>1. \A x \in Shards : Moved(x)
    BY <1>24, ZenonT(30) DEF CloseUnlock, Moved
  <2>2. Mono
    BY <1>24, ZenonT(30) DEF CloseUnlock, Mono, Pushed
  <2> QED BY <1>0, <2>1, <2>2, PipedMoves, ZenonT(30) DEF Piped
<1>25. ASSUME CloseDown PROVE Piped'
  <2>1. \A x \in Shards : Moved(x)
    BY <1>25, ZenonT(30) DEF CloseDown, Moved
  <2>2. Mono
    BY <1>25, ZenonT(30) DEF CloseDown, Mono, Pushed
  <2> QED BY <1>0, <2>1, <2>2, PipedMoves, ZenonT(30) DEF Piped
<1>26. ASSUME NEW sh \in Shards, CloseStop(sh) PROVE Piped'
  <2>1. \A x \in Shards : Moved(x)
    BY <1>26, ZenonT(30) DEF CloseStop, Moved
  <2>2. Mono
    BY <1>26, ZenonT(30) DEF CloseStop, Mono, Pushed
  <2> QED BY <1>0, <2>1, <2>2, PipedMoves, ZenonT(30) DEF Piped
<1>27. ASSUME NEW sh \in Shards, CloseDrain(sh) PROVE Piped'
  <2>1. \A x \in Shards : Moved(x)
    BY <1>27, <1>0 DEF CloseDrain, Moved, ForwardingTypeOK
  <2>2. Mono
    BY <1>27, ZenonT(30) DEF CloseDrain, Mono, Pushed
  <2> QED BY <1>0, <2>1, <2>2, PipedMoves, ZenonT(30) DEF Piped
<1> QED
  BY <1>1, <1>2, <1>3, <1>4, <1>5, <1>6, <1>7, <1>8, <1>9, <1>10, <1>11, <1>12, <1>13, <1>14, <1>15, <1>16, <1>17, <1>18, <1>19, <1>20, <1>21, <1>22, <1>23, <1>24, <1>25, <1>26, <1>27, ZenonT(30)
     DEF ForwardingNext, SessionStep, SenderStep, FlushStep, LoopStep, CloseStep

\* A client that closes stays closing.
LEMMA ClosingStays ==
  ASSUME ForwardingNext
  PROVE  ~closing' => ~closing
<1> USE DEF linkVars
<1>1. ASSUME LinkStep PROVE ~closing' => ~closing
  BY <1>1, ZenonT(30) DEF LinkStep, Bind, Unbind, Break, Up, Down
<1>2. ASSUME NEW c \in Sessions, Route(c) PROVE ~closing' => ~closing
  BY <1>2, ZenonT(30) DEF Route
<1>3. ASSUME NEW c \in Sessions, CheckState(c) PROVE ~closing' => ~closing
  BY <1>3, ZenonT(30) DEF CheckState
<1>4. ASSUME NEW c \in Sessions, CheckClosing(c) PROVE ~closing' => ~closing
  BY <1>4, ZenonT(30) DEF CheckClosing
<1>5. ASSUME NEW c \in Sessions, EnqueueOffline(c) PROVE ~closing' => ~closing
  BY <1>5, ZenonT(30) DEF EnqueueOffline
<1>6. ASSUME NEW c \in Sessions, EnqueueRefused(c) PROVE ~closing' => ~closing
  BY <1>6, ZenonT(30) DEF EnqueueRefused
<1>7. ASSUME NEW p \in Senders, CheckClosed(p) PROVE ~closing' => ~closing
  BY <1>7, ZenonT(30) DEF CheckClosed
<1>8. ASSUME NEW p \in Senders, Push(p) PROVE ~closing' => ~closing
  BY <1>8, ZenonT(30) DEF Push
<1>9. ASSUME NEW p \in Senders, PushWaiting(p) PROVE ~closing' => ~closing
  BY <1>9, ZenonT(30) DEF PushWaiting
<1>10. ASSUME NEW p \in Senders, Recheck(p) PROVE ~closing' => ~closing
  BY <1>10 DEF Recheck
<1>11. ASSUME FlushStart PROVE ~closing' => ~closing
  BY <1>11, ZenonT(30) DEF FlushStart, FlushRuns
<1>12. ASSUME FlushDequeue PROVE ~closing' => ~closing
  BY <1>12, ZenonT(30) DEF FlushDequeue
<1>13. ASSUME FlushCheck PROVE ~closing' => ~closing
  BY <1>13, ZenonT(30) DEF FlushCheck
<1>14. ASSUME FlushDirect PROVE ~closing' => ~closing
  BY <1>14, ZenonT(30) DEF FlushDirect
<1>15. ASSUME FlushRequeue PROVE ~closing' => ~closing
  BY <1>15, ZenonT(30) DEF FlushRequeue
<1>16. ASSUME FlushReturn PROVE ~closing' => ~closing
  BY <1>16, ZenonT(30) DEF FlushReturn
<1>17. ASSUME NEW sh \in Shards, LoopExit(sh) PROVE ~closing' => ~closing
  BY <1>17, ZenonT(30) DEF LoopExit
<1>18. ASSUME NEW sh \in Shards, LoopTake(sh) PROVE ~closing' => ~closing
  BY <1>18, ZenonT(30) DEF LoopTake
<1>19. ASSUME NEW sh \in Shards, LoopDrained(sh) PROVE ~closing' => ~closing
  BY <1>19, ZenonT(30) DEF LoopDrained
<1>20. ASSUME NEW sh \in Shards, LoopRead(sh) PROVE ~closing' => ~closing
  BY <1>20, ZenonT(30) DEF LoopRead
<1>21. ASSUME NEW sh \in Shards, LoopSendOK(sh) PROVE ~closing' => ~closing
  BY <1>21, ZenonT(30) DEF LoopSendOK
<1>22. ASSUME NEW sh \in Shards, LoopSendFail(sh) PROVE ~closing' => ~closing
  BY <1>22, ZenonT(30) DEF LoopSendFail, Unbind
<1>23. ASSUME CloseLock PROVE ~closing' => ~closing
  BY <1>23, ZenonT(30) DEF CloseLock, BeginClose
<1>24. ASSUME CloseUnlock PROVE ~closing' => ~closing
  BY <1>24, ZenonT(30) DEF CloseUnlock
<1>25. ASSUME CloseDown PROVE ~closing' => ~closing
  BY <1>25, ZenonT(30) DEF CloseDown, Down
<1>26. ASSUME NEW sh \in Shards, CloseStop(sh) PROVE ~closing' => ~closing
  BY <1>26, ZenonT(30) DEF CloseStop
<1>27. ASSUME NEW sh \in Shards, CloseDrain(sh) PROVE ~closing' => ~closing
  BY <1>27, ZenonT(30) DEF CloseDrain
<1> QED
  BY <1>1, <1>2, <1>3, <1>4, <1>5, <1>6, <1>7, <1>8, <1>9, <1>10, <1>11, <1>12, <1>13, <1>14, <1>15, <1>16, <1>17, <1>18, <1>19, <1>20, <1>21, <1>22, <1>23, <1>24, <1>25, <1>26, <1>27, ZenonT(30)
     DEF ForwardingNext, SessionStep, SenderStep, FlushStep, LoopStep, CloseStep

-----------------------------------------------------------------------------
(* The invariant and what it says.                                         *)

FInv ==
  /\ Frame
  /\ Piped
  /\ ~closing => Ordered /\ \A m \in Msgs : Owned(m)

\* The inductive invariant holds before the first message.
LEMMA InitFInv == ForwardingInit => FInv
<1> SUFFICES ASSUME ForwardingInit PROVE FInv
  BY ZenonT(30)
<1> USE DEF ForwardingInit
<1>1. ForwardingTypeOK
  <2>1. LinkTypeOK
    BY ZenonT(30) DEF LinkTypeOK, Init, States
  <2>2. <<>> \in Seq(Msgs) /\ Len(<<>>) = 0
    OBVIOUS
  <2>3. /\ queue \in Seq(Msgs) /\ sendCh \in [Shards -> Seq(Msgs)] /\ batch \in [Shards -> Seq(Msgs)]
        /\ wire \in [Shards -> Seq(Msgs)] /\ Len(queue) <= QueueMax
        /\ \A sh \in Shards : Len(sendCh[sh]) <= ChanCap /\ Len(batch[sh]) <= MaxBatch
    BY <2>2, Sizes
  <2>4. /\ sent \in [Sessions -> 0 .. Count] /\ failures \in 0 .. MaxFailures
        /\ puts \in [Msgs -> Nat]
    BY Sizes
  <2>5. /\ loop \in [Shards -> {"select", "drain", "read", "send", "exit"}]
        /\ loopStream \in [Shards -> Streams \cup {NoStream}]
        /\ pc \in [Senders -> {"idle", "start", "closing", "enqueue", "closed", "push", "wait", "recheck",
                              "failed", "dequeue", "check", "direct", "return"}]
        /\ hand \in [Senders -> Msgs \cup {NoMsg}]
    BY ZenonT(30)
  <2> QED BY <2>1, <2>3, <2>4, <2>5, ZenonT(30) DEF ForwardingTypeOK
<1>2. Hands /\ Open /\ Queued
  BY Sets, Sizes DEF Hands, Open, Queued, Pending, Init
<1>3. Loops /\ Piped
  BY Sizes DEF Loops, Piped, Pipe, Lined, Row, Before, Given
<1>4. ASSUME NEW m \in Msgs PROVE Owned(m)
  <2>1. ~(m[2] <= sent[m[1]]) /\ puts[m] = 0
    BY Sets, Sizes
  <2>2. \A p \in Senders : hand[p] # m
    BY Sets, ZenonT(30)
  <2>3. Held(m) = 0
    <3>1. Holders(m) = {}
      BY <2>2, ZenonT(30) DEF Holders
    <3> QED BY <3>1, FS_EmptySet, ZenonT(30) DEF Holders, Held
  <2>4. Occurs(m, queue) = 0 /\ Occurs(m, sendCh[ShardOf(m)]) = 0 /\ Occurs(m, batch[ShardOf(m)]) = 0
    BY OccursEmpty, Sets, ZenonT(30)
  <2> QED BY <2>1, <2>3, <2>4 DEF Places, Owned
<1>5. Ordered
  BY Sets DEF Ordered, Ready
<1> QED BY <1>1, <1>2, <1>3, <1>4, <1>5, ZenonT(30) DEF FInv, Frame

\* Every step of a sender, a send loop, the link or Close preserves the inductive invariant.
LEMMA FInvStep == FInv /\ [ForwardingNext]_vars => FInv'
<1> SUFFICES ASSUME FInv, [ForwardingNext]_vars PROVE FInv'
  BY ZenonT(30)
<1>1. CASE UNCHANGED vars
  <2>1. UNCHANGED own /\ UNCHANGED linkVars
    BY <1>1, ZenonT(30) DEF vars
  <2>2. Frame'
    BY <2>1, ZenonT(30) DEF FInv, Frame, own, linkVars, ForwardingTypeOK, LinkTypeOK, Hands, Loops, Open,
       Queued, ShardOf
  <2>3. \A sh \in Shards : Moved(sh)
    BY <2>1, ZenonT(30) DEF Moved, own
  <2>4. Mono
    BY <2>1, ZenonT(30) DEF Mono, Pushed, own
  <2>5. Piped'
    BY <2>3, <2>4, PipedMoves, ZenonT(30) DEF FInv, Frame, Piped
  <2>6. Ordered => Ordered'
    BY <2>1, ZenonT(30) DEF Ordered, Ready, Earlier, own
  <2>7. (\A m \in Msgs : Owned(m)) => (\A m \in Msgs : Owned(m))'
    BY <2>1, ZenonT(30) DEF Owned, Places, Held, ShardOf, own
  <2>8. closing' = closing
    BY <2>1, ZenonT(30) DEF linkVars
  <2> QED BY <2>2, <2>5, <2>6, <2>7, <2>8, ZenonT(30) DEF FInv
<1>2. CASE ForwardingNext
  <2>1. Frame'
    BY <1>2, TypeStep, HandsStep, LoopsStep, OpenStep, QueuedStep, ZenonT(30) DEF FInv, Frame
  <2>2. Piped'
    BY <1>2, PipedStep, ZenonT(30) DEF FInv
  <2>3. ~closing' => ~closing
    BY <1>2, ClosingStays, ZenonT(30)
  <2>4. ASSUME ~closing' PROVE Ordered' /\ \A m \in Msgs : Owned(m)'
    <3>1. Frame /\ ForwardingTypeOK' /\ ~closing /\ ~closing' /\ Ordered /\ \A m \in Msgs : Owned(m)
      BY <2>1, <2>3, <2>4, ZenonT(30) DEF FInv, Frame
    <3>2. Ordered'
      BY <1>2, <3>1, OrderStep, ZenonT(30)
    <3>3. ASSUME NEW m \in Msgs PROVE Owned(m)'
      BY <1>2, <3>1, OwnerStep, ZenonT(30)
    <3> QED BY <3>2, <3>3, ZenonT(30)
  <2> QED BY <2>1, <2>2, <2>4, ZenonT(30) DEF FInv
<1> QED BY <1>1, <1>2, ZenonT(30)

\* The invariant that the theorems of this module follow from.
THEOREM ForwardingInvariance == ForwardingSpec => []FInv
<1> QED BY InitFInv, FInvStep, PTL DEF ForwardingSpec

\* The variables of SendMessage, Flush, the loops and Close keep their types.
THEOREM ForwardingTypes == ForwardingSpec => []ForwardingTypeOK
<1>1. FInv => ForwardingTypeOK
  BY ZenonT(30) DEF FInv, Frame
<1> QED BY <1>1, ForwardingInvariance, PTL

\* Until Close, a message that SendMessage was given is in exactly one place
\* and never in the pool too, and one that was put back to the pool is
\* nowhere else.
THEOREM MessagesOwned == ForwardingSpec => []OneOwner
<1>1. FInv => OneOwner
  BY ZenonT(30) DEF FInv, OneOwner, Owned
<1> QED BY <1>1, ForwardingInvariance, PTL

\* The offline queue holds the messages of a session in the order in which
\* they were given to SendMessage, the one that Flush has in its hand first.
THEOREM QueueOrdered == ForwardingSpec => []QueueInOrder
<1>1. FInv => QueueInOrder
  BY OrderedIs, ZenonT(30) DEF FInv, Frame
<1> QED BY <1>1, ForwardingInvariance, PTL

\* The messages of a session that never saw the offline queue reach the
\* stream in the order in which they were given to SendMessage.
THEOREM DirectOrdered == ForwardingSpec => []DirectInOrder
<1>1. FInv => DirectInOrder
  BY ZenonT(30) DEF FInv, Piped, Pipe, Lined, Row, DirectInOrder
<1> QED BY <1>1, ForwardingInvariance, PTL
=============================================================================
