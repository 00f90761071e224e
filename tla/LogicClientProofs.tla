-------------------------- MODULE LogicClientProofs --------------------------
(***************************************************************************)
(* Theorems about the link to a logic server and its offline queue.  For   *)
(* LogicClient, with any number of shards and of dials: the life of a      *)
(* stream, the attached counter, and that it implements LogicLink.  For    *)
(* StreamMessageQueue, with any number of producers and any capacity:      *)
(* while goroutines wait for room, the room there is has takers that were  *)
(* woken; and below a backpressure threshold that leaves a place free      *)
(* nothing is lost.                                                        *)
(***************************************************************************)
EXTENDS LogicClient, StreamMessageQueue, FiniteSetTheorems, TLAPS

USE SMTT(30), ZenonT(30)

\* Every action of the specification, for proofs that split on Next.
LEMMA NextCases ==
  ASSUME Next
  PROVE  \/ \E s \in Streams : AttachCheckClosing(s)
         \/ \E s \in Streams : AttachSwap(s)
         \/ \E s \in Streams : AttachAdd(s)
         \/ \E s \in Streams : AttachLoad(s)
         \/ \E s \in Streams : AttachLoadState(s)
         \/ \E s \in Streams : AttachSet(s)
         \/ \E s \in Streams : ReceiveStart(s)
         \/ \E s \in Streams : ReceiveEnd(s)
         \/ \E sh \in Shards : SendTake(sh)
         \/ \E sh \in Shards : SendOK(sh)
         \/ \E sh \in Shards : SendFail(sh)
         \/ \E p \in Procs : DetachUnbind(p)
         \/ \E p \in Procs : DetachCheckClosing(p)
         \/ \E p \in Procs : DetachSub(p)
         \/ \E p \in Procs : DetachLoadState(p)
         \/ \E p \in Procs : DetachSet(p)
         \/ CloseLocked \/ CloseSetState \/ FlushRuns
         \/ \E s \in Streams : Break(s)
  BY ZenonT(30) DEF Next, Handler, SendLoop, Detach, Procs

\* Types of the helpers of detachShard.
LEMMA DetachTypes ==
  ASSUME TypeOK, NEW p \in Procs
  PROVE  /\ ShardOf(p) \in Shards
         /\ DetachArg(p) \in Streams \cup {NoStream}
         /\ Return(p) \in {"done", "idle"}
  BY ShardsAssumption, ZenonT(30) DEF TypeOK, Procs, ShardOf, DetachArg, Return

\* The number of shards is a natural number.
LEMMA TotalShards == totalShards \in Nat
  BY ShardsAssumption, FS_CardinalityType, ZenonT(30) DEF totalShards

\* Every step of the specification preserves the types.
LEMMA TypeStep ==
  ASSUME TypeOK, [Next]_vars
  PROVE  TypeOK'
  <1>1. CASE UNCHANGED vars
    BY <1>1, ZenonT(30) DEF vars, TypeOK
  <1>2. ASSUME NEW s \in Streams,
               \/ AttachCheckClosing(s) \/ AttachSwap(s) \/ AttachAdd(s) \/ AttachLoad(s)
               \/ AttachLoadState(s) \/ AttachSet(s) \/ ReceiveStart(s) \/ ReceiveEnd(s)
        PROVE  TypeOK'
    BY <1>2, ShardsAssumption
    DEF TypeOK, Go, Procs, AttachPC, DetachPC, AttachCheckClosing, AttachSwap, AttachAdd,
        AttachLoad, AttachLoadState, AttachSet, ReceiveStart, ReceiveEnd
  <1>3. ASSUME NEW sh \in Shards, SendTake(sh) \/ SendOK(sh) \/ SendFail(sh)
        PROVE  TypeOK'
    BY <1>3, ZenonT(30) DEF TypeOK, Go, Procs, AttachPC, DetachPC, SendTake, SendOK, SendFail
  <1>4. ASSUME NEW p \in Procs,
               \/ DetachUnbind(p) \/ DetachCheckClosing(p) \/ DetachSub(p)
               \/ DetachLoadState(p) \/ DetachSet(p)
        PROVE  TypeOK'
    <2> USE DetachTypes DEF TypeOK, Go, AttachPC, DetachPC
    <2>1. CASE DetachUnbind(p)
      BY <2>1, ZenonT(30) DEF DetachUnbind
    <2>2. CASE DetachCheckClosing(p)
      BY <2>2, ZenonT(30) DEF DetachCheckClosing
    <2>3. CASE DetachSub(p)
      BY <2>3 DEF DetachSub
    <2>4. CASE DetachLoadState(p) \/ DetachSet(p)
      BY <2>4, ZenonT(30) DEF DetachLoadState, DetachSet
    <2>5. QED
      BY <1>4, <2>1, <2>2, <2>3, <2>4, ZenonT(30)
  <1>5. CASE CloseLocked
    BY <1>5, ZenonT(30) DEF TypeOK, CloseLocked
  <1>6. CASE CloseSetState
    BY <1>6, ZenonT(30) DEF TypeOK, CloseSetState
  <1>7. CASE FlushRuns
    BY <1>7 DEF TypeOK, FlushRuns
  <1>8. ASSUME NEW s \in Streams, Break(s)
        PROVE  TypeOK'
    BY <1>8, ZenonT(30) DEF TypeOK, Break
  <1>9. QED
    BY <1>1, <1>2, <1>3, <1>4, <1>5, <1>6, <1>7, <1>8, NextCases, ZenonT(30)

\* The initial state is well typed.
LEMMA InitType ==
  ASSUME Init
  PROVE  TypeOK
  <1>1. stream \in [Shards -> Streams \cup {NoStream}]
    BY ZenonT(30) DEF Init
  <1>2. pc \in [Procs -> AttachPC \cup DetachPC \cup
                         {"receive", "recv", "done", "rejected", "idle", "send"}]
    BY ZenonT(30) DEF Init, AttachPC
  <1>3. hold \in [Procs -> Streams \cup {NoStream}]
    BY ZenonT(30) DEF Init
  <1>4. attached \in Int /\ flushes \in Nat
    BY DEF Init
  <1>5. QED
    BY <1>1, <1>2, <1>3, <1>4, ZenonT(30) DEF Init, TypeOK

\* TypeOK holds in every reachable state of a client with any finite,
\* non-empty set of shards and any finite set of dialed streams.
THEOREM TypeCorrect == Spec => []TypeOK
  <1>1. Init => TypeOK
    BY InitType, ZenonT(30)
  <1>2. TypeOK /\ [Next]_vars => TypeOK'
    BY TypeStep, ZenonT(30)
  <1>3. QED
    BY <1>1, <1>2, PTL DEF Spec

-----------------------------------------------------------------------------
(* The life of a stream.                                                   *)

\* Every step preserves StreamLifecycle.
LEMMA LifecycleStep ==
  ASSUME TypeOK, StreamLifecycle, [Next]_vars
  PROVE  StreamLifecycle'
  <1> USE ShardsAssumption
      DEF TypeOK, Procs, StreamLifecycle, BoundHome, NotYetBound, GoneForGood, OwnReceiver,
          DeadAtUnbind, SenderHolds, SenderSawDead
  <1>1. CASE UNCHANGED vars
    BY <1>1, ZenonT(30) DEF vars
  <1>2. ASSUME NEW s \in Streams, AttachCheckClosing(s)
        PROVE  StreamLifecycle'
    BY <1>2, ZenonT(30) DEF AttachCheckClosing, Go
  <1>3. ASSUME NEW s \in Streams, AttachSwap(s)
        PROVE  StreamLifecycle'
    BY <1>3, ZenonT(30) DEF AttachSwap, Go
  <1>4. ASSUME NEW s \in Streams,
               AttachAdd(s) \/ AttachLoad(s) \/ AttachLoadState(s) \/ AttachSet(s)
        PROVE  StreamLifecycle'
    BY <1>4 DEF AttachAdd, AttachLoad, AttachLoadState, AttachSet, Go
  <1>5. ASSUME NEW s \in Streams, ReceiveStart(s)
        PROVE  StreamLifecycle'
    BY <1>5 DEF ReceiveStart, Go
  <1>6. ASSUME NEW s \in Streams, ReceiveEnd(s)
        PROVE  StreamLifecycle'
    BY <1>6 DEF ReceiveEnd, Go
  <1>7. ASSUME NEW sh \in Shards, SendTake(sh) \/ SendOK(sh)
        PROVE  StreamLifecycle'
    BY <1>7 DEF SendTake, SendOK, Go
  <1>8. ASSUME NEW sh \in Shards, SendFail(sh)
        PROVE  StreamLifecycle'
    BY <1>8 DEF SendFail, Go
  <1>9. ASSUME NEW p \in Procs, DetachUnbind(p)
        PROVE  StreamLifecycle'
    <2>1. CASE p \in Streams
      BY <1>9, <2>1 DEF DetachUnbind, Go, ShardOf, DetachArg, Return
    <2>2. CASE p \in Shards
      BY <1>9, <2>2 DEF DetachUnbind, Go, ShardOf, DetachArg, Return
    <2>3. QED
      BY <2>1, <2>2, ZenonT(30)
  <1>10. ASSUME NEW p \in Procs,
                DetachCheckClosing(p) \/ DetachSub(p) \/ DetachLoadState(p) \/ DetachSet(p)
         PROVE  StreamLifecycle'
    BY <1>10 DEF DetachCheckClosing, DetachSub, DetachLoadState, DetachSet, Go, Return
  <1>11. CASE CloseLocked \/ CloseSetState \/ FlushRuns
    BY <1>11, ZenonT(30) DEF CloseLocked, CloseSetState, FlushRuns
  <1>12. ASSUME NEW s \in Streams, Break(s)
         PROVE  StreamLifecycle'
    BY <1>12, ZenonT(30) DEF Break
  <1>13. QED
    BY <1>1, <1>2, <1>3, <1>4, <1>5, <1>6, <1>7, <1>8, <1>9, <1>10, <1>11, <1>12, NextCases, ZenonT(30)

-----------------------------------------------------------------------------
(* The attached counter.                                                   *)

\* The three sets that AttachedCounts compares are finite.
LEMMA SetsFinite ==
  ASSUME TypeOK
  PROVE  /\ IsFiniteSet(Bound) /\ Cardinality(Bound) \in Nat
         /\ IsFiniteSet(Adding) /\ Cardinality(Adding) \in Nat
         /\ IsFiniteSet(Subbing) /\ Cardinality(Subbing) \in Nat
  <1>1. IsFiniteSet(Procs)
    BY ShardsAssumption, FS_Union, ZenonT(30) DEF Procs
  <1>2. Bound \in SUBSET Shards /\ Adding \in SUBSET Streams /\ Subbing \in SUBSET Procs
    BY ZenonT(30) DEF Bound, Adding, Subbing
  <1>3. IsFiniteSet(Bound) /\ IsFiniteSet(Adding) /\ IsFiniteSet(Subbing)
    BY <1>1, <1>2, ShardsAssumption, FS_Subset, ZenonT(30)
  <1>4. QED
    BY <1>3, FS_CardinalityType, ZenonT(30)

\* AttachedCounts depends on the counter, the flag and the three sets only.
LEMMA CountsFrame ==
  ASSUME AttachedCounts, attached' = attached, closing' = closing,
         Bound' = Bound, Adding' = Adding, Subbing' = Subbing
  PROVE  AttachedCounts'
  BY ZenonT(30) DEF AttachedCounts

\* Every step keeps the counter in line with the shards that are bound.
LEMMA CountsStep ==
  ASSUME TypeOK, StreamLifecycle, AttachedCounts, [Next]_vars
  PROVE  AttachedCounts'
  <1> USE ShardsAssumption DEF TypeOK, Procs
  <1>1. CASE UNCHANGED vars
    BY <1>1, CountsFrame, ZenonT(30) DEF vars, Bound, Adding, Subbing
  <1>2. ASSUME NEW s \in Streams,
               \/ AttachCheckClosing(s) \/ AttachLoad(s) \/ AttachLoadState(s)
               \/ AttachSet(s) \/ ReceiveStart(s) \/ ReceiveEnd(s)
        PROVE  AttachedCounts'
    <2>1. attached' = attached /\ closing' = closing /\ stream' = stream
      BY <1>2, ZenonT(30) DEF AttachCheckClosing, AttachLoad, AttachLoadState, AttachSet,
                  ReceiveStart, ReceiveEnd
    <2>2. \E from, to \in AttachPC \cup {"receive", "recv", "rejected", "unbind"} :
             from # "add" /\ to # "add" /\ Go(s, from, to)
      BY <1>2, ZenonT(30) DEF AttachCheckClosing, AttachLoad, AttachLoadState, AttachSet,
                  ReceiveStart, ReceiveEnd, AttachPC
    <2>3. Adding' = Adding /\ Subbing' = Subbing
      BY <2>2 DEF Adding, Subbing, Go, AttachPC
    <2>4. QED
      BY <2>1, <2>3, CountsFrame, ZenonT(30) DEF Bound
  <1>3. ASSUME NEW s \in Streams, AttachSwap(s)
        PROVE  AttachedCounts'
    <2> DEFINE sh == ShardIdx[s]
    <2>1. attached' = attached /\ closing' = closing
      BY <1>3, ZenonT(30) DEF AttachSwap
    <2>2. Subbing' = Subbing
      BY <1>3, ZenonT(30) DEF AttachSwap, Go, Subbing
    <2>3. CASE stream[sh] = NoStream
      <3>1. Bound' = Bound \cup {sh} /\ sh \notin Bound
        BY <1>3, <2>3 DEF AttachSwap, Bound
      <3>2. Adding' = Adding \cup {s} /\ s \notin Adding
        BY <1>3, <2>3 DEF AttachSwap, Go, Adding
      <3>3. /\ Cardinality(Bound') = Cardinality(Bound) + 1
            /\ Cardinality(Adding') = Cardinality(Adding) + 1
        BY <3>1, <3>2, SetsFinite, FS_AddElement, ZenonT(30)
      <3>4. QED
        BY <2>1, <2>2, <3>3, SetsFinite DEF AttachedCounts
    <2>4. CASE stream[sh] # NoStream
      <3>1. Bound' = Bound
        BY <1>3, <2>4, ZenonT(30) DEF AttachSwap, Bound
      <3>2. Adding' = Adding
        BY <1>3, <2>4, ZenonT(30) DEF AttachSwap, Go, Adding
      <3>3. QED
        BY <2>1, <2>2, <3>1, <3>2, CountsFrame, ZenonT(30)
    <2>5. QED
      BY <2>3, <2>4, ZenonT(30)
  <1>4. ASSUME NEW s \in Streams, AttachAdd(s)
        PROVE  AttachedCounts'
    <2>1. attached' = attached + 1 /\ closing' = closing
      BY <1>4, ZenonT(30) DEF AttachAdd
    <2>2. Bound' = Bound /\ Subbing' = Subbing
      BY <1>4, ZenonT(30) DEF AttachAdd, Go, Bound, Subbing
    <2>3. Adding' = Adding \ {s} /\ s \in Adding
      BY <1>4, ZenonT(30) DEF AttachAdd, Go, Adding
    <2>4. Cardinality(Adding') = Cardinality(Adding) - 1
      BY <2>3, SetsFinite, FS_RemoveElement, ZenonT(30)
    <2>5. QED
      BY <2>1, <2>2, <2>4, SetsFinite DEF AttachedCounts
  <1>5. ASSUME NEW sh \in Shards, SendTake(sh) \/ SendOK(sh) \/ SendFail(sh)
        PROVE  AttachedCounts'
    <2>1. attached' = attached /\ closing' = closing /\ Bound' = Bound
      BY <1>5, ZenonT(30) DEF SendTake, SendOK, SendFail, Bound
    <2>2. Adding' = Adding /\ Subbing' = Subbing
      BY <1>5 DEF SendTake, SendOK, SendFail, Go, Adding, Subbing
    <2>3. QED
      BY <2>1, <2>2, CountsFrame, ZenonT(30)
  <1>6. ASSUME NEW p \in Procs, DetachUnbind(p)
        PROVE  AttachedCounts'
    <2> DEFINE sh == ShardOf(p)
    <2>1. attached' = attached /\ closing' = closing
      BY <1>6, ZenonT(30) DEF DetachUnbind
    <2>2. Adding' = Adding
      BY <1>6, DetachTypes, ZenonT(30) DEF DetachUnbind, Go, Adding
    <2>3. CASE stream[sh] = DetachArg(p) /\ stream[sh] # NoStream
      <3>1. Bound' = Bound \ {sh} /\ sh \in Bound
        BY <1>6, <2>3, DetachTypes, ZenonT(30) DEF DetachUnbind, Bound
      <3>2. Subbing' = Subbing \cup {p} /\ p \notin Subbing
        BY <1>6, <2>3 DEF DetachUnbind, Go, Subbing
      <3>3. /\ Cardinality(Bound') = Cardinality(Bound) - 1
            /\ Cardinality(Subbing') = Cardinality(Subbing) + 1
        BY <3>1, <3>2, SetsFinite, FS_AddElement, FS_RemoveElement, ZenonT(30)
      <3>4. QED
        BY <2>1, <2>2, <3>3, SetsFinite DEF AttachedCounts
    <2>4. CASE stream[sh] # DetachArg(p)
      <3>1. Bound' = Bound
        BY <1>6, <2>4, ZenonT(30) DEF DetachUnbind, Bound
      <3>2. Subbing' = Subbing
        BY <1>6, <2>4, DetachTypes, ZenonT(30) DEF DetachUnbind, Go, Subbing
      <3>3. QED
        BY <2>1, <2>2, <3>1, <3>2, CountsFrame, ZenonT(30)
    <2>5. DetachArg(p) # NoStream
      BY <1>6 DEF DetachUnbind, Go, DetachArg, StreamLifecycle, SenderHolds
    <2>6. QED
      BY <2>3, <2>4, <2>5, ZenonT(30)
  <1>7. ASSUME NEW p \in Procs, DetachCheckClosing(p)
        PROVE  AttachedCounts'
    <2>1. attached' = attached /\ closing' = closing /\ Bound' = Bound
      BY <1>7, ZenonT(30) DEF DetachCheckClosing, Bound
    <2>2. Adding' = Adding
      BY <1>7, DetachTypes, ZenonT(30) DEF DetachCheckClosing, Go, Adding
    <2>3. CASE ~closing
      <3>1. Subbing' = Subbing
        BY <1>7, <2>3, ZenonT(30) DEF DetachCheckClosing, Go, Subbing
      <3>2. QED
        BY <2>1, <2>2, <3>1, CountsFrame, ZenonT(30)
    <2>4. CASE closing
      <3>1. Subbing' = Subbing \ {p} /\ p \in Subbing
        BY <1>7, <2>4, DetachTypes, ZenonT(30) DEF DetachCheckClosing, Go, Subbing
      <3>2. Cardinality(Subbing') = Cardinality(Subbing) - 1
        BY <3>1, SetsFinite, FS_RemoveElement, ZenonT(30)
      <3>3. QED
        BY <2>1, <2>2, <2>4, <3>2, SetsFinite DEF AttachedCounts
    <2>5. QED
      BY <2>3, <2>4, ZenonT(30)
  <1>8. ASSUME NEW p \in Procs, DetachSub(p)
        PROVE  AttachedCounts'
    <2>1. attached' = attached - 1 /\ closing' = closing /\ Bound' = Bound
      BY <1>8, ZenonT(30) DEF DetachSub, Bound
    <2>2. Adding' = Adding
      BY <1>8, DetachTypes, ZenonT(30) DEF DetachSub, Go, Adding
    <2>3. Subbing' = Subbing \ {p} /\ p \in Subbing
      BY <1>8, DetachTypes, ZenonT(30) DEF DetachSub, Go, Subbing
    <2>4. Cardinality(Subbing') = Cardinality(Subbing) - 1
      BY <2>3, SetsFinite, FS_RemoveElement, ZenonT(30)
    <2>5. QED
      BY <2>1, <2>2, <2>4, SetsFinite DEF AttachedCounts
  <1>9. ASSUME NEW p \in Procs, DetachLoadState(p) \/ DetachSet(p)
        PROVE  AttachedCounts'
    <2>1. attached' = attached /\ closing' = closing /\ Bound' = Bound
      BY <1>9, ZenonT(30) DEF DetachLoadState, DetachSet, Bound
    <2>2. Adding' = Adding /\ Subbing' = Subbing
      BY <1>9, DetachTypes, ZenonT(30) DEF DetachLoadState, DetachSet, Go, Adding, Subbing
    <2>3. QED
      BY <2>1, <2>2, CountsFrame, ZenonT(30)
  <1>10. CASE CloseLocked
    <2>1. attached' = attached /\ closing' /\ Bound' = Bound
      BY <1>10, ZenonT(30) DEF CloseLocked, Bound
    <2>2. Adding' = Adding /\ Subbing' = Subbing
      BY <1>10, ZenonT(30) DEF CloseLocked, Adding, Subbing
    <2>3. QED
      BY <2>1, <2>2, ZenonT(30) DEF AttachedCounts
  <1>11. ASSUME \/ CloseSetState \/ FlushRuns \/ \E s \in Streams : Break(s)
         PROVE  AttachedCounts'
    <2>1. attached' = attached /\ closing' = closing /\ stream' = stream /\ pc' = pc
      BY <1>11, ZenonT(30) DEF CloseSetState, FlushRuns, Break
    <2>2. QED
      BY <2>1, CountsFrame, ZenonT(30) DEF Bound, Adding, Subbing
  <1>12. QED
    BY <1>1, <1>2, <1>3, <1>4, <1>5, <1>6, <1>7, <1>8, <1>9, <1>10, <1>11, NextCases, ZenonT(30)

-----------------------------------------------------------------------------
(* The theorems.                                                           *)

\* What holds initially.
LEMMA InitInv ==
  ASSUME Init
  PROVE  TypeOK /\ StreamLifecycle /\ AttachedCounts
  <1>1. TypeOK
    BY InitType, ZenonT(30)
  <1>2. StreamLifecycle
    BY ShardsAssumption
   , ZenonT(30) DEF Init, Procs, StreamLifecycle, BoundHome, NotYetBound, GoneForGood, OwnReceiver,
        DeadAtUnbind, SenderHolds, SenderSawDead
  <1>3. Bound = {} /\ Adding = {} /\ Subbing = {}
    BY ShardsAssumption, ZenonT(30) DEF Init, Procs, Bound, Adding, Subbing
  <1>4. AttachedCounts
    BY <1>3, FS_EmptySet DEF Init, AttachedCounts
  <1>5. QED
    BY <1>1, <1>2, <1>4, ZenonT(30)

\* The streams of a shard live as StreamLifecycle says, however the handlers,
\* the send loops and Close interleave.
THEOREM LifecycleCorrect == Spec => []StreamLifecycle
  <1>1. Init => TypeOK /\ StreamLifecycle
    BY InitInv, ZenonT(30)
  <1>2. TypeOK /\ StreamLifecycle /\ [Next]_vars => (TypeOK /\ StreamLifecycle)'
    BY TypeStep, LifecycleStep, ZenonT(30)
  <1>3. QED
    BY <1>1, <1>2, PTL DEF Spec

\* The attached counter agrees with the bound shards, corrected by the
\* attachShard and detachShard calls in flight.
THEOREM CountsCorrect == Spec => []AttachedCounts
  <1>1. Init => AttachedCounts
    BY InitInv, ZenonT(30)
  <1>2. TypeOK /\ StreamLifecycle /\ AttachedCounts /\ [Next]_vars => AttachedCounts'
    BY CountsStep, ZenonT(30)
  <1>3. QED
    BY <1>1, <1>2, TypeCorrect, LifecycleCorrect, PTL DEF Spec

\* With no attachShard or detachShard in flight the counter is exact.
THEOREM ExactAtRestCorrect == Spec => []AttachedExactAtRest
  <1>1. TypeOK /\ AttachedCounts => AttachedExactAtRest
    <2> SUFFICES ASSUME TypeOK, AttachedCounts, ~closing, AtRest
                 PROVE  attached = Cardinality(Bound)
      BY ZenonT(30) DEF AttachedExactAtRest
    <2>1. Adding = {} /\ Subbing = {}
      BY ZenonT(30) DEF AtRest, Mid, AttachPC, DetachPC, Adding, Subbing, Procs
    <2>2. QED
      BY <2>1, FS_EmptySet, SetsFinite DEF AttachedCounts, TypeOK
  <1>2. QED
    BY <1>1, TypeCorrect, CountsCorrect, PTL

\* The only step that unbinds a stream is detachShard, and it unbinds a
\* broken stream or belongs to a closing client.
LEMMA DetachesDead ==
  ASSUME TypeOK, StreamLifecycle, NEW p \in Procs, DetachUnbind(p),
         stream[ShardOf(p)] = DetachArg(p)
  PROVE  stream[ShardOf(p)] \in broken \/ closing
  <1> USE ShardsAssumption
      DEF TypeOK, Procs, StreamLifecycle, BoundHome, GoneForGood, DeadAtUnbind, SenderHolds,
          SenderSawDead, DetachUnbind, Go, ShardOf, DetachArg
  <1>1. CASE p \in Streams
    BY <1>1, ZenonT(30)
  <1>2. CASE p \in Shards
    BY <1>2
  <1>3. QED
    BY <1>1, <1>2, ZenonT(30)

\* A shard never loses a live stream: detaching a stream that has been
\* replaced leaves its successor bound.
THEOREM LiveStreamCorrect == Spec => LiveStreamStaysBound
  <1>1. TypeOK /\ StreamLifecycle /\ [Next]_vars => [UnbindsDeadOnly]_vars
    <2> SUFFICES ASSUME TypeOK, StreamLifecycle, Next
                 PROVE  UnbindsDeadOnly
      BY ZenonT(30)
    <2>1. ASSUME NEW p \in Procs, DetachUnbind(p)
          PROVE  UnbindsDeadOnly
      BY <2>1, DetachesDead, ZenonT(30) DEF DetachUnbind, TypeOK, UnbindsDeadOnly
    <2>2. ASSUME NEW s \in Streams, AttachSwap(s)
          PROVE  UnbindsDeadOnly
      BY <2>2, ShardsAssumption, ZenonT(30) DEF AttachSwap, TypeOK, UnbindsDeadOnly
    <2>3. CASE stream' = stream
      BY <2>3, ZenonT(30) DEF UnbindsDeadOnly
    <2>4. QED
      BY <2>1, <2>2, <2>3, NextCases, ZenonT(30)
      DEF AttachCheckClosing, AttachAdd, AttachLoad, AttachLoadState, AttachSet, ReceiveStart,
          ReceiveEnd, SendTake, SendOK, SendFail, DetachCheckClosing, DetachSub,
          DetachLoadState, DetachSet, CloseLocked, CloseSetState, FlushRuns, Break
  <1>2. QED
    BY <1>1, TypeCorrect, LifecycleCorrect, PTL DEF LiveStreamStaysBound, Spec

-----------------------------------------------------------------------------
(* LogicClient implements LogicLink.                                       *)

dialedMap == {s \in Streams : pc[s] \notin {"dial", "swap", "rejected"}}

\* A step that leaves the link's variables alone is a stuttering step of it.
LEMMA LinkStutter ==
  ASSUME UNCHANGED <<stream, state, closing, flushes, broken>>, dialedMap' = dialedMap
  PROVE  [Link!Next]_(Link!linkVars)
  BY ZenonT(30) DEF Link!linkVars, dialedMap

\* Every step of the client is a step of the link or leaves it unchanged.
LEMMA LinkStep ==
  ASSUME TypeOK, StreamLifecycle, [Next]_vars
  PROVE  [Link!Next]_(Link!linkVars)
  <1> USE ShardsAssumption DEF TypeOK, Procs
  <1>1. CASE UNCHANGED vars
    BY <1>1, LinkStutter, ZenonT(30) DEF vars, dialedMap
  <1>2. ASSUME NEW s \in Streams,
               \/ AttachCheckClosing(s) \/ AttachAdd(s) \/ AttachLoad(s) \/ AttachLoadState(s)
               \/ ReceiveStart(s) \/ ReceiveEnd(s)
        PROVE  [Link!Next]_(Link!linkVars)
    <2>1. dialedMap' = dialedMap
      BY <1>2, ZenonT(30) DEF AttachCheckClosing, AttachAdd, AttachLoad, AttachLoadState, ReceiveStart,
                  ReceiveEnd, Go, dialedMap
    <2>2. QED
      BY <1>2, <2>1, LinkStutter
     , ZenonT(30) DEF AttachCheckClosing, AttachAdd, AttachLoad, AttachLoadState, ReceiveStart, ReceiveEnd
  <1>3. ASSUME NEW s \in Streams, AttachSwap(s)
        PROVE  [Link!Next]_(Link!linkVars)
    <2>1. s \notin dialedMap /\ dialedMap' = dialedMap \cup {s}
      BY <1>3 DEF AttachSwap, Go, dialedMap
    <2>2. Link!Bind(ShardIdx[s], s)
      BY <1>3, <2>1, ZenonT(30) DEF AttachSwap, Link!Bind, dialedMap
    <2>3. QED
      BY <2>2, ZenonT(30) DEF Link!Next
  <1>4. ASSUME NEW s \in Streams, AttachSet(s)
        PROVE  [Link!Next]_(Link!linkVars)
    <2>1. dialedMap' = dialedMap
      BY <1>4, ZenonT(30) DEF AttachSet, Go, dialedMap
    <2>2. dialedMap # {}
      BY <1>4, ZenonT(30) DEF AttachSet, Go, dialedMap
    <2>3. Link!Up
      BY <1>4, <2>1, <2>2, ZenonT(30) DEF AttachSet, Link!Up, dialedMap
    <2>4. QED
      BY <2>3, ZenonT(30) DEF Link!Next
  <1>5. ASSUME NEW sh \in Shards, SendTake(sh) \/ SendOK(sh) \/ SendFail(sh)
        PROVE  [Link!Next]_(Link!linkVars)
    <2>1. dialedMap' = dialedMap
      BY <1>5, ZenonT(30) DEF SendTake, SendOK, SendFail, Go, dialedMap
    <2>2. QED
      BY <1>5, <2>1, LinkStutter, ZenonT(30) DEF SendTake, SendOK, SendFail
  <1>6. ASSUME NEW p \in Procs, DetachUnbind(p)
        PROVE  [Link!Next]_(Link!linkVars)
    <2>1. dialedMap' = dialedMap
      BY <1>6, ZenonT(30) DEF DetachUnbind, Go, Return, dialedMap
    <2>2. CASE stream[ShardOf(p)] = DetachArg(p)
      <3>1. Link!Unbind(ShardOf(p))
        BY <1>6, <2>1, <2>2, DetachesDead, ZenonT(30) DEF DetachUnbind, Link!Unbind, dialedMap
      <3>2. QED
        BY <3>1, DetachTypes, ZenonT(30) DEF Link!Next
    <2>3. CASE stream[ShardOf(p)] # DetachArg(p)
      BY <1>6, <2>1, <2>3, LinkStutter, ZenonT(30) DEF DetachUnbind
    <2>4. QED
      BY <2>2, <2>3, ZenonT(30)
  <1>7. ASSUME NEW p \in Procs,
               DetachCheckClosing(p) \/ DetachSub(p) \/ DetachLoadState(p)
        PROVE  [Link!Next]_(Link!linkVars)
    <2>1. dialedMap' = dialedMap
      BY <1>7, ZenonT(30) DEF DetachCheckClosing, DetachSub, DetachLoadState, Go, Return, dialedMap
    <2>2. QED
      BY <1>7, <2>1, LinkStutter, ZenonT(30) DEF DetachCheckClosing, DetachSub, DetachLoadState
  <1>8. ASSUME NEW p \in Procs, DetachSet(p)
        PROVE  [Link!Next]_(Link!linkVars)
    <2>1. dialedMap' = dialedMap
      BY <1>8, ZenonT(30) DEF DetachSet, Go, Return, dialedMap
    <2>2. Link!Down
      BY <1>8, <2>1, ZenonT(30) DEF DetachSet, Link!Down, dialedMap
    <2>3. QED
      BY <2>2, ZenonT(30) DEF Link!Next
  <1>9. CASE CloseLocked
    BY <1>9, ZenonT(30) DEF CloseLocked, Link!BeginClose, Link!Next
  <1>10. CASE CloseSetState
    BY <1>10, ZenonT(30) DEF CloseSetState, Link!Down, Link!Next
  <1>11. CASE FlushRuns
    BY <1>11, ZenonT(30) DEF FlushRuns, Link!FlushRuns, Link!Next
  <1>12. ASSUME NEW s \in Streams, Break(s)
         PROVE  [Link!Next]_(Link!linkVars)
    BY <1>12, ZenonT(30) DEF Break, Link!Break, Link!Next
  <1>13. QED
    BY <1>1, <1>2, <1>3, <1>4, <1>5, <1>6, <1>7, <1>8, <1>9, <1>10, <1>11, <1>12, NextCases, ZenonT(30)

\* LogicClient implements the abstract link for any shards and dials.
THEOREM LinkCorrect == Spec => ImplementsLink
  <1>1. Init => Link!Init
    BY ShardsAssumption, ZenonT(30) DEF Init, Link!Init, Procs
  <1>2. TypeOK /\ StreamLifecycle /\ [Next]_vars => [Link!Next]_(Link!linkVars)
    BY LinkStep, ZenonT(30)
  <1>3. QED
    BY <1>1, <1>2, TypeCorrect, LifecycleCorrect, PTL DEF Spec, ImplementsLink, Link!Spec

-----------------------------------------------------------------------------
(* The offline queue.                                                      *)

\* The mutex is held by the one producer that arms its timer, on a full queue.
Mutex ==
  /\ \A p \in Producers : at[p] = "arm" <=> lock = p
  /\ lock # NoOne => len = maxSize

\* The goroutines in cond.Wait are those the condition variable knows, once each.
Waiting ==
  /\ \A i, j \in DOMAIN waiters : waiters[i] = waiters[j] => i = j
  /\ \A p \in Producers : at[p] = "waiting" <=> \E i \in DOMAIN waiters : waiters[i] = p

QueueInv == QueueTypeOK /\ Mutex /\ Waiting /\ RoomHasTaker

(* Woken is finite.                                                        *)
LEMMA WokenFinite == IsFiniteSet(Woken) /\ Cardinality(Woken) \in Nat
<1>1. Woken \subseteq Producers
  BY ZenonT(30) DEF Woken
<1> QED BY <1>1, QueueAssumption, FS_Subset, FS_CardinalityType, ZenonT(30)

(* More goroutines woken, or less room, leaves no room unnoticed.          *)
LEMMA StillTaken ==
  ASSUME QueueTypeOK, QueueTypeOK', RoomHasTaker, len <= len', Woken \subseteq Woken', waiters' # <<>> => waiters # <<>>
  PROVE  RoomHasTaker'
<1>1. IsFiniteSet(Woken') /\ Cardinality(Woken') \in Nat
  <2>1. Woken' \subseteq Producers
    BY ZenonT(30) DEF Woken
  <2> QED BY <2>1, QueueAssumption, FS_Subset, FS_CardinalityType, ZenonT(30)
<1>2. Cardinality(Woken) <= Cardinality(Woken') /\ Cardinality(Woken) \in Nat
  BY <1>1, FS_Subset, WokenFinite, ZenonT(30)
<1> QED BY <1>1, <1>2, QueueAssumption DEF RoomHasTaker, QueueTypeOK

(* Signal wakes the goroutine that has waited longest, if one waits.       *)
LEMMA SignalWakes ==
  ASSUME QueueTypeOK, Mutex, Waiting, Signal, UNCHANGED lock
  PROVE  /\ waiters' \in Seq(Producers) /\ at' \in [Producers -> {"idle", "arm", "waiting", "woken"}]
         /\ \A p \in Producers : at'[p] = "arm" <=> lock' = p
         /\ Waiting'
         /\ waiters = <<>> => waiters' = <<>> /\ UNCHANGED at
         /\ waiters # <<>> => \E p \in Producers \ Woken : Woken' = Woken \cup {p}
<1>1. CASE waiters = <<>>
  BY <1>1 DEF Signal, QueueTypeOK, Mutex, Waiting
<1>2. CASE waiters # <<>>
  <2> DEFINE h == Head(waiters)
  <2>1. waiters' = Tail(waiters) /\ at' = [at EXCEPT ![h] = "woken"]
    BY <1>2, ZenonT(30) DEF Signal
  <2>2. /\ h = waiters[1] /\ h \in Producers /\ waiters' \in Seq(Producers) /\ Len(waiters) > 0
        /\ Len(waiters') = Len(waiters) - 1
        /\ \A i \in DOMAIN waiters' : i + 1 \in DOMAIN waiters /\ waiters'[i] = waiters[i + 1]
    BY <1>2, <2>1 DEF QueueTypeOK
  <2>3. /\ DOMAIN waiters = 1..Len(waiters) /\ DOMAIN waiters' = 1..(Len(waiters) - 1) /\ Len(waiters) \in Nat
    BY <2>2 DEF QueueTypeOK
  <2> HIDE DEF h
  <2>4. at[h] = "waiting" /\ 1 \in DOMAIN waiters
    BY <2>2, <2>3 DEF Waiting
  <2>5. at' \in [Producers -> {"idle", "arm", "waiting", "woken"}] /\ at'[h] = "woken"
        /\ \A p \in Producers \ {h} : at'[p] = at[p]
    BY <2>1, <2>2, ZenonT(30) DEF QueueTypeOK
  <2>6. \A p \in Producers : at'[p] = "arm" <=> lock' = p
    BY <2>4, <2>5, ZenonT(30) DEF Mutex
  <2>7. \A i, j \in DOMAIN waiters' : waiters'[i] = waiters'[j] => i = j
    <3> SUFFICES ASSUME NEW i \in DOMAIN waiters', NEW j \in DOMAIN waiters', waiters'[i] = waiters'[j] PROVE i = j
      BY ZenonT(30)
    <3>1. i + 1 = j + 1
      BY <2>2 DEF Waiting
    <3> QED BY <2>3, <3>1
  <2>8. ASSUME NEW p \in Producers PROVE at'[p] = "waiting" <=> \E i \in DOMAIN waiters' : waiters'[i] = p
    <3>1. CASE p = h
      <4>1. ASSUME NEW i \in DOMAIN waiters' PROVE waiters'[i] # h
        <5>1. i + 1 \in DOMAIN waiters /\ i + 1 # 1 /\ waiters'[i] = waiters[i + 1]
          BY <2>2, <2>3
        <5> QED BY <2>2, <2>4, <5>1, ZenonT(30) DEF Waiting
      <4> QED BY <2>5, <3>1, <4>1, ZenonT(30)
    <3>2. CASE p # h
      <4>1. (\E i \in DOMAIN waiters' : waiters'[i] = p) => at[p] = "waiting"
        BY <2>2 DEF Waiting
      <4>2. ASSUME at[p] = "waiting" PROVE \E i \in DOMAIN waiters' : waiters'[i] = p
        <5>1. PICK k \in DOMAIN waiters : waiters[k] = p
          BY <4>2, ZenonT(30) DEF Waiting
        <5>2. k # 1
          BY <2>2, <3>2, <5>1, ZenonT(30)
        <5>3. k - 1 \in DOMAIN waiters' /\ (k - 1) + 1 = k
          BY <2>3, <5>2
        <5>4. waiters'[k - 1] = waiters[k]
          BY <2>2, <5>3, ZenonT(30)
        <5> QED BY <5>1, <5>3, <5>4, ZenonT(30)
      <4> QED BY <2>5, <3>2, <4>1, <4>2, ZenonT(30)
    <3> QED BY <3>1, <3>2, ZenonT(30)
  <2>9. Waiting'
    BY <2>7, <2>8, ZenonT(30) DEF Waiting
  <2>10. Woken' = Woken \cup {h} /\ h \notin Woken
    BY <2>2, <2>4, <2>5, ZenonT(30) DEF Woken
  <2> QED BY <1>2, <2>2, <2>5, <2>6, <2>9, <2>10, ZenonT(30)
<1> QED BY <1>1, <1>2, ZenonT(30)

(* Broadcast leaves nobody waiting.                                        *)
LEMMA BroadcastWakes ==
  ASSUME QueueTypeOK, Mutex, Waiting, Broadcast, UNCHANGED lock
  PROVE  /\ waiters' = <<>> /\ at' \in [Producers -> {"idle", "arm", "waiting", "woken"}]
         /\ \A p \in Producers : at'[p] = "arm" <=> lock' = p
         /\ Waiting'
<1>1. /\ waiters' = <<>> /\ at' \in [Producers -> {"idle", "arm", "waiting", "woken"}]
      /\ \A p \in Producers : at'[p] = IF at[p] = "waiting" THEN "woken" ELSE at[p]
  BY ZenonT(30) DEF Broadcast, QueueTypeOK
<1>2. \A p \in Producers : at'[p] = "arm" <=> lock' = p
  BY <1>1, ZenonT(30) DEF Mutex
<1>3. Waiting'
  BY <1>1 DEF Waiting
<1> QED BY <1>1, <1>2, <1>3, ZenonT(30)

(* A blocked Enqueue: it takes the room there is, or joins the waiters of  *)
(* a full queue.                                                           *)
LEMMA BlockStep ==
  ASSUME QueueInv, NEW p \in Producers, EnqueueBlock(p) \/ Wait(p) \/ Wake(p)
  PROVE  QueueInv'
<1> USE QueueAssumption DEF QueueInv
<1>1. ASSUME UNCHANGED waiters, at[p] \in {"idle", "woken"}, lock = NoOne,
             Arm(p), Full, UNCHANGED <<policy, hand, closeAt, lost>>, expired' \subseteq Producers
      PROVE  QueueInv'
  <2>1. QueueTypeOK'
    BY <1>1, ZenonT(30) DEF QueueTypeOK, Arm
  <2>2. Mutex'
    BY <1>1 DEF Mutex, QueueTypeOK, Arm, Full
  <2>3. Waiting'
    BY <1>1 DEF Waiting, QueueTypeOK, Arm
  <2>4. maxSize - len' = 0
    BY <1>1 DEF Arm, Full, QueueTypeOK
  <2>5. IsFiniteSet(Woken') /\ Cardinality(Woken') \in Nat
    <3>1. Woken' \subseteq Producers
      BY ZenonT(30) DEF Woken
    <3> QED BY <3>1, FS_Subset, FS_CardinalityType, ZenonT(30)
  <2>6. RoomHasTaker'
    BY <2>4, <2>5 DEF RoomHasTaker
  <2> QED BY <2>1, <2>2, <2>3, <2>6, ZenonT(30)
<1>2. CASE EnqueueBlock(p) /\ ~Full /\ len' = len + 1 /\ UNCHANGED <<lock, armed, at>>
  <2>1. QueueTypeOK'
    BY <1>2 DEF EnqueueBlock, QueueTypeOK, Full
  <2>2. Mutex' /\ Waiting' /\ Woken' = Woken
    BY <1>2, ZenonT(30) DEF EnqueueBlock, Mutex, Waiting, Woken
  <2>3. RoomHasTaker'
    BY <1>2, <2>1, <2>2, StillTaken DEF EnqueueBlock, QueueTypeOK
  <2> QED BY <2>1, <2>2, <2>3, ZenonT(30)
<1>3. CASE EnqueueBlock(p) /\ Full /\ Arm(p)
  BY <1>1, <1>3, ZenonT(30) DEF EnqueueBlock, QueueTypeOK
<1>4. CASE Wait(p)
  <2>1. QueueTypeOK' /\ lock = p /\ len = maxSize
    BY <1>4 DEF Wait, QueueTypeOK, Mutex
  <2>2. Mutex'
    BY <1>4, <2>1, ZenonT(30) DEF Wait, Mutex, QueueTypeOK
  <2>3. /\ Len(waiters) \in Nat /\ DOMAIN waiters = 1..Len(waiters)
        /\ DOMAIN waiters' = 1..(Len(waiters) + 1) /\ waiters'[Len(waiters) + 1] = p
        /\ \A i \in DOMAIN waiters : waiters'[i] = waiters[i]
    BY <1>4 DEF Wait, QueueTypeOK
  <2>4. at'[p] = "waiting" /\ at[p] # "waiting" /\ \A q \in Producers \ {p} : at'[q] = at[q]
    BY <1>4, ZenonT(30) DEF Wait, QueueTypeOK
  <2>5. Waiting'
    <3>1. \A i \in DOMAIN waiters : waiters[i] # p
      BY <2>4, ZenonT(30) DEF Waiting
    <3>2. \A i, j \in DOMAIN waiters' : waiters'[i] = waiters'[j] => i = j
      BY <2>3, <3>1 DEF Waiting
    <3>3. \A q \in Producers : at'[q] = "waiting" <=> \E i \in DOMAIN waiters' : waiters'[i] = q
      BY <2>3, <2>4 DEF Waiting
    <3> QED BY <3>2, <3>3, ZenonT(30) DEF Waiting
  <2>6. RoomHasTaker'
    <3>1. Woken' = Woken /\ maxSize - len' = 0
      BY <1>4, <2>1, <2>4 DEF Wait, Woken, QueueTypeOK
    <3> QED BY <3>1, WokenFinite DEF RoomHasTaker
  <2> QED BY <2>1, <2>2, <2>5, <2>6, ZenonT(30)
<1>5. CASE Wake(p) /\ Full /\ Arm(p)
  BY <1>1, <1>5, ZenonT(30) DEF Wake, QueueTypeOK
<1>6. CASE /\ Wake(p) /\ len' = (IF Full THEN len ELSE len + 1) /\ at' = [at EXCEPT ![p] = "idle"]
           /\ armed' = armed \ {p} /\ UNCHANGED lock
  <2>1. QueueTypeOK'
    BY <1>6 DEF Wake, QueueTypeOK, Full
  <2>2. at[p] = "woken" /\ at'[p] = "idle" /\ \A q \in Producers \ {p} : at'[q] = at[q]
    BY <1>6, ZenonT(30) DEF Wake, QueueTypeOK
  <2>3. UNCHANGED <<waiters, lock>> /\ lock = NoOne
    BY <1>6, ZenonT(30) DEF Wake
  <2>4. Mutex' /\ Waiting'
    BY <2>2, <2>3 DEF Mutex, Waiting
  <2>5. Woken' = Woken \ {p} /\ p \in Woken
    BY <2>2, ZenonT(30) DEF Woken
  <2>6. Cardinality(Woken') = Cardinality(Woken) - 1 /\ IsFiniteSet(Woken')
    BY <2>5, WokenFinite, FS_RemoveElement, ZenonT(30)
  <2>7. Cardinality(Woken') \in Nat
    BY <2>6, FS_CardinalityType, ZenonT(30)
  <2>8. RoomHasTaker'
    BY <1>6, <2>3, <2>6, <2>7, WokenFinite DEF RoomHasTaker, QueueTypeOK, Full
  <2> QED BY <2>1, <2>4, <2>8, ZenonT(30)
<1> QED BY <1>2, <1>3, <1>4, <1>5, <1>6, ZenonT(30) DEF EnqueueBlock, Wake

(* Steps that signal: a Dequeue makes room for one and wakes one.          *)
LEMMA SignalStep ==
  ASSUME QueueInv, Signal, UNCHANGED <<policy, lock, closeAt>>, lock = NoOne,
         len' \in 0..maxSize, len - 1 <= len', hand' \in BOOLEAN, lost' \in BOOLEAN,
         UNCHANGED <<expired, armed>>
  PROVE  QueueInv'
<1> USE QueueAssumption DEF QueueInv
<1>1. /\ waiters' \in Seq(Producers) /\ at' \in [Producers -> {"idle", "arm", "waiting", "woken"}]
      /\ \A p \in Producers : at'[p] = "arm" <=> lock' = p
      /\ Waiting'
      /\ waiters = <<>> => waiters' = <<>> /\ UNCHANGED at
      /\ waiters # <<>> => \E p \in Producers \ Woken : Woken' = Woken \cup {p}
  BY SignalWakes, ZenonT(30)
<1>2. QueueTypeOK'
  BY <1>1, ZenonT(30) DEF QueueTypeOK
<1>3. Mutex'
  BY <1>1, ZenonT(30) DEF Mutex
<1>4. RoomHasTaker'
  <2>1. CASE waiters = <<>>
    BY <1>1, <2>1, ZenonT(30) DEF RoomHasTaker
  <2>2. CASE waiters # <<>>
    <3>1. PICK p \in Producers \ Woken : Woken' = Woken \cup {p}
      BY <1>1, <2>2, ZenonT(30)
    <3>2. Cardinality(Woken') = Cardinality(Woken) + 1
      BY <3>1, WokenFinite, FS_AddElement, ZenonT(30)
    <3> QED BY <2>2, <3>2, WokenFinite DEF RoomHasTaker, QueueTypeOK
  <2> QED BY <2>1, <2>2, ZenonT(30)
<1> QED BY <1>1, <1>2, <1>3, <1>4, ZenonT(30)

(* Every step preserves the invariant.                                     *)
LEMMA QueueStep == QueueInv /\ [QueueNext]_queueVars => QueueInv'
<1> SUFFICES ASSUME QueueInv, [QueueNext]_queueVars PROVE QueueInv'
  BY ZenonT(30)
<1> USE QueueAssumption
<1>0. QueueTypeOK /\ Mutex /\ Waiting /\ RoomHasTaker
  BY ZenonT(30) DEF QueueInv
<1>1. ASSUME NEW p \in Producers, EnqueueBackpressure(p) \/ EnqueueDrop(p) PROVE QueueInv'
  <2>1. /\ Signal /\ UNCHANGED <<policy, lock, closeAt, expired, armed, hand>> /\ lock = NoOne /\ hand' \in BOOLEAN
    BY <1>0, <1>1, ZenonT(30) DEF EnqueueBackpressure, EnqueueDrop, QueueTypeOK
  <2>2. len' \in 0..maxSize /\ len - 1 <= len'
    BY <1>0, <1>1 DEF EnqueueBackpressure, EnqueueDrop, QueueTypeOK, Full
  <2>3. lost' \in BOOLEAN
    BY <1>1, ZenonT(30) DEF EnqueueBackpressure, EnqueueDrop
  <2> QED BY <2>1, <2>2, <2>3, SignalStep, ZenonT(30)
<1>2. CASE Dequeue
  BY <1>0, <1>2, SignalStep DEF Dequeue, QueueTypeOK
<1>3. CASE RequeueFront
  <2>1. Signal /\ UNCHANGED <<policy, lock, closeAt, expired, armed>> /\ lock = NoOne /\ hand' \in BOOLEAN
    BY <1>0, <1>3, ZenonT(30) DEF RequeueFront, QueueTypeOK
  <2>2. len' \in 0..maxSize /\ len - 1 <= len'
    BY <1>0, <1>3 DEF RequeueFront, QueueTypeOK, Full
  <2>3. lost' \in BOOLEAN
    BY <1>3, ZenonT(30) DEF RequeueFront
  <2> QED BY <2>1, <2>2, <2>3, SignalStep, ZenonT(30)
<1>4. ASSUME UNCHANGED <<policy, len, lock, waiters, at>>, expired' \subseteq Producers, armed' \subseteq Producers,
             hand' \in BOOLEAN, closeAt' \in {"open", "broadcast", "closed"}, lost' \in BOOLEAN
      PROVE  QueueInv'
  <2>1. QueueTypeOK' /\ Mutex' /\ Waiting' /\ Woken' = Woken
    BY <1>0, <1>4 DEF QueueTypeOK, Mutex, Waiting, Woken
  <2> QED BY <1>0, <1>4, <2>1, ZenonT(30) DEF QueueInv, RoomHasTaker
<1>5. CASE Consume \/ CloseQueue \/ UNCHANGED queueVars
  BY <1>0, <1>4, <1>5, ZenonT(30) DEF Consume, CloseQueue, queueVars, QueueTypeOK
<1>6. ASSUME NEW p \in Producers, Deadline(p) PROVE QueueInv'
  BY <1>0, <1>4, <1>6, ZenonT(30) DEF Deadline, QueueTypeOK
<1>7. ASSUME Broadcast, UNCHANGED <<policy, len, lock, expired, hand, lost>>, armed' \subseteq Producers,
             closeAt' \in {"open", "broadcast", "closed"}
      PROVE  QueueInv'
  <2>1. /\ waiters' = <<>> /\ at' \in [Producers -> {"idle", "arm", "waiting", "woken"}]
        /\ \A p \in Producers : at'[p] = "arm" <=> lock' = p
        /\ Waiting'
    BY <1>0, <1>7, BroadcastWakes, ZenonT(30)
  <2>2. QueueTypeOK' /\ Mutex'
    BY <1>0, <1>7, <2>1 DEF QueueTypeOK, Mutex
  <2> QED BY <2>1, <2>2, ZenonT(30) DEF QueueInv, RoomHasTaker
<1>8. CASE CloseBroadcast \/ \E p \in Producers : Timer(p)
  BY <1>0, <1>7, <1>8, ZenonT(30) DEF CloseBroadcast, Timer, QueueTypeOK
<1> QED BY <1>1, <1>2, <1>3, <1>5, <1>6, <1>8, BlockStep, ZenonT(30) DEF QueueNext, Enqueue

(* QueueInv is an invariant of the queue under every policy.               *)
THEOREM QueueInvariance == QueueSpec => []QueueInv
<1>1. QueueInit => QueueInv
  <2> SUFFICES ASSUME QueueInit PROVE QueueInv
    BY ZenonT(30)
  <2>1. QueueTypeOK
    <3>1. len \in 0..maxSize /\ waiters \in Seq(Producers)
      BY QueueAssumption DEF QueueInit
    <3>2. hand \in BOOLEAN /\ lost \in BOOLEAN
      BY ZenonT(30) DEF QueueInit
    <3> QED BY <3>1, <3>2, ZenonT(30) DEF QueueInit, QueueTypeOK
  <2>2. DOMAIN waiters = {}
    BY DEF QueueInit
  <2>3. Mutex /\ Waiting /\ RoomHasTaker
    BY <2>2, QueueAssumption, ZenonT(30) DEF QueueInit, Mutex, Waiting, RoomHasTaker
  <2> QED BY <2>1, <2>3, ZenonT(30) DEF QueueInv
<1> QED BY <1>1, QueueStep, PTL DEF QueueSpec

(* Types: the queue never holds more than its capacity, whatever Enqueue   *)
(* and RequeueFront do.                                                    *)
THEOREM QueueTypes == QueueSpec => []QueueTypeOK
<1>1. QueueInv => QueueTypeOK
  BY ZenonT(30) DEF QueueInv
<1> QED BY <1>1, QueueInvariance, PTL

(* While goroutines wait in Enqueue at least as many as there is room for  *)
(* have been woken: one Signal per Dequeue is enough, for any number of    *)
(* producers.                                                              *)
THEOREM RoomIsTaken == QueueSpec => []RoomHasTaker
<1>1. QueueInv => RoomHasTaker
  BY ZenonT(30) DEF QueueInv
<1> QED BY <1>1, QueueInvariance, PTL

-----------------------------------------------------------------------------
(* Backpressure.                                                           *)

\* The message Flush holds still has its place, and nobody waits for one.
PlaceFree ==
  policy = "backpressure" =>
    /\ ~lost
    /\ waiters = <<>> /\ \A p \in Producers : at[p] = "idle"
    /\ (IF hand THEN len - 1 ELSE len - 2) * 100 < threshold * maxSize

(* With a threshold that leaves one place of the queue free, as the        *)
(* default of 0.8 on 100000 does, the backpressure policy loses nothing it *)
(* has accepted: neither Enqueue nor the RequeueFront of Flush finds the   *)
(* queue full.                                                             *)
THEOREM BackpressureLosesNothing ==
  ASSUME threshold * maxSize <= 100 * (maxSize - 1)
  PROVE  QueueSpec => []BackpressureKeeps
<1>0. threshold * maxSize \in Nat \ {0}
  <2>1. \A a, b \in Nat \ {0} : a * b \in Nat \ {0}
    BY SMT
  <2> QED BY <2>1, QueueAssumption
<1>1. PICK K \in Nat \ {0} : K = threshold * maxSize
  BY <1>0, ZenonT(30)
<1>2. K <= 100 * (maxSize - 1) /\ maxSize \in Nat \ {0}
  BY <1>1, QueueAssumption, ZenonT(30)
<1> DEFINE Free == policy = "backpressure" =>
                     /\ ~lost
                     /\ waiters = <<>> /\ \A p \in Producers : at[p] = "idle"
                     /\ (IF hand THEN len - 1 ELSE len - 2) * 100 < K
<1>3. Free <=> PlaceFree
  BY <1>1, ZenonT(30) DEF PlaceFree
<1>4. QueueInit => PlaceFree
  <2>1. QueueInit => Free
    BY <1>1 DEF QueueInit
  <2> QED BY <1>3, <2>1, ZenonT(30)
<1>5. QueueTypeOK /\ PlaceFree /\ [QueueNext]_queueVars => PlaceFree'
  <2> SUFFICES ASSUME QueueTypeOK, Free, [QueueNext]_queueVars, policy' = "backpressure"
               PROVE  /\ ~lost' /\ waiters' = <<>> /\ \A p \in Producers : at'[p] = "idle"
                      /\ (IF hand' THEN len' - 1 ELSE len' - 2) * 100 < K
    BY <1>1, ZenonT(30) DEF PlaceFree
  <2>1. policy = "backpressure" /\ len \in Nat /\ hand \in BOOLEAN
    BY DEF QueueTypeOK, QueueNext, queueVars, Enqueue, EnqueueBlock, Wait, Wake, EnqueueBackpressure, EnqueueDrop, Deadline,
           Timer, Dequeue, Consume, RequeueFront, CloseQueue, CloseBroadcast
  <2>2. /\ ~lost /\ waiters = <<>> /\ \A p \in Producers : at[p] = "idle"
        /\ (IF hand THEN len - 1 ELSE len - 2) * 100 < K
    BY <2>1, ZenonT(30)
  <2> HIDE DEF Free
  <2>3. Signal \/ Broadcast => waiters' = <<>> /\ \A p \in Producers : at'[p] = "idle"
    BY <2>2, ZenonT(30) DEF Signal, Broadcast
  <2>4. ASSUME NEW p \in Producers, EnqueueBackpressure(p)
        PROVE  ~lost' /\ Signal /\ (IF hand' THEN len' - 1 ELSE len' - 2) * 100 < K
    <3>1. len * 100 < K /\ ~Full
      BY <1>1, <1>2, <2>1, <2>4 DEF EnqueueBackpressure, Full
    <3>2. len' = len + 1 /\ hand' = hand /\ Signal
      BY <2>4, <3>1, ZenonT(30) DEF EnqueueBackpressure
    <3>3. ~lost'
      BY <2>2, <2>4, <3>1, ZenonT(30) DEF EnqueueBackpressure
    <3> QED BY <2>1, <3>1, <3>2, <3>3
  <2>5. CASE RequeueFront
    <3>1. hand /\ ~Full
      BY <1>1, <1>2, <2>1, <2>2, <2>5 DEF RequeueFront, Full
    <3>2. len' = len + 1 /\ ~hand' /\ Signal
      BY <2>5, <3>1, ZenonT(30) DEF RequeueFront
    <3>3. ~lost'
      BY <2>2, <2>5, <3>1, ZenonT(30) DEF RequeueFront
    <3> QED BY <2>1, <2>2, <2>3, <3>1, <3>2, <3>3
  <2>6. CASE Dequeue
    BY <1>1, <2>1, <2>2, <2>3, <2>6 DEF Dequeue
  <2>7. CASE Consume
    BY <1>1, <2>1, <2>2, <2>7 DEF Consume
  <2>8. CASE UNCHANGED <<len, hand, lost>> /\ (UNCHANGED <<waiters, at>> \/ Broadcast)
    BY <2>2, <2>3, <2>8, ZenonT(30)
  <2>9. ASSUME NEW p \in Producers, Enqueue(p) \/ Deadline(p) \/ Timer(p)
        PROVE  \/ UNCHANGED <<len, hand, lost>> /\ (UNCHANGED <<waiters, at>> \/ Broadcast)
               \/ EnqueueBackpressure(p)
    BY <2>1, <2>2, <2>9, ZenonT(30) DEF Enqueue, EnqueueBlock, Wait, Wake, EnqueueDrop, Deadline, Timer
  <2>10. CASE CloseQueue \/ CloseBroadcast \/ UNCHANGED queueVars
    BY <2>8, <2>10, ZenonT(30) DEF CloseQueue, CloseBroadcast, queueVars
  <2> QED BY <2>3, <2>4, <2>5, <2>6, <2>7, <2>8, <2>9, <2>10, ZenonT(30) DEF QueueNext
<1>6. PlaceFree => BackpressureKeeps
  BY ZenonT(30) DEF PlaceFree, BackpressureKeeps
<1> QED BY <1>4, <1>5, <1>6, QueueTypes, PTL DEF QueueSpec
=============================================================================
