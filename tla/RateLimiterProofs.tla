------------------------- MODULE RateLimiterProofs -------------------------
(***************************************************************************)
(* For any number of workers, keys, buckets and settings: what a token     *)
(* bucket hands out.  A worker that swapped lastUpdate holds the stretch   *)
(* of time it is about to refill for; stretches of one bucket do not       *)
(* overlap, and what is neither held nor still to come has paid for the    *)
(* tokens.                                                                 *)
(***************************************************************************)
EXTENDS RateLimiter, FiniteSetTheorems, TLAPS

USE SMTT(30), ZenonT(30)

(* Quotient and remainder.                                                 *)
LEMMA Division ==
  ASSUME NEW a \in Nat, NEW W \in Nat \ {0}
  PROVE  \E q \in Nat, r \in 0..(W - 1) : a = W * q + r /\ r = a % W
<1>1. a % W = a - W * (a \div W)
  BY SMTT(60)
<1>2. a % W \in 0..(W - 1) /\ a \div W \in Int /\ a \div W >= 0
  BY SMT
<1>3. PICK q \in Nat : q = a \div W
  BY <1>2
<1>4. PICK r \in 0..(W - 1) : r = a % W
  BY <1>2
<1>5. a = W * q + r
  BY <1>1, <1>3, <1>4
<1> QED BY <1>4, <1>5, ZenonT(30)

(* Multiples of W.                                                         *)
LEMMA Multiple ==
  ASSUME NEW k \in Int, NEW W \in Nat \ {0}
  PROVE  (k >= 1 => W * k >= W) /\ (k <= -1 => W * k <= -W) /\ (k <= 0 => W * k <= 0) /\ (k = 0 => W * k = 0)
BY SMT

Refreshes == {s.refresh : s \in Settings}

\* No refresh period is shorter than p.
Shortest(p) == p \in Nat \ {0} /\ \A r \in Refreshes : p <= r

BucketRecord == [max: Nat, burst: Nat, refresh: Refreshes, tokens: Nat, last: Nat,
                 born: Nat, peak: Nat, granted: Nat]
Spots == {"rest", "create", "clock", "last", "swap", "burst", "add", "take"}
Call == [at: Spots, key: Keys \cup {None}, id: BucketIds \cup {None}, rate: Nat, refresh: Nat,
         clock: Nat, last: Nat, add: Nat, burst: Nat, ok: BOOLEAN]

Tables ==
  /\ now \in Nat
  /\ setting \in [rate: Nat \ {0}, refresh: Refreshes, route: Nat, global: Nat]
  /\ DOMAIN bucket \subseteq BucketIds /\ bucket = [i \in DOMAIN bucket |-> bucket[i]]
  /\ slot \in [Keys -> DOMAIN bucket \cup {None}] /\ whole \in DOMAIN bucket
  /\ lim \in [Workers -> Call]
  /\ tune \in [call: {"rest", "rate", "route"}, step: {"pick", "max", "burst", "cut"}, todo: SUBSET Keys,
               key: Keys \cup {None}, id: BucketIds \cup {None}, want: Settings]
  /\ tune.step # "pick" => tune.id \in DOMAIN bucket

BucketOK(id) == /\ bucket[id] \in BucketRecord
                /\ bucket[id].max <= bucket[id].peak
                /\ bucket[id].born <= bucket[id].last /\ bucket[id].last <= now

CallOK(w) == /\ lim[w].at \notin {"rest", "create"} => lim[w].id \in DOMAIN bucket
             /\ lim[w].at = "create" => lim[w].key \in Keys
             /\ lim[w].at \in {"create", "last", "swap"} => lim[w].refresh \in Refreshes
             /\ lim[w].at \in {"last", "swap", "burst", "add"} => lim[w].clock <= now
             /\ lim[w].at = "swap" => lim[w].clock - lim[w].last > lim[w].refresh

Pending(w) == lim[w].at \in {"burst", "add"}

\* What a worker adds is covered by the stretch it holds.
Covered(w) ==
  Pending(w) =>
    /\ lim[w].last < lim[w].clock
    /\ bucket[lim[w].id].born <= lim[w].last /\ lim[w].clock <= bucket[lim[w].id].last
    /\ \A p : Shortest(p) => \E n \in Nat : /\ lim[w].add <= n * bucket[lim[w].id].peak
                                            /\ n * p <= lim[w].clock - lim[w].last

Apart(v, w) ==
  Pending(v) /\ Pending(w) /\ lim[v].id = lim[w].id =>
    lim[v].clock <= lim[w].last \/ lim[w].clock <= lim[v].last

\* The time of a bucket's life that nobody holds.
Settled(id) ==
  {t \in bucket[id].born..(bucket[id].last - 1) :
     \A w \in Workers : Pending(w) /\ lim[w].id = id => t < lim[w].last \/ t >= lim[w].clock}

Paid(id, p) ==
  \E q \in Nat : /\ bucket[id].tokens + bucket[id].granted <= bucket[id].peak * (1 + q)
                 /\ q * p <= Cardinality(Settled(id))

LimitInv ==
  /\ Tables
  /\ \A id \in DOMAIN bucket : BucketOK(id)
  /\ \A w \in Workers : CallOK(w) /\ Covered(w)
  /\ \A v, w \in Workers : v # w => Apart(v, w)
  /\ \A id \in DOMAIN bucket : \A p : Shortest(p) => Paid(id, p)

(* Products grow with their factors.                                       *)
LEMMA Product ==
  ASSUME NEW n \in Nat, NEW a \in Nat, NEW b \in Nat, a <= b
  PROVE  /\ n * a \in Nat /\ n * b \in Nat /\ a * n \in Nat /\ b * n \in Nat
         /\ n * a <= n * b /\ a * n <= b * n
BY SMT

(* What is settled is finite, and no more than the life of the bucket.     *)
LEMMA SettledFinite ==
  ASSUME NEW b \in BucketRecord, b.born <= b.last, NEW S \in SUBSET (b.born..(b.last - 1))
  PROVE  IsFiniteSet(S) /\ Cardinality(S) \in Nat /\ Cardinality(S) <= b.last - b.born
<1> DEFINE L == b.born..(b.last - 1)
<1>1. PICK c \in Int, d \in Int : c = b.born /\ d = b.last - 1
  BY DEF BucketRecord
<1>2. IsFiniteSet(L) /\ Cardinality(L) = b.last - b.born
  <2>1. L = c..d /\ c <= d + 1 /\ b.last \in Nat /\ b.born \in Nat
    BY <1>1 DEF BucketRecord
  <2>2. IsFiniteSet(c..d) /\ Cardinality(c..d) = IF c > d THEN 0 ELSE d - c + 1
    BY FS_Interval, ZenonT(30)
  <2>3. Cardinality(c..d) = d - c + 1
    BY <2>1, <2>2
  <2>4. d - c + 1 = b.last - b.born
    BY <1>1, <2>1
  <2> HIDE DEF L
  <2> QED BY <2>1, <2>2, <2>3, <2>4, ZenonT(30)
<1>3. S \in SUBSET L
  BY ZenonT(30)
<1> HIDE DEF L
<1> QED BY <1>2, <1>3, FS_Subset, FS_CardinalityType, ZenonT(30)

(* A bucket whose budget only shrinks stays paid.                          *)
LEMMA StaysPaid ==
  ASSUME NEW id, bucket[id] \in BucketRecord, bucket'[id] \in BucketRecord,
         bucket[id].peak <= bucket'[id].peak,
         bucket'[id].tokens + bucket'[id].granted <= bucket[id].tokens + bucket[id].granted,
         Settled(id)' = Settled(id), NEW p, Paid(id, p)
  PROVE  Paid(id, p)'
<1>1. PICK q \in Nat : /\ bucket[id].tokens + bucket[id].granted <= bucket[id].peak * (1 + q)
                       /\ q * p <= Cardinality(Settled(id))
  BY ZenonT(30) DEF Paid
<1>2. bucket[id].peak \in Nat /\ bucket'[id].peak \in Nat /\ bucket[id].tokens \in Nat /\ bucket[id].granted \in Nat
      /\ bucket'[id].tokens \in Nat /\ bucket'[id].granted \in Nat /\ 1 + q \in Nat
  BY DEF BucketRecord
<1>3. PICK m \in Nat : m = 1 + q
  OBVIOUS
<1>4. bucket[id].peak * m <= bucket'[id].peak * m /\ bucket[id].peak * m \in Nat /\ bucket'[id].peak * m \in Nat
  BY <1>2, Product, ZenonT(30)
<1>5. bucket'[id].tokens + bucket'[id].granted <= bucket'[id].peak * (1 + q)
  BY <1>1, <1>2, <1>3, <1>4
<1> QED BY <1>1, <1>5, ZenonT(30) DEF Paid

\* A worker holds a stretch after the step as before it, or neither.
SameHold(w) ==
  /\ Pending(w)' <=> Pending(w)
  /\ Pending(w) => /\ lim'[w].id = lim[w].id /\ lim'[w].last = lim[w].last
                   /\ lim'[w].clock = lim[w].clock /\ lim'[w].add = lim[w].add

\* A bucket keeps its time, and its budget does not grow.
SameTime(id) ==
  /\ BucketOK(id)'
  /\ bucket'[id].born = bucket[id].born /\ bucket'[id].last = bucket[id].last
  /\ bucket[id].peak <= bucket'[id].peak
  /\ bucket'[id].tokens + bucket'[id].granted <= bucket[id].tokens + bucket[id].granted

(* A bucket that a step leaves alone.                                      *)
LEMMA SameBucket ==
  ASSUME NEW id, BucketOK(id), bucket'[id] = bucket[id], now \in Nat, now' \in Nat, now' = now \/ now <= now'
  PROVE  SameTime(id)
<1>1. PICK b \in BucketRecord : b = bucket[id]
  BY ZenonT(30) DEF BucketOK
<1>2. b.max <= b.peak /\ b.born <= b.last /\ b.last <= now
  BY <1>1, ZenonT(30) DEF BucketOK
<1>3. b.last \in Nat /\ b.peak \in Nat /\ b.tokens \in Nat /\ b.granted \in Nat
  BY ZenonT(30) DEF BucketRecord
<1>4. b.last <= now' /\ b.peak <= b.peak /\ b.tokens + b.granted <= b.tokens + b.granted
  BY <1>2, <1>3
<1>5. BucketOK(id)'
  BY <1>1, <1>2, <1>4, ZenonT(30) DEF BucketOK
<1> QED BY <1>1, <1>4, <1>5, ZenonT(30) DEF SameTime

(* What a worker holds stays covered while its bucket keeps its time.      *)
LEMMA StaysCovered ==
  ASSUME NEW w \in Workers, SameHold(w), Covered(w),
         Pending(w) => /\ BucketOK(lim[w].id)
                       /\ bucket'[lim[w].id] \in BucketRecord
                       /\ bucket'[lim[w].id].born = bucket[lim[w].id].born
                       /\ bucket[lim[w].id].last <= bucket'[lim[w].id].last
                       /\ bucket[lim[w].id].peak <= bucket'[lim[w].id].peak,
         lim[w] \in Call
  PROVE  Covered(w)'
<1> SUFFICES ASSUME Pending(w)'
             PROVE  /\ lim'[w].last < lim'[w].clock
                    /\ bucket'[lim'[w].id].born <= lim'[w].last /\ lim'[w].clock <= bucket'[lim'[w].id].last
                    /\ \A p : Shortest(p) => \E n \in Nat : /\ lim'[w].add <= n * bucket'[lim'[w].id].peak
                                                            /\ n * p <= lim'[w].clock - lim'[w].last
  BY ZenonT(30) DEF Covered
<1>1. Pending(w) /\ lim'[w].id = lim[w].id /\ lim'[w].last = lim[w].last /\ lim'[w].clock = lim[w].clock
      /\ lim'[w].add = lim[w].add
  BY ZenonT(30) DEF SameHold
<1>2. PICK i : i = lim[w].id
  BY ZenonT(30)
<1>3. /\ bucket[i].peak \in Nat /\ bucket'[i].peak \in Nat /\ bucket[i].peak <= bucket'[i].peak
      /\ bucket[i].last \in Nat /\ bucket'[i].last \in Nat /\ bucket[i].last <= bucket'[i].last
      /\ bucket'[i].born = bucket[i].born /\ lim[w].clock \in Nat /\ lim[w].add \in Nat
  BY <1>1, <1>2, ZenonT(30) DEF BucketOK, BucketRecord, Call
<1>4. /\ lim[w].last < lim[w].clock /\ bucket[i].born <= lim[w].last /\ lim[w].clock <= bucket[i].last
      /\ \A p : Shortest(p) => \E n \in Nat : lim[w].add <= n * bucket[i].peak /\ n * p <= lim[w].clock - lim[w].last
  BY <1>1, <1>2, ZenonT(30) DEF Covered
<1>5. ASSUME NEW p, Shortest(p)
      PROVE  \E n \in Nat : lim[w].add <= n * bucket'[i].peak /\ n * p <= lim[w].clock - lim[w].last
  <2>1. PICK n \in Nat : lim[w].add <= n * bucket[i].peak /\ n * p <= lim[w].clock - lim[w].last
    BY <1>4, <1>5, ZenonT(30)
  <2>2. n * bucket[i].peak <= n * bucket'[i].peak /\ n * bucket[i].peak \in Nat /\ n * bucket'[i].peak \in Nat
    BY <1>3, Product, ZenonT(30)
  <2>3. lim[w].add <= n * bucket'[i].peak
    BY <1>3, <2>1, <2>2
  <2> QED BY <2>1, <2>3, ZenonT(30)
<1>6. lim[w].clock <= bucket'[i].last
  BY <1>3, <1>4
<1> QED BY <1>1, <1>2, <1>3, <1>4, <1>5, <1>6, ZenonT(30)

(* A step in which no stretch of time changes hands keeps the invariant.   *)
LEMMA NoRefill ==
  ASSUME LimitInv, Tables', DOMAIN bucket \subseteq DOMAIN bucket',
         \A w \in Workers : CallOK(w)' /\ SameHold(w),
         \A id \in DOMAIN bucket : SameTime(id),
         \A id \in DOMAIN bucket' \ DOMAIN bucket :
           BucketOK(id)' /\ bucket'[id].tokens <= bucket'[id].peak /\ bucket'[id].granted = 0
  PROVE  LimitInv'
<1>1. \A id \in DOMAIN bucket' : BucketOK(id)'
  BY ZenonT(30) DEF SameTime
<1>2. ASSUME NEW w \in Workers PROVE CallOK(w)' /\ Covered(w)'
  <2>1. lim[w] \in Call /\ Covered(w) /\ SameHold(w) /\ CallOK(w)' /\ CallOK(w)
    BY ZenonT(30) DEF LimitInv, Tables
  <2>2. ASSUME Pending(w)
        PROVE  /\ BucketOK(lim[w].id) /\ bucket'[lim[w].id] \in BucketRecord
               /\ bucket'[lim[w].id].born = bucket[lim[w].id].born
               /\ bucket[lim[w].id].last <= bucket'[lim[w].id].last
               /\ bucket[lim[w].id].peak <= bucket'[lim[w].id].peak
    <3>1. lim[w].id \in DOMAIN bucket
      BY <2>1, <2>2, ZenonT(30) DEF CallOK, Pending
    <3>2. PICK i : i = lim[w].id
      BY ZenonT(30)
    <3>3. BucketOK(i) /\ SameTime(i)
      BY <3>1, <3>2, ZenonT(30) DEF LimitInv
    <3>4. /\ bucket'[i] \in BucketRecord /\ bucket'[i].born = bucket[i].born
          /\ bucket[i].last <= bucket'[i].last /\ bucket[i].peak <= bucket'[i].peak
      BY <3>3 DEF SameTime, BucketOK, BucketRecord
    <3> QED BY <3>2, <3>3, <3>4, ZenonT(30)
  <2> QED BY <2>1, <2>2, StaysCovered, ZenonT(30)
<1>3. ASSUME NEW v \in Workers, NEW w \in Workers, v # w PROVE Apart(v, w)'
  <2>1. Apart(v, w) /\ SameHold(v) /\ SameHold(w)
    BY <1>3, ZenonT(30) DEF LimitInv
  <2> QED BY <2>1, ZenonT(30) DEF Apart, SameHold, Pending
<1>4. ASSUME NEW id \in DOMAIN bucket', NEW p, Shortest(p) PROVE Paid(id, p)'
  <2>1. CASE id \in DOMAIN bucket
    <3>1. BucketOK(id) /\ SameTime(id) /\ Paid(id, p)
      BY <1>4, <2>1, ZenonT(30) DEF LimitInv
    <3>2. Settled(id)' = Settled(id)
      BY <3>1, ZenonT(30) DEF Settled, SameTime, SameHold
    <3> QED BY <3>1, <3>2, StaysPaid, ZenonT(30) DEF SameTime, BucketOK
  <2>2. CASE id \notin DOMAIN bucket
    <3>1. BucketOK(id)' /\ bucket'[id].tokens <= bucket'[id].peak /\ bucket'[id].granted = 0
      BY <2>2, ZenonT(30)
    <3>2. bucket'[id].tokens + bucket'[id].granted <= bucket'[id].peak * (1 + 0)
      BY <3>1 DEF BucketOK, BucketRecord
    <3>3. Cardinality(Settled(id)') \in Nat
      <4>1. Settled(id)' \in SUBSET (bucket'[id].born..(bucket'[id].last - 1))
        BY ZenonT(30) DEF Settled
      <4> QED BY <3>1, <4>1, SettledFinite, ZenonT(30) DEF BucketOK
    <3>4. 0 * p <= Cardinality(Settled(id)')
      BY <1>4, <3>3 DEF Shortest
    <3> QED BY <3>2, <3>4, ZenonT(30) DEF Paid
  <2> QED BY <2>1, <2>2, ZenonT(30)
<1> QED BY <1>1, <1>2, <1>3, <1>4, ZenonT(30) DEF LimitInv

(* The periods in a stretch, counted with the refresh period a worker      *)
(* loaded, are no more than those counted with the shortest one.           *)
LEMMA Periods ==
  ASSUME NEW d \in Nat, NEW r \in Nat \ {0}, NEW p \in Nat \ {0}, p <= r
  PROVE  d \div r \in Nat /\ (d \div r) * p <= d
<1>1. PICK n \in Nat : n = d \div r
  BY SMT
<1>2. r * n <= d
  <2>1. d % r = d - r * (d \div r) /\ d % r >= 0
    BY SMTT(60)
  <2>2. d % r = d - r * n /\ d % r \in Int /\ r * n \in Int
    BY <1>1, <2>1
  <2> QED BY <2>1, <2>2
<1>3. n * p <= n * r /\ n * p \in Nat /\ n * r \in Nat
  BY Product, ZenonT(30)
<1>4. n * p <= d
  BY <1>2, <1>3
<1> QED BY <1>1, <1>4, ZenonT(30)

(* And no number of periods fits into d that d \div p does not count.      *)
LEMMA Fits ==
  ASSUME NEW d \in Nat, NEW p \in Nat \ {0}, NEW q \in Nat, q * p <= d
  PROVE  q <= d \div p /\ d \div p \in Nat
<1>1. PICK n \in Nat : n = d \div p
  BY SMT
<1>2. d < p * n + p
  <2>1. d % p = d - p * (d \div p) /\ d % p < p
    BY SMTT(60)
  <2>2. d % p = d - p * n /\ d % p \in Int /\ p * n \in Int
    BY <1>1, <2>1
  <2> QED BY <2>1, <2>2
<1>3. PICK k \in Int : k = q - n
  OBVIOUS
<1>4. p * k < p
  BY <1>2, <1>3
<1>5. ~(k >= 1)
  BY <1>4, Multiple
<1> QED BY <1>1, <1>3, <1>5

(* The worker whose swap of lastUpdate succeeds holds the stretch from the *)
(* value it read to its clock, which nobody had.                           *)
LEMMA SwapKeeps ==
  ASSUME LimitInv, NEW w \in Workers, SwapLast(w), bucket[lim[w].id].last = lim[w].last, now' = now
  PROVE  LimitInv'
<1>0. PICK l \in Call : l = lim[w]
  BY ZenonT(30) DEF LimitInv, Tables
<1>1. PICK i : i = lim[w].id /\ l = lim[w]
  BY <1>0, ZenonT(30)
<1>2. /\ l.at = "swap" /\ i \in DOMAIN bucket /\ l.clock <= now /\ l.refresh \in Refreshes
      /\ l.clock - l.last > l.refresh /\ bucket[i].last = l.last /\ l.id = i
  BY <1>1, ZenonT(30) DEF LimitInv, CallOK, SwapLast, At
<1>3. Tables /\ BucketOK(i) /\ Refreshes \subseteq Nat \ {0}
  BY <1>2, LimiterAssumption, ZenonT(30) DEF LimitInv, Refreshes
<1>4. PICK b \in BucketRecord : b = bucket[i]
  BY <1>3, ZenonT(30) DEF BucketOK
<1>5. /\ l.clock \in Nat /\ l.last \in Nat /\ l.refresh \in Nat \ {0} /\ now \in Nat
      /\ b.born \in Nat /\ b.last \in Nat /\ b.max \in Nat /\ b.peak \in Nat
      /\ b.max <= b.peak /\ b.born <= b.last /\ b.last <= now /\ b.last = l.last
  BY <1>2, <1>3, <1>4, ZenonT(30) DEF Call, BucketRecord, BucketOK, Tables
<1>6. PICK d \in Nat : d = l.clock - l.last
  BY <1>2, <1>5
<1>7. PICK n \in Nat : n = d \div l.refresh
  BY <1>5, <1>6, Periods
<1>8. PICK a \in Nat : a = n * b.max
  BY <1>5, Product, ZenonT(30)
<1>9. /\ bucket' = [bucket EXCEPT ![i] = [b EXCEPT !.last = l.clock]]
      /\ lim' = [lim EXCEPT ![w] = [[l EXCEPT !.at = "burst"] EXCEPT !.add = a]]
      /\ UNCHANGED <<setting, slot, whole, tune>>
  BY <1>1, <1>4, <1>6, <1>7, <1>8, ZenonT(30) DEF SwapLast, Mine
<1>10. PICK c \in BucketRecord, k \in Call : c = [b EXCEPT !.last = l.clock]
                                             /\ k = [[l EXCEPT !.at = "burst"] EXCEPT !.add = a]
  BY <1>5, ZenonT(30) DEF BucketRecord, Call, Spots
<1>11. /\ c.last = l.clock /\ c.born = b.born /\ c.peak = b.peak /\ c.max = b.max /\ c.tokens = b.tokens
       /\ c.granted = b.granted /\ k.at = "burst" /\ k.add = a /\ k.id = i /\ k.clock = l.clock /\ k.last = l.last
  BY <1>2, <1>10, ZenonT(30) DEF BucketRecord, Call
<1>12. /\ lim \in [Workers -> Call] /\ lim' \in [Workers -> Call] /\ lim'[w] = k
       /\ \A v \in Workers : v # w => lim'[v] = lim[v]
  BY <1>3, <1>9, <1>10, ZenonT(30) DEF Tables
<1>13. /\ DOMAIN bucket' = DOMAIN bucket /\ bucket'[i] = c
       /\ \A j \in DOMAIN bucket : j # i => bucket'[j] = bucket[j]
       /\ bucket' = [j \in DOMAIN bucket |-> bucket'[j]]
  BY <1>2, <1>3, <1>9, <1>10, ZenonT(40) DEF Tables
<1>14. Tables'
  BY <1>3, <1>9, <1>12, <1>13, ZenonT(30) DEF Tables
<1>15. ASSUME NEW j \in DOMAIN bucket' PROVE BucketOK(j)'
  <2>1. CASE j = i
    BY <1>2, <1>5, <1>11, <1>13, <2>1 DEF BucketOK
  <2>2. CASE j # i
    BY <1>13, <2>2, ZenonT(30) DEF BucketOK, LimitInv
  <2> QED BY <2>1, <2>2, ZenonT(30)
<1>16. ~Pending(w) /\ Pending(w)' /\ \A v \in Workers : v # w => SameHold(v)
  BY <1>1, <1>2, <1>11, <1>12, ZenonT(30) DEF Pending, SameHold
<1>17. CallOK(w)' /\ Covered(w)'
  <2>1. CallOK(w)'
    BY <1>2, <1>11, <1>12, <1>13, ZenonT(30) DEF CallOK
  <2>2. ASSUME NEW p, Shortest(p)
        PROVE  \E m \in Nat : a <= m * b.peak /\ m * p <= l.clock - l.last
    <3>1. p \in Nat \ {0} /\ p <= l.refresh
      BY <1>2, <2>2, ZenonT(30) DEF Shortest
    <3>2. (d \div l.refresh) * p <= d
      BY <1>5, <3>1, Periods, SMTT(40)
    <3>3. n * p <= l.clock - l.last
      BY <1>6, <1>7, <3>2, ZenonT(30)
    <3>4. a <= n * b.peak
      BY <1>5, <1>8, Product, ZenonT(30)
    <3> QED BY <3>3, <3>4, ZenonT(30)
  <2>3. l.last < l.clock /\ c.born <= l.last /\ l.clock <= c.last
    BY <1>2, <1>5, <1>11
  <2> QED BY <1>11, <1>12, <1>13, <2>1, <2>2, <2>3, ZenonT(30) DEF Covered
<1>18. ASSUME NEW v \in Workers, v # w PROVE CallOK(v)' /\ Covered(v)'
  <2>1. CallOK(v) /\ Covered(v) /\ SameHold(v) /\ lim'[v] = lim[v] /\ lim[v] \in Call
    BY <1>12, <1>16, <1>18, ZenonT(30) DEF LimitInv
  <2>2. CallOK(v)'
    BY <1>13, <2>1, ZenonT(30) DEF CallOK
  <2>3. ASSUME Pending(v)
        PROVE  /\ BucketOK(lim[v].id) /\ bucket'[lim[v].id] \in BucketRecord
               /\ bucket'[lim[v].id].born = bucket[lim[v].id].born
               /\ bucket[lim[v].id].last <= bucket'[lim[v].id].last
               /\ bucket[lim[v].id].peak <= bucket'[lim[v].id].peak
    <3>1. PICK j \in DOMAIN bucket : j = lim[v].id
      BY <2>1, <2>3, ZenonT(30) DEF CallOK, Pending
    <3>2. BucketOK(j)
      BY ZenonT(30) DEF LimitInv
    <3>3. /\ bucket'[j] \in BucketRecord /\ bucket'[j].born = bucket[j].born
          /\ bucket[j].last <= bucket'[j].last /\ bucket[j].peak <= bucket'[j].peak
      <4>1. CASE j = i
        BY <1>2, <1>4, <1>5, <1>11, <1>13, <4>1
      <4>2. CASE j # i
        BY <1>13, <3>2, <4>2 DEF BucketOK, BucketRecord
      <4> QED BY <4>1, <4>2, ZenonT(30)
    <3> QED BY <3>1, <3>2, <3>3, ZenonT(30)
  <2> QED BY <2>1, <2>2, <2>3, StaysCovered, ZenonT(30)
<1>19. ASSUME NEW v \in Workers, v # w, Pending(v), lim[v].id = i PROVE lim[v].clock <= l.last
  BY <1>2, <1>19, ZenonT(30) DEF LimitInv, Covered
<1>20. ASSUME NEW u \in Workers, NEW v \in Workers, u # v PROVE Apart(u, v)'
  <2>1. CASE u # w /\ v # w
    BY <1>12, <1>20, <2>1, ZenonT(30) DEF LimitInv, Apart, Pending
  <2>2. CASE u = w
    BY <1>11, <1>12, <1>16, <1>19, <1>20, <2>2, ZenonT(30) DEF Apart, SameHold
  <2>3. CASE v = w
    BY <1>11, <1>12, <1>16, <1>19, <1>20, <2>3, ZenonT(30) DEF Apart, SameHold
  <2> QED BY <2>1, <2>2, <2>3, ZenonT(30)
<1>21. ASSUME NEW id \in DOMAIN bucket', NEW p, Shortest(p) PROVE Paid(id, p)'
  <2>1. id \in DOMAIN bucket /\ Paid(id, p) /\ BucketOK(id) /\ BucketOK(id)'
    BY <1>13, <1>15, <1>21, ZenonT(30) DEF LimitInv
  <2>2. Settled(id)' = Settled(id)
    <3>1. CASE id # i
      <4>1. bucket'[id] = bucket[id]
        BY <1>13, <2>1, <3>1, ZenonT(30)
      <4>2. \A v \in Workers : (Pending(v) /\ lim[v].id = id) <=> (Pending(v)' /\ lim'[v].id = id)
        BY <1>11, <1>12, <1>16, <3>1, ZenonT(30) DEF Pending
      <4>3. \A v \in Workers : Pending(v) => lim'[v].last = lim[v].last /\ lim'[v].clock = lim[v].clock
        BY <1>16, ZenonT(30) DEF SameHold
      <4> QED BY <4>1, <4>2, <4>3, ZenonT(30) DEF Settled
    <3>2. CASE id = i
      <4>1. ASSUME NEW t PROVE t \in Settled(id)' <=> t \in Settled(id)
        <5>1. t \in Settled(id)' <=>
                /\ t \in b.born..(l.clock - 1) /\ (t < l.last \/ t >= l.clock)
                /\ \A v \in Workers : v # w /\ Pending(v) /\ lim[v].id = i => t < lim[v].last \/ t >= lim[v].clock
          BY <1>11, <1>12, <1>13, <1>16, <3>2 DEF Settled, SameHold
        <5>2. t \in Settled(id) <=>
                /\ t \in b.born..(b.last - 1)
                /\ \A v \in Workers : v # w /\ Pending(v) /\ lim[v].id = i => t < lim[v].last \/ t >= lim[v].clock
          BY <1>4, <1>16, <3>2, ZenonT(30) DEF Settled
        <5>3. t \in b.born..(l.clock - 1) /\ (t < l.last \/ t >= l.clock) <=> t \in b.born..(b.last - 1)
          BY <1>2, <1>5
        <5> QED BY <5>1, <5>2, <5>3, ZenonT(30)
      <4> QED BY <4>1, ZenonT(30) DEF Settled
    <3> QED BY <3>1, <3>2, ZenonT(30)
  <2>3. bucket'[id].peak = bucket[id].peak /\ bucket'[id].tokens = bucket[id].tokens
        /\ bucket'[id].granted = bucket[id].granted /\ bucket[id] \in BucketRecord /\ bucket'[id] \in BucketRecord
    BY <1>4, <1>11, <1>13, <2>1, ZenonT(30) DEF BucketOK
  <2>4. bucket[id].peak <= bucket'[id].peak
        /\ bucket'[id].tokens + bucket'[id].granted <= bucket[id].tokens + bucket[id].granted
    BY <2>3 DEF BucketRecord
  <2> QED BY <2>1, <2>2, <2>3, <2>4, StaysPaid, ZenonT(30)
<1> QED BY <1>14, <1>15, <1>17, <1>18, <1>20, <1>21, ZenonT(30) DEF LimitInv

(* The refill settles the stretch that the worker held.                    *)
LEMMA RefillKeeps ==
  ASSUME LimitInv, NEW w \in Workers, AddRefill(w), now' = now
  PROVE  LimitInv'
<1>0. PICK l \in Call : l = lim[w]
  BY ZenonT(30) DEF LimitInv, Tables
<1>1. PICK i : i = lim[w].id
  BY ZenonT(30)
<1>2. l.at = "add" /\ i \in DOMAIN bucket /\ l.id = i /\ Pending(w)
  BY <1>0, <1>1, ZenonT(30) DEF LimitInv, CallOK, AddRefill, At, Pending
<1>3. Tables /\ BucketOK(i)
  BY <1>2, ZenonT(30) DEF LimitInv
<1>4. PICK b \in BucketRecord : b = bucket[i]
  BY <1>3, ZenonT(30) DEF BucketOK
<1>5. /\ l.clock \in Nat /\ l.last \in Nat /\ l.add \in Nat /\ l.burst \in Nat /\ now \in Nat
      /\ b.born \in Nat /\ b.last \in Nat /\ b.max \in Nat /\ b.peak \in Nat /\ b.tokens \in Nat /\ b.granted \in Nat
      /\ b.max <= b.peak /\ b.born <= b.last /\ b.last <= now
  BY <1>3, <1>4, ZenonT(30) DEF Call, BucketRecord, BucketOK, Tables
<1>6. PICK x \in Nat : x = MinOf(b.tokens + l.add, l.burst) /\ x <= b.tokens + l.add
  BY <1>5 DEF MinOf
<1>7. PICK c \in BucketRecord, k \in Call : c = [b EXCEPT !.tokens = x] /\ k = [l EXCEPT !.at = "take"]
  BY ZenonT(30) DEF BucketRecord, Call, Spots
<1>8. /\ bucket' = [bucket EXCEPT ![i] = c] /\ lim' = [lim EXCEPT ![w] = k]
      /\ UNCHANGED <<setting, slot, whole, tune>>
  BY <1>0, <1>1, <1>4, <1>6, <1>7, ZenonT(30) DEF AddRefill
<1>9. /\ c.last = b.last /\ c.born = b.born /\ c.peak = b.peak /\ c.max = b.max /\ c.tokens = x
      /\ c.granted = b.granted /\ k.at = "take" /\ k.id = i
  BY <1>2, <1>7, ZenonT(30) DEF BucketRecord, Call
<1>10. /\ lim \in [Workers -> Call] /\ lim' \in [Workers -> Call] /\ lim'[w] = k
       /\ \A v \in Workers : v # w => lim'[v] = lim[v]
  BY <1>3, <1>8, ZenonT(30) DEF Tables
<1>11. /\ DOMAIN bucket' = DOMAIN bucket /\ bucket'[i] = c
       /\ \A j \in DOMAIN bucket : j # i => bucket'[j] = bucket[j]
       /\ bucket' = [j \in DOMAIN bucket |-> bucket'[j]]
  BY <1>2, <1>3, <1>8, ZenonT(40) DEF Tables
<1>12. Tables'
  BY <1>3, <1>8, <1>10, <1>11, ZenonT(30) DEF Tables
<1>13. ASSUME NEW j \in DOMAIN bucket' PROVE BucketOK(j)'
  <2>1. CASE j = i
    BY <1>5, <1>9, <1>11, <2>1, ZenonT(30) DEF BucketOK
  <2>2. CASE j # i
    BY <1>11, <2>2, ZenonT(30) DEF BucketOK, LimitInv
  <2> QED BY <2>1, <2>2, ZenonT(30)
<1>14. ~Pending(w)' /\ \A v \in Workers : v # w => SameHold(v)
  BY <1>9, <1>10, ZenonT(30) DEF Pending, SameHold
<1>15. CallOK(w)' /\ Covered(w)'
  BY <1>2, <1>9, <1>10, <1>11, <1>14, ZenonT(30) DEF CallOK, Covered
<1>16. ASSUME NEW v \in Workers, v # w PROVE CallOK(v)' /\ Covered(v)'
  <2>1. CallOK(v) /\ Covered(v) /\ SameHold(v) /\ lim'[v] = lim[v] /\ lim[v] \in Call
    BY <1>10, <1>14, <1>16, ZenonT(30) DEF LimitInv
  <2>2. CallOK(v)'
    BY <1>11, <2>1, ZenonT(30) DEF CallOK
  <2>3. ASSUME Pending(v)
        PROVE  /\ BucketOK(lim[v].id) /\ bucket'[lim[v].id] \in BucketRecord
               /\ bucket'[lim[v].id].born = bucket[lim[v].id].born
               /\ bucket[lim[v].id].last <= bucket'[lim[v].id].last
               /\ bucket[lim[v].id].peak <= bucket'[lim[v].id].peak
    <3>1. PICK j \in DOMAIN bucket : j = lim[v].id
      BY <2>1, <2>3, ZenonT(30) DEF CallOK, Pending
    <3>2. BucketOK(j)
      BY ZenonT(30) DEF LimitInv
    <3>3. /\ bucket'[j] \in BucketRecord /\ bucket'[j].born = bucket[j].born
          /\ bucket[j].last <= bucket'[j].last /\ bucket[j].peak <= bucket'[j].peak
      <4>1. CASE j = i
        BY <1>4, <1>5, <1>9, <1>11, <4>1
      <4>2. CASE j # i
        BY <1>11, <3>2, <4>2 DEF BucketOK, BucketRecord
      <4> QED BY <4>1, <4>2, ZenonT(30)
    <3> QED BY <3>1, <3>2, <3>3, ZenonT(30)
  <2> QED BY <2>1, <2>2, <2>3, StaysCovered, ZenonT(30)
<1>17. ASSUME NEW u \in Workers, NEW v \in Workers, u # v PROVE Apart(u, v)'
  <2>1. CASE u # w /\ v # w
    BY <1>10, <1>17, <2>1, ZenonT(30) DEF LimitInv, Apart, Pending
  <2>2. CASE u = w \/ v = w
    BY <1>14, <2>2, ZenonT(30) DEF Apart
  <2> QED BY <2>1, <2>2, ZenonT(30)
<1>18. ASSUME NEW id \in DOMAIN bucket, id # i, NEW p, Shortest(p) PROVE Paid(id, p)'
  <2>1. Paid(id, p) /\ BucketOK(id) /\ bucket'[id] = bucket[id]
    BY <1>11, <1>18, ZenonT(30) DEF LimitInv
  <2>2. Settled(id)' = Settled(id)
    <3>1. \A v \in Workers : (Pending(v) /\ lim[v].id = id) <=> (Pending(v)' /\ lim'[v].id = id)
      BY <1>1, <1>10, <1>14, <1>18, ZenonT(30) DEF Pending
    <3>2. \A v \in Workers : Pending(v)' => lim'[v].last = lim[v].last /\ lim'[v].clock = lim[v].clock
      BY <1>14, ZenonT(30) DEF SameHold
    <3> QED BY <2>1, <3>1, <3>2, ZenonT(30) DEF Settled
  <2>3. bucket[id].peak <= bucket'[id].peak
        /\ bucket'[id].tokens + bucket'[id].granted <= bucket[id].tokens + bucket[id].granted
    BY <2>1 DEF BucketOK, BucketRecord
  <2> QED BY <2>1, <2>2, <2>3, StaysPaid, ZenonT(30) DEF BucketOK
<1>19. ASSUME NEW p, Shortest(p) PROVE Paid(i, p)'
  <2>1. PICK q \in Nat : b.tokens + b.granted <= b.peak * (1 + q) /\ q * p <= Cardinality(Settled(i))
    BY <1>2, <1>4, <1>19, ZenonT(30) DEF LimitInv, Paid
  <2>2. /\ l.last < l.clock /\ b.born <= l.last /\ l.clock <= b.last
        /\ \E n \in Nat : l.add <= n * b.peak /\ n * p <= l.clock - l.last
    BY <1>0, <1>1, <1>2, <1>4, <1>19, ZenonT(30) DEF LimitInv, Covered
  <2>3. PICK n \in Nat : l.add <= n * b.peak /\ n * p <= l.clock - l.last
    BY <2>2, ZenonT(30)
  <2> DEFINE H == l.last..(l.clock - 1)
  <2>4. Settled(i)' = Settled(i) \cup H /\ Settled(i) \cap H = {}
    <3>1. ASSUME NEW t \in Settled(i) PROVE t \notin H
      BY <1>0, <1>1, <1>2, <1>5, <3>1 DEF Settled
    <3>2. ASSUME NEW t \in Settled(i) PROVE t \in Settled(i)'
      BY <1>4, <1>9, <1>10, <1>11, <1>14 DEF Settled, SameHold
    <3>3. ASSUME NEW t \in H PROVE t \in Settled(i)'
      <4>1. t \in c.born..(c.last - 1) /\ t \in Nat /\ l.last <= t /\ t < l.clock
        BY <1>5, <1>9, <2>2
      <4>2. ASSUME NEW v \in Workers, Pending(v)', lim'[v].id = i PROVE t < lim'[v].last \/ t >= lim'[v].clock
        <5>1. v # w /\ Pending(v) /\ lim[v].id = i /\ lim'[v] = lim[v] /\ lim[v].last \in Nat /\ lim[v].clock \in Nat
          BY <1>10, <1>14, <4>2, SMTT(40) DEF Pending, Call
        <5>2. lim[v].clock <= l.last \/ l.clock <= lim[v].last
          BY <1>0, <1>1, <1>2, <5>1, ZenonT(30) DEF LimitInv, Apart
        <5> QED BY <1>5, <4>1, <5>1, <5>2
      <4> QED BY <1>11, <4>1, <4>2, ZenonT(30) DEF Settled
    <3>4. ASSUME NEW t \in Settled(i)', t \notin H PROVE t \in Settled(i)
      <4>1. t \in b.born..(b.last - 1) /\ (t < l.last \/ t >= l.clock)
        BY <1>5, <1>9, <1>11, <3>4 DEF Settled
      <4>2. ASSUME NEW v \in Workers, Pending(v), lim[v].id = i PROVE t < lim[v].last \/ t >= lim[v].clock
        <5>1. CASE v = w
          BY <1>0, <4>1, <5>1, ZenonT(30)
        <5>2. CASE v # w
          BY <1>10, <1>14, <4>2, <5>2, ZenonT(30) DEF Settled, SameHold
        <5> QED BY <5>1, <5>2, ZenonT(30)
      <4> QED BY <1>4, <4>1, <4>2, ZenonT(30) DEF Settled
    <3> HIDE DEF H
    <3> QED BY <3>1, <3>2, <3>3, <3>4, ZenonT(30)
  <2>5. IsFiniteSet(Settled(i)) /\ Cardinality(Settled(i)) \in Nat
    <3>1. Settled(i) \in SUBSET (b.born..(b.last - 1))
      BY <1>4, ZenonT(30) DEF Settled
    <3> QED BY <1>5, <3>1, SettledFinite, ZenonT(30)
  <2>6. IsFiniteSet(H) /\ Cardinality(H) = l.clock - l.last
    <3>1. PICK y \in Int, z \in Int : y = l.last /\ z = l.clock - 1
      BY <1>5
    <3>2. H = y..z /\ y <= z /\ z - y + 1 = l.clock - l.last
      BY <1>5, <2>2, <3>1
    <3>3. IsFiniteSet(y..z) /\ Cardinality(y..z) = IF y > z THEN 0 ELSE z - y + 1
      BY FS_Interval, ZenonT(30)
    <3>4. Cardinality(y..z) = z - y + 1
      BY <3>2, <3>3
    <3> HIDE DEF H
    <3> QED BY <3>2, <3>3, <3>4, ZenonT(30)
  <2> HIDE DEF H
  <2>7. Cardinality(Settled(i)') = Cardinality(Settled(i)) + (l.clock - l.last)
    <3>1. PICK S : S = Settled(i)
      BY ZenonT(30)
    <3>2. Cardinality(S \cup H) = Cardinality(S) + Cardinality(H) - Cardinality(S \cap H)
      BY <2>5, <2>6, <3>1, FS_Union, ZenonT(30)
    <3>3. Cardinality(S \cap H) = 0 /\ Settled(i)' = S \cup H
      BY <2>4, <3>1, FS_EmptySet, ZenonT(30)
    <3>4. Cardinality(S \cup H) = Cardinality(S) + (l.clock - l.last)
      BY <1>5, <2>5, <2>6, <3>1, <3>2, <3>3
    <3> QED BY <3>1, <3>3, <3>4, ZenonT(30)
  <2>8. PICK m \in Nat : m = q + n
    OBVIOUS
  <2>9. m * p <= Cardinality(Settled(i)')
    <3>1. p \in Nat
      BY <1>19, ZenonT(30) DEF Shortest
    <3>2. m * p = q * p + n * p /\ q * p \in Nat /\ n * p \in Nat
      BY <2>8, <3>1
    <3> QED BY <1>5, <2>1, <2>3, <2>5, <2>7, <3>2
  <2>10. x + b.granted <= b.peak * (1 + m)
    <3>1. b.peak * (1 + m) = b.peak * (1 + q) + n * b.peak /\ b.peak * (1 + q) \in Nat /\ n * b.peak \in Nat
      BY <1>5, <2>8
    <3> QED BY <1>5, <1>6, <2>1, <2>3, <3>1
  <2> QED BY <1>9, <1>11, <2>9, <2>10, ZenonT(30) DEF Paid
<1>20. \A id \in DOMAIN bucket' : \A p : Shortest(p) => Paid(id, p)'
  BY <1>11, <1>18, <1>19, ZenonT(30)
<1> QED BY <1>12, <1>13, <1>15, <1>16, <1>17, <1>20, ZenonT(30) DEF LimitInv

(* A record that a step of a call leaves in place of another one.          *)
LEMMA CallMoves ==
  ASSUME LimitInv, NEW w \in Workers, NEW k \in Call, lim' = [lim EXCEPT ![w] = k],
         k.at \notin {"burst", "add"}, ~Pending(w), UNCHANGED <<now, setting, tune>>, CallOK(w)',
         DOMAIN bucket \subseteq DOMAIN bucket', DOMAIN bucket' \subseteq BucketIds,
         bucket' = [i \in DOMAIN bucket' |-> bucket'[i]],
         slot' \in [Keys -> DOMAIN bucket' \cup {None}], whole' = whole,
         \A id \in DOMAIN bucket : SameTime(id),
         \A id \in DOMAIN bucket' \ DOMAIN bucket :
           BucketOK(id)' /\ bucket'[id].tokens <= bucket'[id].peak /\ bucket'[id].granted = 0
  PROVE  LimitInv'
<1>1. lim \in [Workers -> Call] /\ Tables
  BY ZenonT(30) DEF LimitInv, Tables
<1>2. lim' \in [Workers -> Call] /\ lim'[w] = k /\ \A v \in Workers : v # w => lim'[v] = lim[v]
  BY <1>1, ZenonT(30)
<1>3. Tables'
  BY <1>1, <1>2, ZenonT(30) DEF Tables
<1>4. ASSUME NEW v \in Workers PROVE CallOK(v)' /\ SameHold(v)
  <2>1. CASE v = w
    BY <1>2, <2>1, ZenonT(30) DEF SameHold, Pending
  <2>2. CASE v # w
    <3>1. CallOK(v) /\ lim'[v] = lim[v]
      BY <1>2, <2>2, ZenonT(30) DEF LimitInv
    <3> QED BY <3>1, ZenonT(30) DEF CallOK, SameHold, Pending
  <2> QED BY <2>1, <2>2, ZenonT(30)
<1> QED BY <1>3, <1>4, NoRefill, ZenonT(30)

(* A call that touches no bucket.                                          *)
LEMMA CallReads ==
  ASSUME LimitInv, NEW w \in Workers, NEW k \in Call, lim' = [lim EXCEPT ![w] = k],
         k.at \notin {"burst", "add"}, ~Pending(w), UNCHANGED <<now, setting, bucket, slot, whole, tune>>,
         CallOK(w)'
  PROVE  LimitInv'
<1>1. Tables
  BY ZenonT(30) DEF LimitInv
<1>2. ASSUME NEW id \in DOMAIN bucket PROVE SameTime(id)
  <2>1. BucketOK(id) /\ now \in Nat /\ now <= now'
    BY <1>1 DEF LimitInv, Tables
  <2> QED BY <2>1, SameBucket, ZenonT(30)
<1>3. /\ DOMAIN bucket \subseteq DOMAIN bucket' /\ DOMAIN bucket' \subseteq BucketIds
      /\ bucket' = [i \in DOMAIN bucket' |-> bucket'[i]]
      /\ slot' \in [Keys -> DOMAIN bucket' \cup {None}] /\ whole' = whole /\ DOMAIN bucket' \ DOMAIN bucket = {}
  BY <1>1 DEF Tables
<1> QED BY <1>2, <1>3, CallMoves, ZenonT(30)

(* The records that a call starts and ends with.                           *)
LEMMA Records ==
  ASSUME Tables
  PROVE  /\ Resting \in Call /\ Resting.at = "rest"
         /\ [Resting EXCEPT !.ok = FALSE] \in Call /\ [Resting EXCEPT !.ok = FALSE].at = "rest"
         /\ \A i \in BucketIds :
              LET k == [Resting EXCEPT !.at = "clock", !.id = i]
              IN  k \in Call /\ k.at = "clock" /\ k.id = i
         /\ \A k \in Keys : /\ DimConfig(k) \in Call /\ DimConfig(k).at = "create" /\ DimConfig(k).key = k
                            /\ DimConfig(k).refresh \in Refreshes
<1>1. Resting \in Call /\ Resting.at = "rest"
  BY ZenonT(30) DEF Resting, Call, Spots
<1>2. [Resting EXCEPT !.ok = FALSE] \in Call /\ [Resting EXCEPT !.ok = FALSE].at = "rest"
  BY ZenonT(30) DEF Resting, Call, Spots
<1>3. ASSUME NEW i \in BucketIds
      PROVE  LET k == [Resting EXCEPT !.at = "clock", !.id = i]
             IN  k \in Call /\ k.at = "clock" /\ k.id = i
  BY ZenonT(30) DEF Resting, Call, Spots
<1>4. ASSUME NEW k \in Keys
      PROVE  /\ DimConfig(k) \in Call /\ DimConfig(k).at = "create" /\ DimConfig(k).key = k
             /\ DimConfig(k).refresh \in Refreshes
  <2>1. PICK n \in Nat : n = DimRate(setting, k)
    BY DEF Tables, DimRate
  <2>2. PICK r \in Nat : r = setting.refresh /\ r \in Refreshes
    BY LimiterAssumption DEF Tables, Refreshes
  <2>3. DimConfig(k) = [Resting EXCEPT !.at = "create", !.key = k, !.rate = n, !.refresh = r]
    BY <2>1, <2>2, ZenonT(30) DEF DimConfig
  <2>4. PICK c : c = [Resting EXCEPT !.at = "create", !.key = k, !.rate = n, !.refresh = r]
    BY ZenonT(30)
  <2>5. c \in Call /\ c.at = "create" /\ c.key = k /\ c.refresh = r
    BY <2>4, ZenonT(30) DEF Resting, Call, Spots
  <2> QED BY <2>2, <2>3, <2>4, <2>5, ZenonT(30)
<1> QED BY <1>1, <1>2, <1>3, <1>4, ZenonT(30)

(* Entering tryConsume, with a bucket or to create one.                    *)
LEMMA EntryKeeps ==
  ASSUME LimitInv, NEW w \in Workers, now' = now,
         AllowGlobal(w) \/ \E k \in Keys : Allow(w, k)
  PROVE  LimitInv'
<1>1. Tables /\ ~Pending(w)
  BY ZenonT(30) DEF LimitInv, AllowGlobal, Allow, At, Pending
<1>2. ASSUME NEW i \in DOMAIN bucket, lim' = [lim EXCEPT ![w] = [Resting EXCEPT !.at = "clock", !.id = i]],
             UNCHANGED <<setting, bucket, slot, whole, tune>>
      PROVE  LimitInv'
  <2>1. PICK k \in Call : k = [Resting EXCEPT !.at = "clock", !.id = i] /\ k.at = "clock" /\ k.id = i
    <3>1. i \in BucketIds
      BY <1>1, ZenonT(30) DEF Tables
    <3> QED BY <1>1, <3>1, Records, ZenonT(40)
  <2>2. lim' = [lim EXCEPT ![w] = k] /\ lim'[w] = k
    BY <1>1, <1>2, <2>1, ZenonT(30) DEF Tables
  <2>3. CallOK(w)'
    BY <1>2, <2>1, <2>2, ZenonT(30) DEF CallOK
  <2> QED BY <1>1, <1>2, <2>1, <2>2, <2>3, CallReads, ZenonT(30)
<1>3. CASE AllowGlobal(w)
  BY <1>1, <1>2, <1>3, ZenonT(30) DEF AllowGlobal, Tables
<1>4. ASSUME NEW k \in Keys, Allow(w, k) PROVE LimitInv'
  <2>1. CASE slot[k] # None
    BY <1>1, <1>2, <1>4, <2>1, ZenonT(30) DEF Allow, Tables
  <2>2. CASE slot[k] = None
    <3>1. PICK c \in Call : c = DimConfig(k) /\ c.at = "create" /\ c.key = k /\ c.refresh \in Refreshes
      BY <1>1, Records, ZenonT(30)
    <3>2. lim' = [lim EXCEPT ![w] = c] /\ lim'[w] = c /\ UNCHANGED <<setting, bucket, slot, whole, tune>>
      BY <1>1, <1>4, <2>2, <3>1, ZenonT(30) DEF Allow, Tables
    <3>3. CallOK(w)'
      BY <3>1, <3>2, ZenonT(30) DEF CallOK
    <3> QED BY <1>1, <3>1, <3>2, <3>3, CallReads, ZenonT(30)
  <2> QED BY <2>1, <2>2, ZenonT(30)
<1> QED BY <1>3, <1>4, ZenonT(30)

(* A new bucket is full, and nobody holds any of its time.                 *)
LEMMA Allocation ==
  ASSUME LimitInv, now' = now, NEW rate \in Nat, NEW refresh \in Refreshes, Allocate(rate, refresh)
  PROVE  /\ Fresh \in BucketIds \ DOMAIN bucket /\ DOMAIN bucket' = DOMAIN bucket \cup {Fresh}
         /\ bucket' = [i \in DOMAIN bucket' |-> bucket'[i]]
         /\ \A id \in DOMAIN bucket : SameTime(id)
         /\ \A id \in DOMAIN bucket' \ DOMAIN bucket :
              BucketOK(id)' /\ bucket'[id].tokens <= bucket'[id].peak /\ bucket'[id].granted = 0
<1>1. PICK f \in BucketIds \ DOMAIN bucket : f = Fresh
  BY ZenonT(30) DEF Allocate, Unused, Fresh
<1>2. PICK b : b = NewTokenBucket(rate, refresh)
  BY ZenonT(30)
<1>3. bucket' = [i \in DOMAIN bucket \cup {f} |-> IF i = f THEN b ELSE bucket[i]]
  BY <1>1, <1>2, ZenonT(30) DEF Allocate
<1>4. now \in Nat
  BY ZenonT(30) DEF LimitInv, Tables
<1>5. /\ b \in BucketRecord /\ b.max <= b.peak /\ b.born <= b.last /\ b.last <= now /\ b.tokens <= b.peak
      /\ b.granted = 0
  BY <1>2, <1>4 DEF NewTokenBucket, BucketRecord
<1>6. ASSUME NEW id \in DOMAIN bucket PROVE SameTime(id)
  <2>1. BucketOK(id) /\ bucket'[id] = bucket[id] /\ now <= now'
    BY <1>1, <1>3, <1>4 DEF LimitInv
  <2> QED BY <1>4, <2>1, SameBucket, ZenonT(30)
<1>7. DOMAIN bucket' = DOMAIN bucket \cup {f} /\ bucket'[f] = b
  BY <1>3, ZenonT(30)
<1>8. BucketOK(f)'
  BY <1>5, <1>7, ZenonT(30) DEF BucketOK
<1> QED BY <1>1, <1>3, <1>5, <1>6, <1>7, <1>8, ZenonT(30)

(* The write path of Allow.                                                *)
LEMMA CreateKeeps ==
  ASSUME LimitInv, NEW w \in Workers, CreateBucket(w), now' = now
  PROVE  LimitInv'
<1>1. Tables /\ ~Pending(w) /\ lim[w] \in Call /\ CallOK(w) /\ lim[w].at = "create"
  BY ZenonT(30) DEF LimitInv, CreateBucket, At, Pending, Tables
<1>2. PICK k \in Keys : k = lim[w].key
  BY <1>1, ZenonT(30) DEF CallOK
<1>3. CASE slot[k] # None
  <2>1. PICK i \in DOMAIN bucket : i = slot[k]
    BY <1>1, <1>3, ZenonT(30) DEF Tables
  <2>2. PICK c \in Call : c = [Resting EXCEPT !.at = "clock", !.id = i] /\ c.at = "clock" /\ c.id = i
    <3>1. i \in BucketIds
      BY <1>1, ZenonT(30) DEF Tables
    <3> QED BY <1>1, <3>1, Records, ZenonT(40)
  <2>3. lim' = [lim EXCEPT ![w] = c] /\ lim'[w] = c /\ UNCHANGED <<setting, bucket, slot, whole, tune>>
    BY <1>1, <1>2, <1>3, <2>1, <2>2, ZenonT(30) DEF CreateBucket, Tables
  <2>4. CallOK(w)'
    BY <2>2, <2>3, ZenonT(30) DEF CallOK
  <2> QED BY <1>1, <2>2, <2>3, <2>4, CallReads, ZenonT(30)
<1>4. CASE slot[k] = None /\ DimFull(k)
  <2>1. PICK c \in Call : c = [Resting EXCEPT !.ok = FALSE] /\ c.at = "rest"
    BY <1>1, Records, ZenonT(30)
  <2>2. lim' = [lim EXCEPT ![w] = c] /\ lim'[w] = c /\ UNCHANGED <<setting, bucket, slot, whole, tune>>
    BY <1>1, <1>2, <1>4, <2>1, ZenonT(30) DEF CreateBucket, Tables
  <2>3. CallOK(w)'
    BY <2>1, <2>2, ZenonT(30) DEF CallOK
  <2> QED BY <1>1, <2>1, <2>2, <2>3, CallReads, ZenonT(30)
<1>5. CASE slot[k] = None /\ ~DimFull(k)
  <2>1. lim[w].rate \in Nat /\ lim[w].refresh \in Refreshes
    BY <1>1, ZenonT(30) DEF Call, CallOK
  <2>2. /\ Allocate(lim[w].rate, lim[w].refresh) /\ slot' = [slot EXCEPT ![k] = Fresh]
        /\ lim' = [lim EXCEPT ![w] = [Resting EXCEPT !.at = "clock", !.id = Fresh]]
        /\ UNCHANGED <<setting, whole, tune>>
    BY <1>2, <1>5, ZenonT(30) DEF CreateBucket
  <2>3. /\ Fresh \in BucketIds \ DOMAIN bucket /\ DOMAIN bucket' = DOMAIN bucket \cup {Fresh}
        /\ bucket' = [i \in DOMAIN bucket' |-> bucket'[i]]
        /\ \A id \in DOMAIN bucket : SameTime(id)
        /\ \A id \in DOMAIN bucket' \ DOMAIN bucket :
             BucketOK(id)' /\ bucket'[id].tokens <= bucket'[id].peak /\ bucket'[id].granted = 0
    <3>1. PICK n \in Nat, r \in Refreshes : n = lim[w].rate /\ r = lim[w].refresh
      BY <2>1, ZenonT(30)
    <3>2. Allocate(n, r)
      BY <2>2, <3>1, ZenonT(30)
    <3> QED BY <3>2, Allocation, ZenonT(30)
  <2>4. PICK f \in BucketIds : f = Fresh
    BY <2>3, ZenonT(30)
  <2>5. PICK c \in Call : c = [Resting EXCEPT !.at = "clock", !.id = f] /\ c.at = "clock" /\ c.id = f
    BY <1>1, Records, ZenonT(40)
  <2>6. lim' = [lim EXCEPT ![w] = c] /\ lim'[w] = c
    BY <1>1, <2>2, <2>4, <2>5, ZenonT(30) DEF Tables
  <2>7. CallOK(w)'
    BY <2>3, <2>4, <2>5, <2>6, ZenonT(30) DEF CallOK
  <2>8. slot' \in [Keys -> DOMAIN bucket' \cup {None}] /\ DOMAIN bucket' \subseteq BucketIds
    BY <1>1, <2>2, <2>3, ZenonT(30) DEF Tables
  <2> HIDE DEF LimitInv
  <2> QED BY <1>1, <2>2, <2>3, <2>5, <2>6, <2>7, <2>8, CallMoves, ZenonT(30)
<1> QED BY <1>3, <1>4, <1>5, ZenonT(30)

(* The reads of tryConsume, and a swap that fails.                         *)
LEMMA ReadKeeps ==
  ASSUME LimitInv, NEW w \in Workers, now' = now,
         \/ ReadClock(w) \/ ReadLast(w) \/ ReadBurst(w)
         \/ SwapLast(w) /\ bucket[lim[w].id].last # lim[w].last
  PROVE  LimitInv'
<1>0. PICK l \in Call : l = lim[w]
  BY ZenonT(30) DEF LimitInv, Tables
<1>1. PICK i : i = l.id
  BY ZenonT(30)
<1>2. l.at \in {"clock", "last", "burst", "swap"} /\ UNCHANGED <<setting, bucket, slot, whole, tune>>
  BY <1>0, ZenonT(30) DEF ReadClock, ReadLast, ReadBurst, SwapLast, At, Mine
<1>3. Tables /\ i \in DOMAIN bucket /\ CallOK(w) /\ Refreshes \subseteq Nat \ {0}
  BY <1>0, <1>1, <1>2, LimiterAssumption, ZenonT(30) DEF LimitInv, CallOK, Refreshes
<1>4. PICK b \in BucketRecord : b = bucket[i] /\ BucketOK(i)
  BY <1>3, ZenonT(30) DEF BucketOK, LimitInv
<1>5. now \in Nat /\ b.refresh \in Refreshes /\ b.refresh \in Nat /\ b.last \in Nat /\ b.burst \in Nat
      /\ l.clock \in Nat /\ l.refresh \in Nat
  BY <1>3, <1>4, ZenonT(30) DEF Tables, BucketRecord, Call
<1>6. CASE ReadClock(w)
  <2>1. PICK k \in Call : k = [[[l EXCEPT !.at = "last"] EXCEPT !.refresh = b.refresh] EXCEPT !.clock = now]
    BY <1>5, ZenonT(30) DEF Call, Spots
  <2>2. k.at = "last" /\ k.refresh = b.refresh /\ k.clock = now /\ k.id = i
    BY <1>1, <2>1, ZenonT(30) DEF Call
  <2>3. lim' = [lim EXCEPT ![w] = k] /\ l.at = "clock"
    BY <1>0, <1>1, <1>4, <1>6, <2>1, ZenonT(30) DEF ReadClock, Mine, At
  <2>4. lim'[w] = k
    BY <1>3, <2>3, ZenonT(30) DEF Tables
  <2>5. CallOK(w)'
    <3>1. now <= now'
      BY <1>5
    <3>2. k.clock <= now' /\ k.refresh \in Refreshes /\ k.id \in DOMAIN bucket'
      BY <1>2, <1>3, <1>5, <2>2, <3>1, ZenonT(30)
    <3> QED BY <2>2, <2>4, <3>2, ZenonT(30) DEF CallOK
  <2>6. ~Pending(w)
    BY <1>0, <2>3, ZenonT(30) DEF Pending
  <2> QED BY <1>2, <2>2, <2>3, <2>5, <2>6, CallReads, ZenonT(30)
<1>7. CASE ReadLast(w)
  <2>1. PICK s \in {"swap", "take"} : s = IF l.clock - b.last > l.refresh THEN "swap" ELSE "take"
    BY ZenonT(30)
  <2>2. PICK k \in Call : k = [[l EXCEPT !.last = b.last] EXCEPT !.at = s]
    BY <1>5, ZenonT(30) DEF Call, Spots
  <2>3. k.at = s /\ k.refresh = l.refresh /\ k.clock = l.clock /\ k.id = i /\ k.last = b.last
    BY <1>1, <2>2, ZenonT(30) DEF Call
  <2>4. lim' = [lim EXCEPT ![w] = k] /\ l.at = "last"
    BY <1>0, <1>1, <1>4, <1>7, <2>1, <2>2, ZenonT(30) DEF ReadLast, Mine, At
  <2>5. lim'[w] = k /\ l.refresh \in Refreshes /\ l.clock <= now
    BY <1>0, <1>3, <2>4, ZenonT(30) DEF Tables, CallOK
  <2>6. CallOK(w)'
    BY <1>2, <1>3, <1>5, <2>1, <2>3, <2>5, ZenonT(30) DEF CallOK
  <2>7. ~Pending(w)
    BY <1>0, <2>4, ZenonT(30) DEF Pending
  <2> QED BY <1>2, <2>3, <2>4, <2>6, <2>7, CallReads, ZenonT(30)
<1>8. CASE SwapLast(w) /\ bucket[lim[w].id].last # lim[w].last
  <2>1. PICK k \in Call : k = [l EXCEPT !.at = "take"]
    BY ZenonT(30) DEF Call, Spots
  <2>2. k.at = "take" /\ k.id = i
    BY <1>1, <2>1, ZenonT(30) DEF Call
  <2>3. lim' = [lim EXCEPT ![w] = k] /\ l.at = "swap"
    BY <1>0, <1>8, <2>1, ZenonT(30) DEF SwapLast, Mine, At
  <2>4. lim'[w] = k
    BY <1>3, <2>3, ZenonT(30) DEF Tables
  <2>5. CallOK(w)'
    BY <1>2, <1>3, <2>2, <2>4, ZenonT(30) DEF CallOK
  <2>6. ~Pending(w)
    BY <1>0, <2>3, ZenonT(30) DEF Pending
  <2> QED BY <1>2, <2>2, <2>3, <2>5, <2>6, CallReads, ZenonT(30)
<1>9. CASE ReadBurst(w)
  <2>1. PICK k \in Call : k = [[l EXCEPT !.at = "add"] EXCEPT !.burst = b.burst]
    BY <1>5, ZenonT(30) DEF Call, Spots
  <2>2. /\ k.at = "add" /\ k.id = l.id /\ k.clock = l.clock /\ k.last = l.last /\ k.add = l.add
    BY <2>1, ZenonT(30) DEF Call
  <2>3. lim' = [lim EXCEPT ![w] = k] /\ l.at = "burst"
    BY <1>0, <1>1, <1>4, <1>9, <2>1, ZenonT(30) DEF ReadBurst, Mine, At
  <2>4. lim' \in [Workers -> Call] /\ lim'[w] = k /\ \A v \in Workers : v # w => lim'[v] = lim[v]
    BY <1>3, <2>3, ZenonT(30) DEF Tables
  <2>5. Tables'
    BY <1>2, <1>3, <2>4 DEF Tables
  <2>6. ASSUME NEW v \in Workers PROVE CallOK(v)' /\ SameHold(v)
    <3>1. CASE v = w
      BY <1>0, <1>1, <1>2, <1>3, <2>2, <2>3, <2>4, <3>1, ZenonT(30) DEF CallOK, SameHold, Pending
    <3>2. CASE v # w
      BY <1>2, <2>4, <3>2, ZenonT(30) DEF LimitInv, CallOK, SameHold, Pending
    <3> QED BY <3>1, <3>2, ZenonT(30)
  <2>7. ASSUME NEW id \in DOMAIN bucket PROVE SameTime(id)
    <3>1. BucketOK(id)
      BY ZenonT(30) DEF LimitInv
    <3> QED BY <1>2, <1>5, <3>1, SameBucket, ZenonT(30), ZenonT(30)
  <2>8. DOMAIN bucket \subseteq DOMAIN bucket' /\ DOMAIN bucket' \ DOMAIN bucket = {}
    BY <1>2, ZenonT(30)
  <2> QED BY <2>5, <2>6, <2>7, <2>8, NoRefill, ZenonT(30)
<1> QED BY <1>6, <1>7, <1>8, <1>9, ZenonT(30)

(* One bucket gets another record of the same time and no larger budget.   *)
LEMMA OneBucket ==
  ASSUME LimitInv, now' = now, NEW i \in DOMAIN bucket, NEW b, b = bucket[i],
         NEW c \in BucketRecord, bucket' = [bucket EXCEPT ![i] = c],
         c.born = b.born, c.last = b.last, b.peak <= c.peak, c.max <= c.peak,
         c.tokens + c.granted <= b.tokens + b.granted
  PROVE  /\ DOMAIN bucket' = DOMAIN bucket /\ bucket' = [j \in DOMAIN bucket' |-> bucket'[j]]
         /\ \A id \in DOMAIN bucket : SameTime(id)
<1>1. Tables
  BY ZenonT(30) DEF LimitInv
<1>2. /\ DOMAIN bucket' = DOMAIN bucket /\ bucket'[i] = c /\ bucket' = [j \in DOMAIN bucket' |-> bucket'[j]]
      /\ \A j \in DOMAIN bucket : j # i => bucket'[j] = bucket[j]
  BY <1>1, ZenonT(30) DEF Tables
<1>3. ASSUME NEW id \in DOMAIN bucket PROVE SameTime(id)
  <2>1. BucketOK(id)
    BY ZenonT(30) DEF LimitInv
  <2>2. CASE id = i
    BY <1>2, <2>1, <2>2, ZenonT(30) DEF SameTime, BucketOK, BucketRecord
  <2>3. CASE id # i
    <3>1. now \in Nat /\ now <= now'
      BY <1>1 DEF Tables
    <3> QED BY <1>2, <2>1, <2>3, <3>1, SameBucket, ZenonT(30)
  <2> QED BY <2>2, <2>3, ZenonT(30)
<1> QED BY <1>2, <1>3, ZenonT(30)

(* A token is taken: what the bucket has goes to what it has granted.      *)
LEMMA TakeKeeps ==
  ASSUME LimitInv, NEW w \in Workers, TakeToken(w), now' = now
  PROVE  LimitInv'
<1>1. Tables /\ ~Pending(w) /\ CallOK(w) /\ lim[w].at = "take" /\ UNCHANGED <<setting, slot, whole, tune>>
  BY ZenonT(30) DEF LimitInv, TakeToken, At, Pending
<1>2. PICK i \in DOMAIN bucket : i = lim[w].id
  BY <1>1, ZenonT(30) DEF CallOK
<1>3. PICK b \in BucketRecord : b = bucket[i] /\ BucketOK(i)
  BY ZenonT(30) DEF LimitInv, BucketOK
<1>4. CASE b.tokens > 0
  <2>1. PICK k \in Call : k = Resting /\ k.at = "rest"
    BY <1>1, Records, ZenonT(30)
  <2>2. lim' = [lim EXCEPT ![w] = k]
    BY <1>2, <1>3, <1>4, <2>1, ZenonT(30) DEF TakeToken, Mine
  <2>3. lim'[w] = k
    BY <1>1, <2>2, ZenonT(30) DEF Tables
  <2>4. CallOK(w)'
    BY <2>1, <2>3, ZenonT(30) DEF CallOK
  <2>5. b.tokens - 1 \in Nat /\ b.granted + 1 \in Nat
    BY <1>4 DEF BucketRecord
  <2>6. PICK c \in BucketRecord : c = [[b EXCEPT !.tokens = b.tokens - 1] EXCEPT !.granted = b.granted + 1]
    BY <2>5, ZenonT(30) DEF BucketRecord
  <2>7. bucket' = [bucket EXCEPT ![i] = c]
    BY <1>2, <1>3, <1>4, <2>6, ZenonT(30) DEF TakeToken, Mine
  <2>8. /\ c.born = b.born /\ c.last = b.last /\ c.peak = b.peak /\ c.max = b.max
        /\ c.tokens = b.tokens - 1 /\ c.granted = b.granted + 1
    BY <2>6, ZenonT(30) DEF BucketRecord
  <2>9. /\ b.peak <= c.peak /\ c.max <= c.peak /\ c.tokens + c.granted <= b.tokens + b.granted
    <3>1. b.max <= b.peak
      BY <1>3, ZenonT(30) DEF BucketOK
    <3>2. b.peak \in Nat /\ b.tokens \in Nat /\ b.granted \in Nat
      BY ZenonT(30) DEF BucketRecord
    <3> QED BY <2>8, <3>1, <3>2
  <2>10. /\ DOMAIN bucket' = DOMAIN bucket /\ bucket' = [j \in DOMAIN bucket' |-> bucket'[j]]
         /\ \A id \in DOMAIN bucket : SameTime(id)
    BY <1>3, <2>7, <2>8, <2>9, OneBucket, ZenonT(30)
  <2>11. slot' \in [Keys -> DOMAIN bucket' \cup {None}] /\ DOMAIN bucket' \subseteq BucketIds
         /\ DOMAIN bucket' \ DOMAIN bucket = {}
    BY <1>1, <2>10, ZenonT(30) DEF Tables
  <2> QED BY <1>1, <2>1, <2>2, <2>4, <2>10, <2>11, CallMoves, ZenonT(30)
<1>5. CASE ~(b.tokens > 0)
  <2>1. PICK k \in Call : k = [Resting EXCEPT !.ok = FALSE] /\ k.at = "rest"
    BY <1>1, Records, ZenonT(30)
  <2>2. lim' = [lim EXCEPT ![w] = k] /\ bucket' = bucket
    BY <1>2, <1>3, <1>5, <2>1, ZenonT(30) DEF TakeToken, Mine
  <2>3. lim'[w] = k
    BY <1>1, <2>2, ZenonT(30) DEF Tables
  <2>4. CallOK(w)'
    BY <2>1, <2>3, ZenonT(30) DEF CallOK
  <2> QED BY <1>1, <2>1, <2>2, <2>4, CallReads, ZenonT(30)
<1> QED BY <1>4, <1>5, ZenonT(30)

(* A step that no worker takes.                                            *)
LEMMA NobodyCalls ==
  ASSUME LimitInv, lim' = lim, now <= now', Tables', DOMAIN bucket \subseteq DOMAIN bucket',
         \A id \in DOMAIN bucket : SameTime(id),
         \A id \in DOMAIN bucket' \ DOMAIN bucket :
           BucketOK(id)' /\ bucket'[id].tokens <= bucket'[id].peak /\ bucket'[id].granted = 0
  PROVE  LimitInv'
<1>1. ASSUME NEW w \in Workers PROVE CallOK(w)' /\ SameHold(w)
  <2>1. CallOK(w) /\ lim[w] \in Call /\ now \in Nat /\ now' \in Nat
    BY ZenonT(30) DEF LimitInv, Tables
  <2>2. lim[w].clock \in Nat
    BY <2>1, ZenonT(30) DEF Call
  <2>3. lim[w].clock <= now => lim[w].clock <= now'
    BY <2>1, <2>2
  <2>4. CallOK(w)'
    BY <2>1, <2>3, ZenonT(30) DEF CallOK
  <2> QED BY <2>4, ZenonT(30) DEF SameHold, Pending
<1> QED BY <1>1, NoRefill, ZenonT(30)

(* No bucket changes, and time does not go back.                           *)
LEMMA NoBucketMoves ==
  ASSUME LimitInv, UNCHANGED <<bucket, lim>>, now <= now', Tables'
  PROVE  LimitInv'
<1>1. ASSUME NEW id \in DOMAIN bucket PROVE SameTime(id)
  <2>1. BucketOK(id) /\ now \in Nat /\ now' \in Nat
    BY ZenonT(30) DEF LimitInv, Tables
  <2> QED BY <2>1, SameBucket, ZenonT(30)
<1>2. DOMAIN bucket \subseteq DOMAIN bucket' /\ DOMAIN bucket' \ DOMAIN bucket = {}
  BY ZenonT(30)
<1> QED BY <1>1, <1>2, NobodyCalls, ZenonT(30)

(* The rates that the limiter computes from its settings.                  *)
LEMMA Rates ==
  ASSUME NEW s \in [rate: Nat \ {0}, refresh: Refreshes, route: Nat, global: Nat], NEW k
  PROVE  DimRate(s, k) \in Nat /\ 2 * DimRate(s, k) \in Nat /\ GlobalRate(s) \in Nat
<1>1. s.rate \in Nat /\ s.route \in Nat /\ s.global \in Nat
  BY ZenonT(30)
<1>2. DimRate(s, k) \in Nat
  BY <1>1 DEF DimRate
<1>3. GlobalRate(s) \in Nat
  BY <1>1 DEF GlobalRate
<1> QED BY <1>2, <1>3

(* updateParams, store by store.                                           *)
LEMMA ParamsKeep ==
  ASSUME LimitInv, now' = now, StoreMax \/ StoreBurst \/ CutTokens
  PROVE  LimitInv'
<1>1. Tables /\ UNCHANGED <<setting, slot, whole, lim>> /\ tune.step # "pick"
  BY ZenonT(30) DEF LimitInv, StoreMax, StoreBurst, CutTokens
<1>2. PICK i \in DOMAIN bucket : i = tune.id
  BY <1>1, ZenonT(30) DEF Tables
<1>3. PICK b \in BucketRecord : b = bucket[i] /\ BucketOK(i)
  BY ZenonT(30) DEF LimitInv, BucketOK
<1>4. PICK n \in Nat : n = DimRate(setting, tune.key) /\ 2 * n \in Nat
  BY <1>1, Rates, ZenonT(30) DEF Tables
<1>5. setting.refresh \in Refreshes
  BY <1>1, ZenonT(30) DEF Tables
<1>6. tune' \in [call: {"rest", "rate", "route"}, step: {"pick", "max", "burst", "cut"}, todo: SUBSET Keys,
                 key: Keys \cup {None}, id: BucketIds \cup {None}, want: Settings]
      /\ (tune'.step # "pick" => tune'.id = tune.id)
  BY <1>1, ZenonT(40) DEF Tables, StoreMax, StoreBurst, CutTokens
<1>7. ASSUME NEW c \in BucketRecord, bucket' = [bucket EXCEPT ![i] = c],
             c.born = b.born, c.last = b.last, b.peak <= c.peak, c.max <= c.peak,
             c.tokens <= b.tokens, c.granted = b.granted
      PROVE  LimitInv'
  <2>1. c.tokens + c.granted <= b.tokens + b.granted
    BY <1>7 DEF BucketRecord
  <2>2. /\ DOMAIN bucket' = DOMAIN bucket /\ bucket' = [j \in DOMAIN bucket' |-> bucket'[j]]
        /\ \A id \in DOMAIN bucket : SameTime(id)
    BY <1>3, <1>7, <2>1, OneBucket, ZenonT(30)
  <2>3. Tables'
    BY <1>1, <1>2, <1>6, <2>2, ZenonT(30) DEF Tables
  <2>4. DOMAIN bucket \subseteq DOMAIN bucket' /\ DOMAIN bucket' \ DOMAIN bucket = {} /\ now <= now'
    BY <1>1, <2>2 DEF Tables
  <2> QED BY <1>1, <2>2, <2>3, <2>4, NobodyCalls, ZenonT(30)
<1>8. b.max \in Nat /\ b.peak \in Nat /\ b.tokens \in Nat /\ b.max <= b.peak
  BY <1>3, ZenonT(30) DEF BucketRecord, BucketOK
<1>9. CASE StoreMax
  <2>1. PICK m \in Nat : m = (IF n > b.peak THEN n ELSE b.peak) /\ n <= m /\ b.peak <= m
    BY <1>8
  <2>2. PICK c \in BucketRecord : c = [[b EXCEPT !.max = n] EXCEPT !.peak = m]
    BY ZenonT(30) DEF BucketRecord
  <2>3. /\ c.born = b.born /\ c.last = b.last /\ c.peak = m /\ c.max = n /\ c.tokens = b.tokens
        /\ c.granted = b.granted
    BY <2>2, ZenonT(30) DEF BucketRecord
  <2>4. bucket' = [bucket EXCEPT ![i] = c]
    BY <1>2, <1>3, <1>4, <1>9, <2>1, <2>2, ZenonT(30) DEF StoreMax
  <2>5. b.peak <= c.peak /\ c.max <= c.peak /\ c.tokens <= b.tokens
    BY <1>8, <2>1, <2>3
  <2> QED BY <1>7, <2>3, <2>4, <2>5, ZenonT(30)
<1>10. CASE StoreBurst
  <2>1. PICK c \in BucketRecord : c = [[b EXCEPT !.burst = 2 * n] EXCEPT !.refresh = setting.refresh]
    BY <1>4, <1>5, ZenonT(30) DEF BucketRecord
  <2>2. /\ c.born = b.born /\ c.last = b.last /\ c.peak = b.peak /\ c.max = b.max /\ c.tokens = b.tokens
        /\ c.granted = b.granted
    BY <2>1, ZenonT(30) DEF BucketRecord
  <2>3. bucket' = [bucket EXCEPT ![i] = c]
    BY <1>2, <1>3, <1>4, <1>10, <2>1, ZenonT(30) DEF StoreBurst
  <2>4. b.peak <= c.peak /\ c.max <= c.peak /\ c.tokens <= b.tokens
    BY <1>8, <2>2
  <2> QED BY <1>7, <2>2, <2>3, <2>4, ZenonT(30)
<1>11. CASE CutTokens
  <2>1. PICK m \in Nat : m = MinOf(b.tokens, 2 * n) /\ m <= b.tokens
    BY <1>4, <1>8 DEF MinOf
  <2>2. PICK c \in BucketRecord : c = [b EXCEPT !.tokens = m]
    BY ZenonT(30) DEF BucketRecord
  <2>3. /\ c.born = b.born /\ c.last = b.last /\ c.peak = b.peak /\ c.max = b.max /\ c.tokens = m
        /\ c.granted = b.granted
    BY <2>2, ZenonT(30) DEF BucketRecord
  <2>4. bucket' = [bucket EXCEPT ![i] = c]
    BY <1>2, <1>3, <1>4, <1>11, <2>1, <2>2, ZenonT(30) DEF CutTokens
  <2>5. b.peak <= c.peak /\ c.max <= c.peak /\ c.tokens <= b.tokens
    BY <1>8, <2>1, <2>3
  <2> QED BY <1>7, <2>3, <2>4, <2>5, ZenonT(30)
<1> QED BY <1>9, <1>10, <1>11, ZenonT(30)

(* The configuration goroutine around updateParams, and the cleaner.       *)
LEMMA ConfigKeeps ==
  ASSUME LimitInv, now' = now,
         \/ \E s \in Settings : UpdateRate(s)
         \/ \E k \in Keys : PickBucket(k) \/ Cleanup(k)
         \/ SetRouteMaxTokens \/ SetGlobalMaxTokens
  PROVE  LimitInv'
<1>1. Tables /\ now <= now'
  BY DEF LimitInv, Tables
<1>2. ASSUME NEW s \in Settings, UpdateRate(s) PROVE LimitInv'
  <2>1. s.rate \in Nat \ {0} /\ s.refresh \in Refreshes
    BY LimiterAssumption, ZenonT(30) DEF Refreshes
  <2>2. setting' \in [rate: Nat \ {0}, refresh: Refreshes, route: Nat, global: Nat]
    BY <1>1, <1>2, <2>1, ZenonT(30) DEF UpdateRate, Tables
  <2>3. Tables'
    BY <1>1, <1>2, <2>2, ZenonT(40) DEF UpdateRate, Tables
  <2> QED BY <1>1, <1>2, <2>3, NoBucketMoves, ZenonT(30) DEF UpdateRate
<1>3. ASSUME NEW k \in Keys, PickBucket(k) PROVE LimitInv'
  <2>1. Tables'
    <3>1. CASE slot[k] = None
      BY <1>1, <1>3, <3>1, ZenonT(40) DEF PickBucket, Tables
    <3>2. CASE slot[k] # None
      <4>1. PICK i \in DOMAIN bucket : i = slot[k]
        BY <1>1, <3>2, ZenonT(30) DEF Tables
      <4> QED BY <1>1, <1>3, <3>2, <4>1, ZenonT(40) DEF PickBucket, Tables
    <3> QED BY <3>1, <3>2, ZenonT(30)
  <2> QED BY <1>1, <1>3, <2>1, NoBucketMoves, ZenonT(30) DEF PickBucket
<1>4. ASSUME NEW k \in Keys, Cleanup(k) PROVE LimitInv'
  <2>1. Tables'
    BY <1>1, <1>4 DEF Cleanup, Tables
  <2> QED BY <1>1, <1>4, <2>1, NoBucketMoves, ZenonT(30) DEF Cleanup
<1>5. ASSUME NEW n \in Nat, NEW r \in Refreshes, Allocate(n, r), whole' = Fresh, UNCHANGED <<slot, lim>>,
             setting' \in [rate: Nat \ {0}, refresh: Refreshes, route: Nat, global: Nat],
             tune' \in [call: {"rest", "rate", "route"}, step: {"pick", "max", "burst", "cut"}, todo: SUBSET Keys,
                        key: Keys \cup {None}, id: BucketIds \cup {None}, want: Settings],
             tune'.step = "pick"
      PROVE  LimitInv'
  <2>1. /\ Fresh \in BucketIds \ DOMAIN bucket /\ DOMAIN bucket' = DOMAIN bucket \cup {Fresh}
        /\ bucket' = [i \in DOMAIN bucket' |-> bucket'[i]]
        /\ \A id \in DOMAIN bucket : SameTime(id)
        /\ \A id \in DOMAIN bucket' \ DOMAIN bucket :
             BucketOK(id)' /\ bucket'[id].tokens <= bucket'[id].peak /\ bucket'[id].granted = 0
    BY <1>5, Allocation, SMTT(40)
  <2>2. DOMAIN bucket' \subseteq BucketIds /\ whole' \in DOMAIN bucket'
        /\ slot' \in [Keys -> DOMAIN bucket' \cup {None}] /\ lim' \in [Workers -> Call]
    BY <1>1, <1>5, <2>1, ZenonT(30) DEF Tables
  <2>3. Tables'
    BY <1>1, <1>5, <2>1, <2>2, ZenonT(30) DEF Tables
  <2>4. DOMAIN bucket \subseteq DOMAIN bucket'
    BY <2>1, ZenonT(30)
  <2> QED BY <1>1, <1>5, <2>1, <2>3, <2>4, NobodyCalls, ZenonT(30)
<1>6. CASE SetRouteMaxTokens
  <2>1. PICK n \in Nat, r \in Refreshes : n = GlobalRate(setting) /\ r = setting.refresh
    BY <1>1, Rates, ZenonT(30) DEF Tables
  <2>2. tune.want.route \in Nat
    BY <1>1, LimiterAssumption, ZenonT(30) DEF Tables
  <2>3. setting' \in [rate: Nat \ {0}, refresh: Refreshes, route: Nat, global: Nat]
    BY <1>1, <1>6, <2>2, ZenonT(30) DEF SetRouteMaxTokens, Tables
  <2>4. tune' \in [call: {"rest", "rate", "route"}, step: {"pick", "max", "burst", "cut"}, todo: SUBSET Keys,
                   key: Keys \cup {None}, id: BucketIds \cup {None}, want: Settings] /\ tune'.step = "pick"
    BY <1>1, <1>6, LimiterAssumption, ZenonT(30) DEF SetRouteMaxTokens, Tables
  <2>5. Allocate(n, r) /\ whole' = Fresh /\ UNCHANGED <<slot, lim>>
    BY <1>6, <2>1, ZenonT(30) DEF SetRouteMaxTokens
  <2> QED BY <1>5, <2>3, <2>4, <2>5, ZenonT(30)
<1>7. CASE SetGlobalMaxTokens
  <2>1. tune.want.global \in Nat
    BY <1>1, LimiterAssumption, ZenonT(30) DEF Tables
  <2>2. setting' \in [rate: Nat \ {0}, refresh: Refreshes, route: Nat, global: Nat]
    BY <1>1, <1>7, <2>1, ZenonT(30) DEF SetGlobalMaxTokens, Tables
  <2>3. PICK n \in Nat, r \in Refreshes : n = GlobalRate(setting') /\ r = setting.refresh
    BY <1>1, <2>2, Rates, ZenonT(30) DEF Tables
  <2>4. tune' \in [call: {"rest", "rate", "route"}, step: {"pick", "max", "burst", "cut"}, todo: SUBSET Keys,
                   key: Keys \cup {None}, id: BucketIds \cup {None}, want: Settings] /\ tune'.step = "pick"
    BY <1>1, <1>7, ZenonT(30) DEF SetGlobalMaxTokens, Tables
  <2>5. Allocate(n, r) /\ whole' = Fresh /\ UNCHANGED <<slot, lim>>
    BY <1>7, <2>3, ZenonT(30) DEF SetGlobalMaxTokens
  <2> QED BY <1>5, <2>2, <2>4, <2>5, ZenonT(30)
<1> QED BY <1>2, <1>3, <1>4, <1>6, <1>7, ZenonT(30)

\* A step of the limiter, by a worker, the configuration goroutine or the cleaner.
LimiterStep ==
  \/ \E w \in Workers : \/ AllowGlobal(w) \/ \E k \in Keys : Allow(w, k)
                        \/ CreateBucket(w) \/ ReadClock(w) \/ ReadLast(w) \/ SwapLast(w)
                        \/ ReadBurst(w) \/ AddRefill(w) \/ TakeToken(w)
  \/ \E s \in Settings : UpdateRate(s)
  \/ TuneStep
  \/ \E k \in Keys : Cleanup(k)

(* Every step of the limiter keeps the invariant, and so does time.        *)
LEMMA LimitStepKeeps ==
  ASSUME LimitInv, (LimiterStep /\ now' = now) \/ (UNCHANGED limiterVars /\ (now' = now \/ Tick))
  PROVE  LimitInv'
<1>1. ASSUME NEW w \in Workers, now' = now,
             \/ AllowGlobal(w) \/ \E k \in Keys : Allow(w, k)
             \/ CreateBucket(w) \/ ReadClock(w) \/ ReadLast(w) \/ SwapLast(w)
             \/ ReadBurst(w) \/ AddRefill(w) \/ TakeToken(w)
      PROVE  LimitInv'
  <2>1. CASE AllowGlobal(w) \/ \E k \in Keys : Allow(w, k)
    BY <1>1, <2>1, EntryKeeps, ZenonT(30)
  <2>2. CASE SwapLast(w) /\ bucket[lim[w].id].last = lim[w].last
    BY <1>1, <2>2, SwapKeeps, ZenonT(30)
  <2>3. CASE \/ ReadClock(w) \/ ReadLast(w) \/ ReadBurst(w)
             \/ SwapLast(w) /\ bucket[lim[w].id].last # lim[w].last
    BY <1>1, <2>3, ReadKeeps, ZenonT(30)
  <2>4. CASE CreateBucket(w)
    BY <1>1, <2>4, CreateKeeps, ZenonT(30)
  <2>5. CASE AddRefill(w)
    BY <1>1, <2>5, RefillKeeps, ZenonT(30)
  <2>6. CASE TakeToken(w)
    BY <1>1, <2>6, TakeKeeps, ZenonT(30)
  <2> QED BY <1>1, <2>1, <2>2, <2>3, <2>4, <2>5, <2>6, ZenonT(30)
<1>2. CASE now' = now /\ \/ \E s \in Settings : UpdateRate(s)
                         \/ TuneStep
                         \/ \E k \in Keys : Cleanup(k)
  BY <1>2, ParamsKeep, ConfigKeeps, ZenonT(30) DEF TuneStep
<1>3. CASE UNCHANGED limiterVars /\ (now' = now \/ Tick)
  <2>1. Tables
    BY ZenonT(30) DEF LimitInv
  <2>2. now' \in Nat /\ now <= now'
    BY <1>3, <2>1 DEF Tick, Tables
  <2>3. Tables'
    BY <1>3, <2>1, <2>2 DEF Tables, limiterVars
  <2> QED BY <1>3, <2>2, <2>3, NoBucketMoves DEF limiterVars
<1> QED BY <1>1, <1>2, <1>3, ZenonT(30) DEF LimiterStep

(* NewRateLimiter.                                                         *)
LEMMA InitLimit ==
  ASSUME LimiterInit, now = 0, BucketIds # {}
  PROVE  LimitInv
<1>1. setting \in Settings /\ setting \in [rate: Nat \ {0}, refresh: Refreshes, route: Nat, global: Nat]
  BY LimiterAssumption, ZenonT(30) DEF LimiterInit, Refreshes
<1>2. PICK n \in Nat, r \in Refreshes : n = GlobalRate(setting) /\ r = setting.refresh
  BY <1>1, Rates, ZenonT(30)
<1>3. PICK b : b = NewTokenBucket(n, r)
  BY ZenonT(30)
<1>4. /\ b \in BucketRecord /\ b.max <= b.peak /\ b.born = 0 /\ b.last = 0 /\ b.tokens <= b.peak /\ b.granted = 0
  BY <1>3 DEF NewTokenBucket, BucketRecord
<1>5. whole \in BucketIds
  BY ZenonT(30) DEF LimiterInit
<1>6. bucket = [i \in {whole} |-> b]
  BY <1>2, <1>3, ZenonT(30) DEF LimiterInit
<1>7. DOMAIN bucket = {whole} /\ bucket[whole] = b
  BY <1>6, ZenonT(30)
<1>8. lim = [w \in Workers |-> Resting] /\ Resting.at = "rest" /\ Resting \in Call
  BY ZenonT(30) DEF LimiterInit, Resting, Call, Spots
<1>9. tune \in [call: {"rest", "rate", "route"}, step: {"pick", "max", "burst", "cut"}, todo: SUBSET Keys,
                key: Keys \cup {None}, id: BucketIds \cup {None}, want: Settings] /\ tune.step = "pick"
  BY <1>1, ZenonT(30) DEF LimiterInit
<1>10. slot \in [Keys -> DOMAIN bucket \cup {None}] /\ now \in Nat
  BY ZenonT(30) DEF LimiterInit
<1>11. Tables
  BY <1>1, <1>5, <1>6, <1>7, <1>8, <1>9, <1>10, ZenonT(30) DEF Tables
<1>12. BucketOK(whole)
  BY <1>4, <1>7 DEF BucketOK
<1>13. ASSUME NEW w \in Workers PROVE CallOK(w) /\ Covered(w) /\ ~Pending(w)
  BY <1>8, ZenonT(30) DEF CallOK, Covered, Pending
<1>14. ASSUME NEW p, Shortest(p) PROVE Paid(whole, p)
  <2>1. Cardinality(Settled(whole)) \in Nat
    <3>1. Settled(whole) \in SUBSET (b.born..(b.last - 1)) /\ b.born <= b.last
      BY <1>4, <1>7 DEF Settled
    <3> QED BY <1>4, <3>1, SettledFinite
  <2>2. 0 * p <= Cardinality(Settled(whole))
    BY <1>14, <2>1 DEF Shortest
  <2>3. b.tokens + b.granted <= b.peak * (1 + 0)
    BY <1>4 DEF BucketRecord
  <2> QED BY <1>7, <2>2, <2>3, ZenonT(30) DEF Paid
<1>15. \A v, w \in Workers : v # w => Apart(v, w)
  BY <1>13, ZenonT(30) DEF Apart
<1> QED BY <1>7, <1>11, <1>12, <1>13, <1>14, <1>15, ZenonT(30) DEF LimitInv

(* What is paid for is what GrantBound allows.                             *)
LEMMA PaidBound == LimitInv => GrantBound
<1> SUFFICES ASSUME LimitInv, NEW id \in DOMAIN bucket, NEW s \in Settings,
                    \A t \in Settings : s.refresh <= t.refresh
             PROVE  bucket[id].granted <= bucket[id].peak * (1 + (now - bucket[id].born) \div s.refresh)
  BY ZenonT(30) DEF GrantBound
<1>1. PICK p \in Nat \ {0} : p = s.refresh
  BY LimiterAssumption, ZenonT(30)
<1>2. Shortest(p)
  BY <1>1, ZenonT(30) DEF Shortest, Refreshes
<1>3. PICK b \in BucketRecord : b = bucket[id] /\ b.born <= b.last /\ b.last <= now
  BY ZenonT(30) DEF LimitInv, BucketOK
<1>4. PICK q \in Nat : b.tokens + b.granted <= b.peak * (1 + q) /\ q * p <= Cardinality(Settled(id))
  BY <1>2, <1>3, ZenonT(30) DEF LimitInv, Paid
<1>5. now \in Nat /\ b.born \in Nat /\ b.last \in Nat /\ b.peak \in Nat /\ b.tokens \in Nat /\ b.granted \in Nat
  BY ZenonT(30) DEF LimitInv, Tables, BucketRecord
<1>6. PICK d \in Nat : d = now - b.born
  BY <1>3, <1>5
<1>7. Cardinality(Settled(id)) \in Nat /\ Cardinality(Settled(id)) <= d
  <2>1. Settled(id) \in SUBSET (b.born..(b.last - 1))
    BY <1>3, ZenonT(30) DEF Settled
  <2>2. Cardinality(Settled(id)) \in Nat /\ Cardinality(Settled(id)) <= b.last - b.born
    BY <1>3, <2>1, SettledFinite, ZenonT(30)
  <2> QED BY <1>3, <1>5, <1>6, <2>2
<1>8. q * p <= d
  <2>1. q * p \in Nat
    BY Product
  <2> QED BY <1>4, <1>7, <2>1
<1>9. PICK e \in Nat : e = d \div p /\ q <= e
  BY <1>8, Fits, ZenonT(30)
<1>10. PICK m \in Nat, n \in Nat : m = 1 + q /\ n = 1 + e /\ m <= n
  BY <1>9
<1>11. b.peak * m <= b.peak * n /\ b.peak * m \in Nat /\ b.peak * n \in Nat
  BY <1>5, <1>10, Product, ZenonT(30)
<1>12. b.granted <= b.peak * n
  BY <1>4, <1>5, <1>10, <1>11
<1> QED BY <1>1, <1>3, <1>6, <1>9, <1>10, <1>12, ZenonT(30)
=============================================================================
