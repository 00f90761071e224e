---------------------------- MODULE RateLimiter ----------------------------
(***************************************************************************)
(* security/ratelimit.go: token buckets per (dimension, key) and one for   *)
(* the whole gateway.  Pipeline workers take tokens with compare-and-swap  *)
(* loops, the configuration goroutine rewrites the parameters of buckets   *)
(* in use, and a cleaner drops idle ones.  A step is one atomic load,      *)
(* store, successful swap, or one critical section.  A worker holds a      *)
(* pointer to its bucket, so buckets have identities that outlive their    *)
(* entry in the table.                                                     *)
(***************************************************************************)
EXTENDS Clock, FiniteSets

CONSTANTS Keys,         \* (dimension, key) pairs in use
          RouteKeys,    \* those of dimension "route"; the others are "ip"
          BucketIds,    \* bounds how many buckets are ever allocated
          Settings,     \* rateLimit configurations: [rate, refresh, route, global]
          MaxBuckets,   \* maxBucketsPerShard, per dimension
          IdleTime,     \* the 30 minutes after which cleanup drops a bucket
          None

ASSUME LimiterAssumption ==
  /\ RouteKeys \subseteq Keys
  /\ Settings \subseteq [rate: Nat \ {0}, refresh: Nat \ {0}, route: Nat, global: Nat]
  /\ MaxBuckets \in Nat /\ IdleTime \in Nat
  /\ None \notin BucketIds

VARIABLES setting,  \* maxTokens, tokenRefresh, routeMaxTokens, globalMaxTokens
          bucket,   \* the buckets allocated so far
          slot,     \* shards[..].dims: key -> bucket
          whole,    \* globalBucket
          lim,      \* where each worker is inside Allow or AllowGlobal
          tune      \* where the configuration goroutine is

limiterVars == <<setting, bucket, slot, whole, lim, tune>>

MinOf(a, b) == IF a <= b THEN a ELSE b

\* rebuildDimConfigLocked and dimConfig: the rate of a key's dimension.
\* The burst is twice the rate in every dimension the gateway uses.
DimRate(s, k) == IF k \notin RouteKeys THEN s.rate
                 ELSE IF s.route > 0 THEN s.route ELSE 4 * s.rate

\* initGlobalBucket: the rate of the bucket every message is charged to.
GlobalRate(s) == IF s.global > 0 THEN s.global ELSE 10 * s.rate

\* Allocation: which identity a new bucket gets does not matter.
Unused == BucketIds \ DOMAIN bucket
Fresh == CHOOSE id \in Unused : TRUE

\* newTokenBucket.  `born`, `peak` and `granted` are history: the time of
\* creation, the highest rate so far and the tokens handed out.
NewTokenBucket(rate, refresh) ==
  [max |-> rate, burst |-> 2 * rate, refresh |-> refresh, tokens |-> rate,
   last |-> now, born |-> now, peak |-> rate, granted |-> 0]

Allocate(rate, refresh) ==
  /\ Unused # {}
  /\ bucket' = [i \in DOMAIN bucket \cup {Fresh} |->
                  IF i = Fresh THEN NewTokenBucket(rate, refresh) ELSE bucket[i]]

Resting == [at |-> "rest", key |-> None, id |-> None, rate |-> 0, refresh |-> 0,
            clock |-> 0, last |-> 0, add |-> 0, burst |-> 0, ok |-> TRUE]

\* NewRateLimiter: an empty table and a full global bucket.
LimiterInit ==
  /\ setting \in Settings
  /\ whole = CHOOSE id \in BucketIds : TRUE
  /\ bucket = [i \in {whole} |-> NewTokenBucket(GlobalRate(setting), setting.refresh)]
  /\ slot = [k \in Keys |-> None]
  /\ lim = [w \in Workers |-> Resting]
  /\ tune = [call |-> "rest", step |-> "pick", todo |-> {}, key |-> None,
             id |-> None, want |-> setting]

-----------------------------------------------------------------------------
At(w, l) == lim[w].at = l

\* AllowGlobal loads the pointer and goes on to tryConsume.
AllowGlobal(w) ==
  /\ At(w, "rest")
  /\ lim' = [lim EXCEPT ![w] = [Resting EXCEPT !.at = "clock", !.id = whole]]
  /\ UNCHANGED <<setting, bucket, slot, whole, tune>>

\* dimConfig: what a worker knows when it is about to create a bucket.
DimConfig(k) == [Resting EXCEPT !.at = "create", !.key = k,
                   !.rate = DimRate(setting, k), !.refresh = setting.refresh]

\* Allow, read path: find the bucket, or read the configuration to make one.
Allow(w, k) ==
  /\ At(w, "rest")
  /\ lim' = [lim EXCEPT ![w] =
       IF slot[k] # None
       THEN [Resting EXCEPT !.at = "clock", !.id = slot[k]]
       ELSE DimConfig(k)]
  /\ UNCHANGED <<setting, bucket, slot, whole, tune>>

SameDim(k) == {j \in Keys : (j \in RouteKeys) = (k \in RouteKeys)}

DimFull(k) == Cardinality({j \in SameDim(k) : slot[j] # None}) >= MaxBuckets

\* Allow, write path, under the shard's lock: another worker may have made
\* the bucket meanwhile, and a full shard refuses a new key.
CreateBucket(w) ==
  /\ At(w, "create")
  /\ LET k == lim[w].key IN
     \/ /\ slot[k] # None
        /\ lim' = [lim EXCEPT ![w] = [Resting EXCEPT !.at = "clock", !.id = slot[k]]]
        /\ UNCHANGED <<bucket, slot>>
     \/ /\ slot[k] = None /\ DimFull(k)
        /\ lim' = [lim EXCEPT ![w] = [Resting EXCEPT !.ok = FALSE]]
        /\ UNCHANGED <<bucket, slot>>
     \/ /\ slot[k] = None /\ ~DimFull(k)
        /\ Allocate(lim[w].rate, lim[w].refresh)
        /\ slot' = [slot EXCEPT ![k] = Fresh]
        /\ lim' = [lim EXCEPT ![w] = [Resting EXCEPT !.at = "clock", !.id = Fresh]]
  /\ UNCHANGED <<setting, whole, tune>>

Mine(w) == bucket[lim[w].id]

\* tryConsume: the refresh period and the clock are read first ...
ReadClock(w) ==
  /\ At(w, "clock")
  /\ lim' = [lim EXCEPT ![w].at = "last", ![w].refresh = Mine(w).refresh,
                        ![w].clock = now]
  /\ UNCHANGED <<setting, bucket, slot, whole, tune>>

\* ... then lastUpdate, which another worker may have moved past `clock`.
ReadLast(w) ==
  /\ At(w, "last")
  /\ lim' = [lim EXCEPT ![w].last = Mine(w).last,
                        ![w].at = IF lim[w].clock - Mine(w).last > lim[w].refresh
                                  THEN "swap" ELSE "take"]
  /\ UNCHANGED <<setting, bucket, slot, whole, tune>>

\* Mutant: lastUpdate is stored without comparing it to the value read.
SwapLastBlindly(w) ==
  /\ At(w, "swap")
  /\ LET periods == (lim[w].clock - lim[w].last) \div lim[w].refresh IN
     /\ bucket' = [bucket EXCEPT ![lim[w].id].last = lim[w].clock]
     /\ lim' = [lim EXCEPT ![w].at = "burst", ![w].add = periods * Mine(w).max]
  /\ UNCHANGED <<setting, slot, whole, tune>>

\* The swap of lastUpdate elects one worker to refill, with the rate it loads.
SwapLast(w) ==
  /\ At(w, "swap")
  /\ IF Mine(w).last = lim[w].last
     THEN LET periods == (lim[w].clock - lim[w].last) \div lim[w].refresh IN
          /\ bucket' = [bucket EXCEPT ![lim[w].id].last = lim[w].clock]
          /\ lim' = [lim EXCEPT ![w].at = "burst", ![w].add = periods * Mine(w).max]
     ELSE /\ lim' = [lim EXCEPT ![w].at = "take"]
          /\ UNCHANGED bucket
  /\ UNCHANGED <<setting, slot, whole, tune>>

ReadBurst(w) ==
  /\ At(w, "burst")
  /\ lim' = [lim EXCEPT ![w].at = "add", ![w].burst = Mine(w).burst]
  /\ UNCHANGED <<setting, bucket, slot, whole, tune>>

\* The swap loop that adds the refill, cut at the burst loaded before.
AddRefill(w) ==
  /\ At(w, "add")
  /\ bucket' = [bucket EXCEPT ![lim[w].id].tokens =
                  MinOf(@ + lim[w].add, lim[w].burst)]
  /\ lim' = [lim EXCEPT ![w].at = "take"]
  /\ UNCHANGED <<setting, slot, whole, tune>>

\* The swap loop that takes one token, or reports there is none.
TakeToken(w) ==
  /\ At(w, "take")
  /\ IF Mine(w).tokens > 0
     THEN /\ bucket' = [bucket EXCEPT ![lim[w].id].tokens = @ - 1,
                                      ![lim[w].id].granted = @ + 1]
          /\ lim' = [lim EXCEPT ![w] = Resting]
     ELSE /\ lim' = [lim EXCEPT ![w] = [Resting EXCEPT !.ok = FALSE]]
          /\ UNCHANGED bucket
  /\ UNCHANGED <<setting, slot, whole, tune>>

-----------------------------------------------------------------------------
(* The configuration goroutine: UpdateRate, SetRouteMaxTokens and          *)
(* SetGlobalMaxTokens, which handleConfigUpdate calls in this order.       *)

\* UpdateRate, under cfgMu: the default rates change at once.
UpdateRate(s) ==
  /\ tune.call = "rest"
  /\ setting' = [setting EXCEPT !.rate = s.rate, !.refresh = s.refresh]
  /\ tune' = [tune EXCEPT !.call = "rate", !.todo = Keys, !.want = s]
  /\ UNCHANGED <<bucket, slot, whole, lim>>

\* refreshDimBuckets reads the table shard by shard.
PickBucket(k) ==
  /\ tune.step = "pick" /\ k \in tune.todo
  /\ tune' = IF slot[k] = None THEN [tune EXCEPT !.todo = @ \ {k}]
             ELSE [tune EXCEPT !.todo = @ \ {k}, !.key = k, !.id = slot[k],
                               !.step = "max"]
  /\ UNCHANGED <<setting, bucket, slot, whole, lim>>

\* updateParams: the three stores, then the loop that cuts the tokens.
StoreMax ==
  /\ tune.step = "max"
  /\ LET rate == DimRate(setting, tune.key) IN
     bucket' = [bucket EXCEPT ![tune.id].max = rate,
                              ![tune.id].peak = IF rate > @ THEN rate ELSE @]
  /\ tune' = [tune EXCEPT !.step = "burst"]
  /\ UNCHANGED <<setting, slot, whole, lim>>

StoreBurst ==
  /\ tune.step = "burst"
  /\ bucket' = [bucket EXCEPT ![tune.id].burst = 2 * DimRate(setting, tune.key),
                              ![tune.id].refresh = setting.refresh]
  /\ tune' = [tune EXCEPT !.step = "cut"]
  /\ UNCHANGED <<setting, slot, whole, lim>>

CutTokens ==
  /\ tune.step = "cut"
  /\ bucket' = [bucket EXCEPT ![tune.id].tokens = MinOf(@, 2 * DimRate(setting, tune.key))]
  /\ tune' = [tune EXCEPT !.step = "pick", !.key = None, !.id = None]
  /\ UNCHANGED <<setting, slot, whole, lim>>

\* UpdateRate ends with a fresh global bucket; SetRouteMaxTokens follows.
SetRouteMaxTokens ==
  /\ tune.call = "rate" /\ tune.step = "pick" /\ tune.todo = {}
  /\ Allocate(GlobalRate(setting), setting.refresh) /\ whole' = Fresh
  /\ setting' = [setting EXCEPT !.route = tune.want.route]
  /\ tune' = [tune EXCEPT !.call = "route", !.todo = RouteKeys]
  /\ UNCHANGED <<slot, lim>>

SetGlobalMaxTokens ==
  /\ tune.call = "route" /\ tune.step = "pick" /\ tune.todo = {}
  /\ setting' = [setting EXCEPT !.global = tune.want.global]
  /\ Allocate(GlobalRate(setting'), setting.refresh) /\ whole' = Fresh
  /\ tune' = [tune EXCEPT !.call = "rest"]
  /\ UNCHANGED <<slot, lim>>

TuneStep == \/ \E k \in Keys : PickBucket(k)
            \/ StoreMax \/ StoreBurst \/ CutTokens
            \/ SetRouteMaxTokens \/ SetGlobalMaxTokens

\* cleanup, under the shard's lock: a worker may still hold the bucket.
Cleanup(k) ==
  /\ slot[k] # None
  /\ now - bucket[slot[k]].last > IdleTime
  /\ slot' = [slot EXCEPT ![k] = None]
  /\ UNCHANGED <<setting, bucket, whole, lim, tune>>

-----------------------------------------------------------------------------
BucketType == [max: Nat, burst: Nat, refresh: Nat \ {0}, tokens: Int, last: Nat,
               born: Nat, peak: Nat, granted: Nat]

LimiterTypeOK ==
  /\ setting \in [rate: Nat \ {0}, refresh: Nat \ {0}, route: Nat, global: Nat]
  /\ DOMAIN bucket \subseteq BucketIds /\ bucket \in [DOMAIN bucket -> BucketType]
  /\ slot \in [Keys -> DOMAIN bucket \cup {None}] /\ whole \in DOMAIN bucket

\* tryConsume never hands out more than the bucket was given: the initial
\* rate, and one rate for each whole (shortest) refresh period since,
\* whatever the interleaving of refills, takes and parameter updates
\* (ratelimit.go:84 "only one goroutine performs the refill").
GrantBound ==
  \A id \in DOMAIN bucket, s \in Settings :
    (\A t \in Settings : s.refresh <= t.refresh) =>
      bucket[id].granted <= bucket[id].peak * (1 + (now - bucket[id].born) \div s.refresh)

\* Tokens are never negative, and never above twice the highest rate the
\* bucket has had, although refills use a burst loaded before an update.
TokensInRange ==
  \A id \in DOMAIN bucket : /\ bucket[id].tokens >= 0
                            /\ bucket[id].tokens <= 2 * bucket[id].peak
=============================================================================
