-------------------------- MODULE RewardLoopProofs --------------------------
(***************************************************************************)
(* Theorems about RewardLoop, for every number of items and workers, every *)
(* rate, capacity, cost, concurrency and delay:                            *)
(*                                                                         *)
(*   - a bucket keeps its rate, and nobody oversleeps (BucketInv);         *)
(*   - no permit of the semaphore is lost, and a coroutine compute_score   *)
(*     runs at most max_concurrent times at once (SlotsKept);              *)
(*   - a batch returns complete or fails for one of the causes the code    *)
(*     has (BatchOutcome).                                                 *)
(*                                                                         *)
(* The invariants are about numbers of requests in a phase, so the proofs  *)
(* follow how each action changes those sets.                              *)
(***************************************************************************)
EXTENDS RewardLoop, FiniteSetTheorems, TLAPS

\* What a request is: its place, its sleep and when it may go on.
RequestType ==
    [phase : {"rpm", "tpm", "sem", "call", "post", "done", "raised"},
     sleep : {"no", "retry", "paid", "pause"}, ready : Nat, start : Nat,
     attempt : 0..MaxRetries,
     outcome : {"none", "score", "number", "dict", "acc_dict", "timeout",
                "error", "client", "server", "format", "engine"}]

\* How a call of compute_score may end,
CallOutcomes == {"number", "dict", "acc_dict", "timeout", "error"}

\* and why an item scored by the reward model raises.
RaisedWhy(q, engine) ==
    IF engine = "other" THEN q.outcome = "engine"
    ELSE \/ q.outcome \in {"client", "format"}
         \/ q.outcome = "server" /\ q.attempt = MaxRetries

\* A request that waits in a bucket is in the phase of a bucket, and has
\* attempts left while it posts.
ShapeInv ==
    /\ conf \in Configurations /\ now \in Nat
    /\ bucket \in [Workers -> [Buckets -> [tokens : Int, last : Nat]]]
    /\ \A w \in Workers, b \in Buckets :
          bucket[w][b].tokens <= MaxTokens[b] /\ bucket[w][b].last <= now
    /\ permits \in [Workers -> Nat]
    /\ threads \subseteq Requests
    /\ req \in [Requests -> RequestType]
    /\ granted \in [Workers -> [Buckets -> Nat]]
    /\ batch \in {"running", "returned", "failed"} /\ awake \in BOOLEAN
    /\ \A r \in Requests :
          /\ req[r].sleep \in {"retry", "paid"} => req[r].phase \in Buckets
          /\ req[r].phase = "post" => req[r].attempt < MaxRetries

\* Request r has paid at bucket b of worker w and sleeps until it may go on.
IsPaid(r, w, b) == WorkerOf(r) = w /\ req[r].phase = b /\ req[r].sleep = "paid"

\* Requests whose tokens are taken and that still sleep.
Paid(w, b) == {r \in Requests : IsPaid(r, w, b)}
\* Those whose sleep is over at time t.
PaidBy(w, b, t) == {r \in Requests : IsPaid(r, w, b) /\ req[r].ready <= t}

\* What was taken from the bucket is what it could hold and was refilled with.
Balanced(w, b) ==
    granted[w][b] + Cost(b) * Cardinality(Paid(w, b)) + bucket[w][b].tokens
        <= MaxTokens[b] + Rate[b] * bucket[w][b].last

\* Those who have their tokens at time t were paid for by then.
Timely(w, b) ==
    \A t \in Nat : t >= now =>
        granted[w][b] + Cost(b) * Cardinality(PaidBy(w, b, t)) <= MaxTokens[b] + Rate[b] * t

\* Every bucket is balanced and timely.
RateInv == \A w \in Workers, b \in Buckets : Balanced(w, b) /\ Timely(w, b)

\* Permits are with the semaphore or with a call.
PermitInv == \A w \in Workers : permits[w] + Cardinality(Calling(w)) = MaxConcurrent

\* A thread is left behind by a timeout of a synchronous compute_score.
ThreadInv ==
    \A r \in threads : ~conf.is_async /\ req[r].phase = "done" /\ req[r].outcome = "timeout"

\* What an ended request says, and which phases a configuration has.
EndedInv ==
    \A r \in Requests :
        /\ req[r].phase = "done" =>
              req[r].outcome \in IF conf.rm = "disrm" THEN {"score"} ELSE CallOutcomes
        /\ req[r].phase = "raised" => RaisedWhy(req[r], conf.engine)
        /\ conf.rm = "disrm" => req[r].phase \in {"post", "done", "raised"}
        /\ conf.rm # "disrm" => req[r].phase \notin {"post", "raised"}

\* With the rate limiter a batch ends when all its items have.
GatheredInv == batch = "returned" \/ (batch = "failed" /\ conf.rm # "disrm") => Gathered

\* Why a request, and why the batch, ended.
OutcomeInv == EndedInv /\ GatheredInv /\ ReturnedComplete /\ FailureCause

-----------------------------------------------------------------------------
(* Numbers                                                                  *)

\* A number divided is the quotient, and a remainder less than the divisor.
LEMMA DivSplit ==
    ASSUME NEW v \in Nat, NEW F \in Nat \ {0}
    PROVE  /\ v \div F \in Nat
           /\ F * (v \div F) \in Nat
           /\ F * (v \div F) <= v /\ v < F * (v \div F) + F
<1>1. v \div F \in Int /\ v = F * (v \div F) + (v % F) /\ v % F \in 0..(F - 1)
  OBVIOUS
<1>2. F * (v \div F) \in Int
  BY <1>1
<1>3. F * (v \div F) <= v /\ v < F * (v \div F) + F
  BY <1>1, <1>2
<1>4. v \div F >= 0
  <2>1. \A d \in Int : d <= -1 => F * d <= -F
    OBVIOUS
  <2>2. QED
    BY <1>1, <1>3, <2>1
<1>5. F * (v \div F) >= 0
  BY <1>1, <1>4
<1>6. QED
  BY <1>1, <1>2, <1>3, <1>4, <1>5

\* Scaling keeps the order.
LEMMA ScaleOrder ==
    ASSUME NEW c \in Nat, NEW m \in Int, NEW n \in Int, m <= n
    PROVE  c * m \in Int /\ c * n \in Int /\ c * m <= c * n
<1>1. c * (n - m) >= 0
  OBVIOUS
<1>2. c * (n - m) = c * n - c * m /\ c * m \in Int /\ c * n \in Int
  OBVIOUS
<1>3. QED
  BY <1>1, <1>2

\* ceil(a / b) is the least number that is enough.
LEMMA CeilFacts ==
    ASSUME NEW a \in Nat \ {0}, NEW b \in Nat \ {0}
    PROVE  /\ CeilDiv(a, b) \in Nat /\ b * CeilDiv(a, b) \in Nat
           /\ a <= b * CeilDiv(a, b) /\ b * CeilDiv(a, b) < a + b
<1>1. a + b - 1 \in Nat
  OBVIOUS
<1>2. /\ (a + b - 1) \div b \in Nat /\ b * ((a + b - 1) \div b) \in Nat
      /\ b * ((a + b - 1) \div b) <= a + b - 1
      /\ a + b - 1 < b * ((a + b - 1) \div b) + b
  BY <1>1, DivSplit
<1>3. CeilDiv(a, b) = (a + b - 1) \div b
  BY DEF CeilDiv
<1> HIDE DEF CeilDiv
<1>4. QED
  BY <1>2, <1>3

\* Every item has a worker.
LEMMA WorkerOfType ==
    ASSUME conf \in Configurations, NEW r \in Requests
    PROVE  WorkerOf(r) \in Workers
<1> DEFINE n == conf.num_workers
           m == Items \div n
           q == (r - 1) \div m
<1>1. /\ n \in 1..Items /\ Items % n = 0 /\ Items \in Nat \ {0} /\ r \in 1..Items
  BY RewardAssumption DEF Configurations, Requests
<1>2. n \in Nat \ {0} /\ m \in Int /\ Items = n * m + (Items % n)
  BY <1>1
<1> HIDE DEF n, m
<1>3. Items = n * m
  <2>1. n * m \in Int
    BY <1>2
  <2>2. QED
    BY <1>1, <1>2, <2>1
<1>4. m \in Nat \ {0}
  <2>1. \A d \in Int : d <= 0 => n * d <= 0
    BY <1>2
  <2>2. QED
    BY <1>1, <1>2, <1>3, <2>1
<1>5. r - 1 \in Nat /\ r - 1 < Items
  BY <1>1
<1>6. q \in Nat /\ m * q \in Nat /\ m * q <= r - 1
  BY <1>4, <1>5, DivSplit
<1> HIDE DEF q
<1>7. q < n
  <2> SUFFICES ASSUME n <= q PROVE FALSE
    BY <1>2, <1>6
  <2>1. m * n <= m * q
    BY <1>2, <1>4, <1>6, ScaleOrder
  <2>2. m * n = n * m
    BY <1>2, <1>4
  <2>3. QED
    BY <1>1, <1>3, <1>5, <1>6, <2>1, <2>2
<1>8. WorkerOf(r) = q + 1
  BY DEF WorkerOf, q, m, n
<1>9. QED
  BY <1>2, <1>6, <1>7, <1>8 DEF Workers, n

\* What the constants and the choices of a configuration are.
LEMMA ConstantTypes ==
    ASSUME conf \in Configurations
    PROVE  /\ \A b \in Buckets : /\ MaxTokens[b] \in Nat \ {0} /\ Rate[b] \in Nat \ {0}
                                 /\ Cost(b) \in Nat \ {0}
           /\ MaxConcurrent \in Nat \ {0} /\ Timeout \in Nat /\ MaxRetries \in Nat \ {0}
           /\ LoopDelay \in Nat /\ Items \in Nat \ {0} /\ 1 \in Requests
<1>1. conf.estimate \in Nat \ {0}
  BY RewardAssumption DEF Configurations
<1>2. QED
  BY <1>1, RewardAssumption DEF Cost, Buckets, Requests

\* A refill adds what the time since the last one is worth, up to the capacity.
LEMMA RefillFacts ==
    ASSUME NEW k \in [tokens : Int, last : Nat], NEW max \in Nat, NEW rate \in Nat,
           NEW t \in Nat, k.last <= t, k.tokens <= max
    PROVE  /\ Refill(k, max, rate, t) \in [tokens : Int, last : Nat]
           /\ Refill(k, max, rate, t).last = t
           /\ Refill(k, max, rate, t).tokens <= max
           /\ Refill(k, max, rate, t).tokens <= k.tokens + rate * (t - k.last)
<1> DEFINE grown == k.tokens + (t - k.last) * rate
<1>1. grown \in Int /\ grown = k.tokens + rate * (t - k.last)
  OBVIOUS
<1> HIDE DEF grown
<1>2. Refill(k, max, rate, t) = [tokens |-> IF grown < max THEN grown ELSE max, last |-> t]
  BY DEF Refill, grown
<1>3. CASE grown < max
  BY <1>1, <1>2, <1>3
<1>4. CASE ~(grown < max)
  BY <1>1, <1>2, <1>4
<1>5. QED
  BY <1>3, <1>4

-----------------------------------------------------------------------------
(* What the actions do                                                      *)

\* The bucket a request meets, and when it would wake.
Met(r, b) == Refill(bucket[WorkerOf(r)][b], MaxTokens[b], Rate[b], now)

\* The bucket as a request finds it, refilled, and after it took its tokens.
LEMMA MetFacts ==
    ASSUME ShapeInv, NEW r \in Requests, NEW b \in Buckets
    PROVE  /\ WorkerOf(r) \in Workers
           /\ bucket[WorkerOf(r)][b] \in [tokens : Int, last : Nat]
           /\ Met(r, b) \in [tokens : Int, last : Nat] /\ Met(r, b).last = now
           /\ Met(r, b).tokens <= MaxTokens[b]
           /\ Met(r, b).tokens <= bucket[WorkerOf(r)][b].tokens
                                    + Rate[b] * (now - bucket[WorkerOf(r)][b].last)
           /\ Take(Met(r, b), Cost(b)) \in [tokens : Int, last : Nat]
           /\ Take(Met(r, b), Cost(b)).tokens = Met(r, b).tokens - Cost(b)
           /\ Take(Met(r, b), Cost(b)).last = now
<1> DEFINE w == WorkerOf(r)
<1>1. w \in Workers
  BY WorkerOfType DEF ShapeInv
<1>2. /\ bucket[w][b] \in [tokens : Int, last : Nat]
      /\ bucket[w][b].last <= now /\ bucket[w][b].tokens <= MaxTokens[b] /\ now \in Nat
  BY <1>1 DEF ShapeInv
<1>3. MaxTokens[b] \in Nat /\ Rate[b] \in Nat /\ Cost(b) \in Nat
  BY ConstantTypes DEF ShapeInv
<1> HIDE DEF w
<1>4. /\ Refill(bucket[w][b], MaxTokens[b], Rate[b], now) \in [tokens : Int, last : Nat]
      /\ Refill(bucket[w][b], MaxTokens[b], Rate[b], now).last = now
      /\ Refill(bucket[w][b], MaxTokens[b], Rate[b], now).tokens <= MaxTokens[b]
      /\ Refill(bucket[w][b], MaxTokens[b], Rate[b], now).tokens
            <= bucket[w][b].tokens + Rate[b] * (now - bucket[w][b].last)
  BY <1>2, <1>3, RefillFacts
<1>5. Met(r, b) = Refill(bucket[w][b], MaxTokens[b], Rate[b], now)
  BY DEF Met, w
<1> HIDE DEF Met
<1>6. /\ Met(r, b) \in [tokens : Int, last : Nat] /\ Met(r, b).last = now
      /\ Met(r, b).tokens <= MaxTokens[b]
      /\ Met(r, b).tokens <= bucket[w][b].tokens + Rate[b] * (now - bucket[w][b].last)
  BY <1>4, <1>5
<1>7. /\ Take(Met(r, b), Cost(b)) \in [tokens : Int, last : Nat]
      /\ Take(Met(r, b), Cost(b)).tokens = Met(r, b).tokens - Cost(b)
      /\ Take(Met(r, b), Cost(b)).last = now
  BY <1>3, <1>6 DEF Take
<1>8. QED
  BY <1>1, <1>2, <1>6, <1>7 DEF w

\* A request that finds too few tokens wakes when the bucket, left alone, has
\* them, and not a tick later.
LEMMA WakeFacts ==
    ASSUME ShapeInv, NEW r \in Requests, NEW b \in Buckets, Met(r, b).tokens < Cost(b)
    PROVE  /\ WakeFor(Met(r, b), Rate[b], Cost(b), now) \in Nat
           /\ Rate[b] * (WakeFor(Met(r, b), Rate[b], Cost(b), now) - now) \in Nat
           /\ Cost(b) <= Met(r, b).tokens
                           + Rate[b] * (WakeFor(Met(r, b), Rate[b], Cost(b), now) - now)
           /\ Met(r, b).tokens + Rate[b] * (WakeFor(Met(r, b), Rate[b], Cost(b), now) - now)
                < Cost(b) + Rate[b]
<1> DEFINE short == Cost(b) - Met(r, b).tokens
           c == CeilDiv(short, Rate[b])
<1>1. Rate[b] \in Nat \ {0} /\ Cost(b) \in Nat /\ now \in Nat
  BY ConstantTypes DEF ShapeInv
<1>2. Met(r, b).tokens \in Int
  <2>1. Met(r, b) \in [tokens : Int, last : Nat]
    BY MetFacts
  <2>2. QED
    BY <2>1
<1>3. short \in Nat \ {0}
  BY <1>1, <1>2
<1> HIDE DEF Met
<1>4. /\ c \in Nat /\ Rate[b] * c \in Nat /\ short <= Rate[b] * c
      /\ Rate[b] * c < short + Rate[b]
  BY <1>1, <1>3, CeilFacts
<1>5. WakeFor(Met(r, b), Rate[b], Cost(b), now) = now + c
  BY DEF WakeFor
<1>6. c \in Nat /\ (now + c) - now = c
  BY <1>1, <1>4
<1> HIDE DEF c
<1>7. QED
  BY <1>1, <1>2, <1>4, <1>5, <1>6

\* A request takes its tokens, or its turn to wait, in one bucket.
LEMMA BucketChange ==
    ASSUME ShapeInv, NEW w \in Workers, NEW b \in Buckets,
           NEW x \in [tokens : Int, last : Nat], x.tokens <= MaxTokens[b], x.last = now,
           bucket' = [bucket EXCEPT ![w][b] = x], UNCHANGED <<conf, now>>
    PROVE  /\ bucket' \in [Workers -> [Buckets -> [tokens : Int, last : Nat]]]
           /\ bucket'[w][b] = x
           /\ \A v \in Workers, c \in Buckets :
                 /\ v # w \/ c # b => bucket'[v][c] = bucket[v][c]
                 /\ bucket'[v][c].tokens <= MaxTokens[c] /\ bucket'[v][c].last <= now
<1>1. /\ bucket \in [Workers -> [Buckets -> [tokens : Int, last : Nat]]]
      /\ \A v \in Workers, c \in Buckets :
            bucket[v][c].tokens <= MaxTokens[c] /\ bucket[v][c].last <= now
      /\ now \in Nat
  BY DEF ShapeInv
<1>2. bucket' \in [Workers -> [Buckets -> [tokens : Int, last : Nat]]]
  BY <1>1
<1>3. /\ bucket'[w][b] = x
      /\ \A v \in Workers, c \in Buckets : v # w \/ c # b => bucket'[v][c] = bucket[v][c]
  BY <1>1
<1>4. QED
  BY <1>1, <1>2, <1>3

\* What a grant may change,
GrantedChange(w, b) ==
    /\ granted' \in [Workers -> [Buckets -> Nat]]
    /\ granted'[w][b] = granted[w][b] + Cost(b)
    /\ \A v \in Workers, c \in Buckets : v # w \/ c # b => granted'[v][c] = granted[v][c]

\* and what a step of a request may change.
RequestChange(r) ==
    /\ req' \in [Requests -> RequestType]
    /\ \A x \in Requests : x # r => req'[x] = req[x]

\* An update of one request leaves the others alone.
LEMMA RequestUpdate ==
    ASSUME ShapeInv, NEW r \in Requests, NEW y \in RequestType, req' = [req EXCEPT ![r] = y]
    PROVE  RequestChange(r) /\ req'[r] = y
  BY DEF ShapeInv, RequestChange

\* acquire returns.
LEMMA GrantFacts ==
    ASSUME ShapeInv, NEW r \in Requests, NEW b \in Buckets, req[r].phase = b, Grant(r, b)
    PROVE  /\ GrantedChange(WorkerOf(r), b) /\ RequestChange(r)
           /\ req'[r].phase \in {"tpm", "sem"} /\ req'[r].phase # b
           /\ req'[r].sleep = "no" /\ req'[r].outcome = req[r].outcome
<1>1. /\ WorkerOf(r) \in Workers /\ Cost(b) \in Nat /\ now \in Nat
      /\ granted \in [Workers -> [Buckets -> Nat]] /\ req \in [Requests -> RequestType]
  BY WorkerOfType, ConstantTypes DEF ShapeInv
<1>2. /\ granted' = [granted EXCEPT ![WorkerOf(r)][b] = @ + Cost(b)]
      /\ req' = [req EXCEPT ![r].phase = NextPhase(@), ![r].sleep = "no", ![r].ready = now]
  BY DEF Grant
<1>3. GrantedChange(WorkerOf(r), b)
  BY <1>1, <1>2 DEF GrantedChange
<1>4. NextPhase(req[r].phase) \in {"tpm", "sem"} /\ NextPhase(req[r].phase) # b
  BY DEF NextPhase, Buckets
<1>5. /\ req'[r].phase = NextPhase(req[r].phase) /\ req'[r].sleep = "no"
      /\ req'[r].outcome = req[r].outcome
  BY <1>1, <1>2 DEF RequestType
<1>6. RequestChange(r)
  <2> DEFINE y == [req[r] EXCEPT !.phase = NextPhase(@), !.sleep = "no", !.ready = now]
  <2>1. y \in RequestType
    BY <1>1, <1>4 DEF RequestType
  <2>2. req' = [req EXCEPT ![r] = y]
    BY <1>1, <1>2
  <2>3. QED
    BY <2>1, <2>2, RequestUpdate
<1>7. QED
  BY <1>3, <1>4, <1>5, <1>6

\* acquire goes to sleep, for a retry or with its tokens taken.
LEMMA SleepFacts ==
    ASSUME ShapeInv, NEW r \in Requests, NEW s \in {"retry", "paid"}, NEW t \in Nat,
           req' = [req EXCEPT ![r].sleep = s, ![r].ready = t]
    PROVE  /\ RequestChange(r) /\ req'[r].phase = req[r].phase
           /\ req'[r].sleep = s /\ req'[r].ready = t /\ req'[r].outcome = req[r].outcome
<1> DEFINE y == [req[r] EXCEPT !.sleep = s, !.ready = t]
<1>1. req \in [Requests -> RequestType] /\ req[r] \in RequestType
  BY DEF ShapeInv
<1>2. /\ y \in RequestType /\ y.phase = req[r].phase /\ y.sleep = s /\ y.ready = t
      /\ y.outcome = req[r].outcome
  BY <1>1 DEF RequestType
<1>3. req' = [req EXCEPT ![r] = y]
  BY <1>1
<1> HIDE DEF y
<1>4. QED
  BY <1>2, <1>3, RequestUpdate

\* The outcomes of acquire under the lock.
StandardGrant(r, b) ==
    /\ req[r].phase = b /\ req[r].sleep # "paid" /\ Met(r, b).tokens >= Cost(b)
    /\ bucket' = [bucket EXCEPT ![WorkerOf(r)][b] = Take(Met(r, b), Cost(b))]
    /\ Grant(r, b)
    /\ UNCHANGED <<conf, now, permits, threads, batch, awake>>

\* or sleep and try again,
StandardSleep(r, b) ==
    /\ req[r].phase = b /\ req[r].sleep # "paid" /\ Met(r, b).tokens < Cost(b)
    /\ bucket' = [bucket EXCEPT ![WorkerOf(r)][b] = Met(r, b)]
    /\ req' = [req EXCEPT ![r].sleep = "retry",
                          ![r].ready = WakeFor(Met(r, b), Rate[b], Cost(b), now)]
    /\ UNCHANGED <<conf, now, permits, threads, batch, awake, granted>>

\* or pay at once and sleep the debt off,
OversizedSleep(r, b) ==
    /\ req[r].phase = b /\ req[r].sleep = "no" /\ Met(r, b).tokens < Cost(b)
    /\ bucket' = [bucket EXCEPT ![WorkerOf(r)][b] = Take(Met(r, b), Cost(b))]
    /\ req' = [req EXCEPT ![r].sleep = "paid",
                          ![r].ready = WakeFor(Met(r, b), Rate[b], Cost(b), now)]
    /\ UNCHANGED <<conf, now, permits, threads, batch, awake, granted>>

\* and return after that.
PaidReturn(r, b) ==
    /\ req[r].phase = b /\ req[r].sleep = "paid" /\ now >= req[r].ready
    /\ Grant(r, b)
    /\ UNCHANGED <<conf, now, bucket, permits, threads, batch, awake>>

\* A way through acquire.
AcquireCase(r, b) ==
    StandardGrant(r, b) \/ StandardSleep(r, b) \/ OversizedSleep(r, b) \/ PaidReturn(r, b)

\* There is no other.
LEMMA AcquireCases ==
    ASSUME ShapeInv, NEW r \in Requests, Acquire(r)
    PROVE  \E b \in Buckets : AcquireCase(r, b)
<1>1. PICK b \in Buckets :
          AcquireStandard(r, b) \/ AcquireOversized(r, b) \/ OversizedReturns(r, b)
  BY DEF Acquire
<1>2. CASE AcquireStandard(r, b)
  BY <1>2 DEF AcquireStandard, AcquireCase, StandardGrant, StandardSleep, Met
<1>3. CASE AcquireOversized(r, b)
  <2>1. Met(r, b).tokens < Cost(b)
    <3>1. Met(r, b) \in [tokens : Int, last : Nat] /\ Met(r, b).tokens <= MaxTokens[b]
      BY MetFacts
    <3>2. Cost(b) > MaxTokens[b] /\ MaxTokens[b] \in Nat /\ Cost(b) \in Nat
      BY <1>3, ConstantTypes DEF AcquireOversized, Oversized, ShapeInv
    <3>3. Met(r, b).tokens \in Int
      BY <3>1
    <3>4. QED
      BY <3>1, <3>2, <3>3
  <2>2. QED
    BY <1>3, <2>1 DEF AcquireOversized, AcquireCase, OversizedSleep, Met
<1>4. CASE OversizedReturns(r, b)
  BY <1>4 DEF OversizedReturns, AcquireCase, PaidReturn, Ready
<1>5. QED
  BY <1>1, <1>2, <1>3, <1>4

\* The actions after the buckets leave every bucket alone.
LaterChange(r) ==
    /\ RequestChange(r)
    /\ req[r].phase \notin Buckets /\ req'[r].phase \notin Buckets
    /\ req'[r].sleep \notin {"retry", "paid"}
    /\ req'[r].phase = "post" => req'[r].attempt < MaxRetries
    /\ UNCHANGED <<conf, now, bucket, granted, batch, awake>>

\* What a finished request is.
LEMMA FinishedFacts ==
    ASSUME NEW p \in {"done", "raised"},
           NEW o \in CallOutcomes \cup {"score", "client", "server", "format", "engine"},
           conf \in Configurations
    PROVE  /\ Finished(p, o) \in RequestType
           /\ Finished(p, o).phase = p /\ Finished(p, o).outcome = o
           /\ Finished(p, o).sleep = "no"
<1>1. NewRequest \in RequestType /\ NewRequest.sleep = "no" /\ NewRequest.outcome = "none"
  BY ConstantTypes DEF NewRequest, RequestType
<1>2. QED
  BY <1>1 DEF Finished, RequestType, CallOutcomes

\* A call begins.
LEMMA StartFacts ==
    ASSUME ShapeInv, NEW r \in Requests, StartCall(r)
    PROVE  /\ LaterChange(r) /\ req[r].phase = "sem" /\ req'[r].phase = "call"
           /\ req'[r].outcome = req[r].outcome
           /\ permits[WorkerOf(r)] > 0 /\ UNCHANGED threads
           /\ permits' = [permits EXCEPT ![WorkerOf(r)] = @ - 1]
<1>1. /\ req[r].phase = "sem" /\ permits[WorkerOf(r)] > 0
      /\ req' = [req EXCEPT ![r].phase = "call", ![r].start = now]
      /\ permits' = [permits EXCEPT ![WorkerOf(r)] = @ - 1]
      /\ UNCHANGED <<conf, now, bucket, threads, granted, batch, awake>>
  BY DEF StartCall
<1> DEFINE y == [req[r] EXCEPT !.phase = "call", !.start = now]
<1>2. /\ req \in [Requests -> RequestType] /\ req[r] \in RequestType /\ now \in Nat
      /\ req[r].sleep \notin {"retry", "paid"}
  BY <1>1 DEF ShapeInv, Buckets
<1>3. /\ y \in RequestType /\ y.phase = "call" /\ y.sleep = req[r].sleep
      /\ y.outcome = req[r].outcome
  BY <1>2 DEF RequestType
<1>4. req' = [req EXCEPT ![r] = y]
  BY <1>1, <1>2
<1> HIDE DEF y
<1>5. RequestChange(r) /\ req'[r] = y
  BY <1>3, <1>4, RequestUpdate
<1>6. QED
  BY <1>1, <1>2, <1>3, <1>5 DEF LaterChange, Buckets

\* A call ends.
LEMMA EndCallFacts ==
    ASSUME ShapeInv, NEW r \in Requests, NEW o \in CallOutcomes,
           EndCall(r, o)
    PROVE  /\ LaterChange(r) /\ req[r].phase = "call" /\ req'[r].phase = "done"
           /\ req'[r].outcome = o
           /\ permits' = [permits EXCEPT ![WorkerOf(r)] = @ + 1]
<1>1. /\ req[r].phase = "call" /\ req' = [req EXCEPT ![r] = Finished("done", o)]
      /\ permits' = [permits EXCEPT ![WorkerOf(r)] = @ + 1]
      /\ UNCHANGED <<conf, now, bucket, granted, batch, awake>>
  BY DEF EndCall
<1>2. /\ Finished("done", o) \in RequestType /\ Finished("done", o).phase = "done"
      /\ Finished("done", o).outcome = o /\ Finished("done", o).sleep = "no"
  BY FinishedFacts DEF ShapeInv
<1>3. RequestChange(r) /\ req'[r] = Finished("done", o)
  BY <1>1, <1>2, RequestUpdate
<1>4. QED
  BY <1>1, <1>2, <1>3 DEF LaterChange, Buckets

\* What the end of a call does to its request.
LEMMA CallEndFacts ==
    ASSUME ShapeInv, NEW r \in Requests, CallEnds(r) \/ CallTimesOut(r)
    PROVE  /\ LaterChange(r) /\ req[r].phase = "call" /\ req'[r].phase = "done"
           /\ req'[r].outcome \in CallOutcomes
           /\ permits' = [permits EXCEPT ![WorkerOf(r)] = @ + 1]
           /\ \/ threads' = threads
              \/ /\ threads' = threads \cup {r} /\ ~conf.is_async
                 /\ req'[r].outcome = "timeout"
<1>1. CASE CallEnds(r)
  <2>1. PICK o \in CallOutcomes : EndCall(r, o)
    BY <1>1 DEF CallEnds, CallOutcomes
  <2>2. threads' = threads
    BY <1>1 DEF CallEnds
  <2>3. QED
    BY <2>1, <2>2, EndCallFacts
<1>2. CASE CallTimesOut(r)
  <2>1. /\ EndCall(r, "timeout")
        /\ threads' = threads \/ (threads' = threads \cup {r} /\ ~conf.is_async)
    BY <1>2 DEF CallTimesOut
  <2>2. QED
    BY <2>1, EndCallFacts DEF CallOutcomes
<1>3. QED
  BY <1>1, <1>2

\* A pause is a number of ticks.
LEMMA PauseType ==
    ASSUME NEW attempt \in 0..MaxRetries
    PROVE  Pause(attempt) \in Nat
<1>1. 2^attempt \in Nat /\ MaxPause \in Nat
  BY BackoffAssumption, RewardAssumption
<1>2. QED
  BY <1>1 DEF Pause

\* A request that waits for its next attempt.
Delayed(q, a, t, e) ==
    [q EXCEPT !.attempt = a, !.sleep = "pause", !.ready = t, !.outcome = e]

\* What a back-off does to it.
LEMMA DelayedFacts ==
    ASSUME NEW a \in 0..MaxRetries, NEW t \in Nat, NEW q \in RequestType,
           NEW e \in {"client", "server"}
    PROVE  /\ Delayed(q, a, t, e) \in RequestType /\ Delayed(q, a, t, e).phase = q.phase
           /\ Delayed(q, a, t, e).sleep = "pause" /\ Delayed(q, a, t, e).attempt = a
  BY DEF RequestType, Delayed

\* An attempt to post returns or fails.
LEMMA PostFacts ==
    ASSUME ShapeInv, NEW r \in Requests, PostReturns(r) \/ PostFails(r) \/ EngineRaises(r)
    PROVE  /\ LaterChange(r) /\ req[r].phase = "post" /\ UNCHANGED <<threads, permits>>
           /\ \/ req'[r].phase = "done" /\ req'[r].outcome = "score"
              \/ req'[r].phase = "raised" /\ RaisedWhy(req'[r], conf.engine)
              \/ req'[r].phase = "post"
<1>0. /\ req[r] \in RequestType /\ req[r].attempt \in 0..MaxRetries /\ now \in Nat
      /\ conf \in Configurations /\ MaxRetries \in Nat
      /\ req \in [Requests -> RequestType]
      /\ req[r].phase = "post" => req[r].attempt < MaxRetries
  BY RewardAssumption DEF ShapeInv, RequestType
<1>1. ASSUME NEW p \in {"done", "raised"}, NEW o \in {"score", "format", "engine"},
             req[r].phase = "post", req' = [req EXCEPT ![r] = Finished(p, o)],
             UNCHANGED <<conf, now, bucket, permits, threads, granted, batch, awake>>
      PROVE  LaterChange(r) /\ req'[r].phase = p /\ req'[r].outcome = o
  <2>1. /\ Finished(p, o) \in RequestType /\ Finished(p, o).phase = p
        /\ Finished(p, o).outcome = o /\ Finished(p, o).sleep = "no"
    BY <1>0, FinishedFacts
  <2>2. RequestChange(r) /\ req'[r] = Finished(p, o)
    BY <1>1, <2>1, RequestUpdate
  <2>3. QED
    BY <1>1, <2>1, <2>2 DEF LaterChange, Buckets
<1>3. CASE PostReturns(r)
  <2>1. /\ req[r].phase = "post" /\ conf.engine = "sglang"
        /\ UNCHANGED <<conf, now, bucket, permits, threads, granted, batch, awake>>
    BY <1>3 DEF PostReturns, Posting
  <2>2. CASE req' = [req EXCEPT ![r] = Finished("done", "score")]
    <3>1. LaterChange(r) /\ req'[r].phase = "done" /\ req'[r].outcome = "score"
      BY <1>1, <2>1, <2>2
    <3>2. QED
      BY <2>1, <3>1
  <2>3. CASE req' = [req EXCEPT ![r] = Finished("raised", "format")]
    <3>1. LaterChange(r) /\ req'[r].phase = "raised" /\ req'[r].outcome = "format"
      BY <1>1, <2>1, <2>3
    <3>2. QED
      BY <2>1, <3>1 DEF RaisedWhy
  <2>4. QED
    BY <1>3, <2>2, <2>3 DEF PostReturns
<1>4. CASE EngineRaises(r)
  <2>1. /\ req[r].phase = "post" /\ conf.engine = "other"
        /\ req' = [req EXCEPT ![r] = Finished("raised", "engine")]
        /\ UNCHANGED <<conf, now, bucket, permits, threads, granted, batch, awake>>
    BY <1>4 DEF EngineRaises
  <2>2. LaterChange(r) /\ req'[r].phase = "raised" /\ req'[r].outcome = "engine"
    BY <1>1, <2>1
  <2>3. QED
    BY <2>1, <2>2 DEF RaisedWhy
<1>2. CASE PostFails(r)
  <2> DEFINE Raised(e) == [Finished("raised", e) EXCEPT !.attempt = req[r].attempt + 1]
             Again(e) == [req[r] EXCEPT !.attempt = req[r].attempt + 1, !.sleep = "pause",
                                        !.ready = now + Pause(req[r].attempt),
                                        !.outcome = e]
             y(e) == IF ~RetryOn(e) \/ req[r].attempt + 1 = MaxRetries
                     THEN Raised(e) ELSE Again(e)
  <2>1. PICK e \in {"client", "server"} : req' = [req EXCEPT ![r] = y(e)]
    BY <1>2 DEF PostFails
  <2>2. /\ req[r].phase = "post" /\ conf.engine = "sglang"
        /\ UNCHANGED <<conf, now, bucket, permits, threads, granted, batch, awake>>
    BY <1>2 DEF PostFails, Posting
  <2>3. req[r].attempt + 1 \in 0..MaxRetries /\ Pause(req[r].attempt) \in Nat
    BY <1>0, <2>2, PauseType
  <2>4. /\ Raised(e) \in RequestType /\ Raised(e).phase = "raised"
        /\ Raised(e).outcome = e /\ Raised(e).attempt = req[r].attempt + 1
        /\ Raised(e).sleep = "no"
    <3>1. /\ Finished("raised", e) \in RequestType /\ Finished("raised", e).phase = "raised"
          /\ Finished("raised", e).outcome = e /\ Finished("raised", e).sleep = "no"
      BY <1>0, FinishedFacts
    <3> HIDE DEF Finished
    <3>2. QED
      BY <2>3, <3>1 DEF RequestType
  <2>5. /\ Again(e) \in RequestType /\ Again(e).phase = "post" /\ Again(e).sleep = "pause"
        /\ Again(e).attempt = req[r].attempt + 1
    <3>1. now + Pause(req[r].attempt) \in Nat
      BY <1>0, <2>3
    <3> HIDE DEF Again
    <3>2. Again(e) = Delayed(req[r], req[r].attempt + 1, now + Pause(req[r].attempt), e)
      BY DEF Again, Delayed
    <3>3. QED
      BY <1>0, <2>2, <2>3, <3>1, <3>2, DelayedFacts
  <2> HIDE DEF Raised, Again
  <2>6. CASE ~RetryOn(e) \/ req[r].attempt + 1 = MaxRetries
    <3>1. req' = [req EXCEPT ![r] = Raised(e)]
      BY <2>1, <2>6
    <3>2. RequestChange(r) /\ req'[r] = Raised(e)
      BY <2>4, <3>1, RequestUpdate
    <3>3. e = "client" \/ req[r].attempt + 1 = MaxRetries
      BY <2>6 DEF RetryOn
    <3>4. QED
      BY <2>2, <2>4, <3>2, <3>3 DEF LaterChange, Buckets, RaisedWhy
  <2>7. CASE ~(~RetryOn(e) \/ req[r].attempt + 1 = MaxRetries)
    <3>1. req' = [req EXCEPT ![r] = Again(e)]
      BY <2>1, <2>7
    <3>2. RequestChange(r) /\ req'[r] = Again(e)
      BY <2>5, <3>1, RequestUpdate
    <3>3. req[r].attempt + 1 < MaxRetries
      BY <1>0, <2>2, <2>7
    <3>4. QED
      BY <2>2, <2>5, <3>2, <3>3 DEF LaterChange, Buckets
  <2>8. QED
    BY <2>6, <2>7
<1>5. QED
  BY <1>2, <1>3, <1>4

-----------------------------------------------------------------------------
(* Types                                                                    *)

\* The initial state.
LEMMA ShapeInit == Init => ShapeInv
<1> SUFFICES ASSUME Init PROVE ShapeInv
  OBVIOUS
<1>1. conf \in Configurations /\ now = 0 /\ now \in Nat
  BY DEF Init
<1>2. /\ \A b \in Buckets : MaxTokens[b] \in Nat \ {0}
      /\ MaxConcurrent \in Nat /\ MaxRetries \in Nat \ {0}
  BY <1>1, ConstantTypes
<1>3. /\ bucket \in [Workers -> [Buckets -> [tokens : Int, last : Nat]]]
      /\ \A w \in Workers, b \in Buckets :
            bucket[w][b].tokens <= MaxTokens[b] /\ bucket[w][b].last <= now
  BY <1>1, <1>2 DEF Init, Full
<1>4. permits \in [Workers -> Nat] /\ granted \in [Workers -> [Buckets -> Nat]]
  BY <1>2 DEF Init
<1>5. NewRequest \in RequestType /\ NewRequest.sleep = "no" /\ NewRequest.attempt = 0
  BY <1>2 DEF NewRequest, RequestType
<1>6. /\ req \in [Requests -> RequestType]
      /\ \A r \in Requests : req[r] = NewRequest
  BY <1>5 DEF Init
<1>7. awake \in BOOLEAN /\ threads \subseteq Requests
      /\ batch \in {"running", "returned", "failed"}
  BY Zenon DEF Init
<1>8. \A r \in Requests :
          /\ req[r].sleep \in {"retry", "paid"} => req[r].phase \in Buckets
          /\ req[r].phase = "post" => req[r].attempt < MaxRetries
  BY <1>2, <1>5, <1>6
<1>9. QED
  BY <1>1, <1>3, <1>4, <1>6, <1>7, <1>8 DEF ShapeInv

\* Every step keeps the shape.
LEMMA ShapeStep ==
    ASSUME ShapeInv, [Next]_vars
    PROVE  ShapeInv'
<1>0. /\ conf \in Configurations /\ now \in Nat
      /\ bucket \in [Workers -> [Buckets -> [tokens : Int, last : Nat]]]
      /\ \A w \in Workers, b \in Buckets :
            bucket[w][b].tokens <= MaxTokens[b] /\ bucket[w][b].last <= now
      /\ permits \in [Workers -> Nat]
      /\ threads \subseteq Requests
      /\ req \in [Requests -> RequestType]
      /\ granted \in [Workers -> [Buckets -> Nat]]
      /\ batch \in {"running", "returned", "failed"} /\ awake \in BOOLEAN
      /\ \A r \in Requests :
            /\ req[r].sleep \in {"retry", "paid"} => req[r].phase \in Buckets
            /\ req[r].phase = "post" => req[r].attempt < MaxRetries
  BY DEF ShapeInv
<1>1. ASSUME NEW r \in Requests, NEW b \in Buckets, AcquireCase(r, b)
      PROVE  ShapeInv'
  <2>1. /\ req[r].phase = b /\ UNCHANGED <<conf, now, permits, threads, batch, awake>>
    BY <1>1 DEF AcquireCase, StandardGrant, StandardSleep, OversizedSleep, PaidReturn
  <2>2. /\ WorkerOf(r) \in Workers
        /\ Met(r, b) \in [tokens : Int, last : Nat] /\ Met(r, b).last = now
        /\ Met(r, b).tokens <= MaxTokens[b]
        /\ Take(Met(r, b), Cost(b)) \in [tokens : Int, last : Nat]
        /\ Take(Met(r, b), Cost(b)).tokens <= MaxTokens[b]
        /\ Take(Met(r, b), Cost(b)).last = now
    <3>1. /\ Take(Met(r, b), Cost(b)).tokens = Met(r, b).tokens - Cost(b)
          /\ Met(r, b) \in [tokens : Int, last : Nat] /\ Met(r, b).tokens <= MaxTokens[b]
          /\ Cost(b) \in Nat /\ MaxTokens[b] \in Nat
      BY <1>0, MetFacts, ConstantTypes
    <3>2. Met(r, b).tokens \in Int
      BY <3>1
    <3>3. Take(Met(r, b), Cost(b)).tokens <= MaxTokens[b]
      BY <3>1, <3>2
    <3>4. QED
      BY <3>3, MetFacts
  <2>3. /\ bucket' \in [Workers -> [Buckets -> [tokens : Int, last : Nat]]]
        /\ \A v \in Workers, c \in Buckets :
              bucket'[v][c].tokens <= MaxTokens[c] /\ bucket'[v][c].last <= now
    <3>1. CASE bucket' = bucket
      BY <1>0, <3>1
    <3>2. CASE bucket' = [bucket EXCEPT ![WorkerOf(r)][b] = Met(r, b)]
      BY <2>1, <2>2, <3>2, BucketChange
    <3>3. CASE bucket' = [bucket EXCEPT ![WorkerOf(r)][b] = Take(Met(r, b), Cost(b))]
      BY <2>1, <2>2, <3>3, BucketChange
    <3>4. QED
      BY <1>1, <3>1, <3>2, <3>3
      DEF AcquireCase, StandardGrant, StandardSleep, OversizedSleep, PaidReturn
  <2>4. /\ granted' \in [Workers -> [Buckets -> Nat]] /\ RequestChange(r)
        /\ req'[r].sleep \in {"retry", "paid"} => req'[r].phase \in Buckets
        /\ req'[r].phase # "post"
    <3>1. CASE Grant(r, b)
      BY <2>1, <3>1, GrantFacts DEF GrantedChange
    <3>2. CASE StandardSleep(r, b) \/ OversizedSleep(r, b)
      <4>1. Met(r, b).tokens < Cost(b) /\ granted' = granted
        BY <3>2 DEF StandardSleep, OversizedSleep
      <4>2. WakeFor(Met(r, b), Rate[b], Cost(b), now) \in Nat
        BY <4>1, WakeFacts
      <4>3. PICK s \in {"retry", "paid"} :
                req' = [req EXCEPT ![r].sleep = s,
                                   ![r].ready = WakeFor(Met(r, b), Rate[b], Cost(b), now)]
        BY <3>2 DEF StandardSleep, OversizedSleep
      <4>4. RequestChange(r) /\ req'[r].phase = b
        BY <2>1, <4>2, <4>3, SleepFacts
      <4>5. QED
        BY <1>0, <4>1, <4>4 DEF Buckets
    <3>3. QED
      BY <1>1, <3>1, <3>2
      DEF AcquireCase, StandardGrant, PaidReturn
  <2>5. \A x \in Requests :
            /\ req'[x].sleep \in {"retry", "paid"} => req'[x].phase \in Buckets
            /\ req'[x].phase = "post" => req'[x].attempt < MaxRetries
    BY <1>0, <2>4 DEF RequestChange
  <2>6. QED
    BY <1>0, <2>1, <2>3, <2>4, <2>5 DEF ShapeInv, RequestChange, Workers, Configurations
<1>2. ASSUME NEW r \in Requests, LaterChange(r), permits' \in [Workers -> Nat],
             threads' \subseteq Requests
      PROVE  ShapeInv'
  <2>1. \A x \in Requests :
            /\ req'[x].sleep \in {"retry", "paid"} => req'[x].phase \in Buckets
            /\ req'[x].phase = "post" => req'[x].attempt < MaxRetries
    BY <1>0, <1>2 DEF LaterChange, RequestChange
  <2>2. QED
    BY <1>0, <1>2, <2>1 DEF ShapeInv, LaterChange, RequestChange, Workers, Configurations
<1>3. ASSUME NEW r \in Requests, StartCall(r)
      PROVE  ShapeInv'
  <2>1. /\ LaterChange(r) /\ permits[WorkerOf(r)] > 0 /\ UNCHANGED threads
        /\ permits' = [permits EXCEPT ![WorkerOf(r)] = @ - 1]
    BY <1>3, StartFacts
  <2>2. WorkerOf(r) \in Workers
    BY <1>0, WorkerOfType
  <2>3. permits' \in [Workers -> Nat]
    BY <1>0, <2>1, <2>2
  <2>4. QED
    BY <1>0, <1>2, <2>1, <2>3
<1>4. ASSUME NEW r \in Requests, CallEnds(r) \/ CallTimesOut(r)
      PROVE  ShapeInv'
  <2>1. /\ LaterChange(r) /\ permits' = [permits EXCEPT ![WorkerOf(r)] = @ + 1]
        /\ threads' = threads \/ threads' = threads \cup {r}
    BY <1>4, CallEndFacts
  <2>2. WorkerOf(r) \in Workers
    BY <1>0, WorkerOfType
  <2>3. permits' \in [Workers -> Nat]
    BY <1>0, <2>1, <2>2
  <2>4. threads' \subseteq Requests
    BY <1>0, <2>1
  <2>5. QED
    BY <1>2, <2>1, <2>3, <2>4
<1>5. ASSUME NEW r \in Requests, PostReturns(r) \/ PostFails(r) \/ EngineRaises(r)
      PROVE  ShapeInv'
  <2>1. LaterChange(r) /\ UNCHANGED <<threads, permits>>
    BY <1>5, PostFacts
  <2>2. QED
    BY <1>0, <1>2, <2>1
<1>6. ASSUME NEW r \in Requests, ThreadEnds(r)
      PROVE  ShapeInv'
  <2>1. /\ threads' = threads \ {r}
        /\ UNCHANGED <<conf, now, bucket, permits, req, granted, batch, awake>>
    BY <1>6 DEF ThreadEnds
  <2>2. threads' \subseteq Requests
    BY <1>0, <2>1
  <2>3. QED
    BY <1>0, <2>1, <2>2 DEF ShapeInv, Workers, Configurations
<1>7. CASE Assemble \/ BatchRaises
  <2>1. /\ UNCHANGED <<conf, now, bucket, permits, threads, req, granted>>
        /\ batch' \in {"running", "returned", "failed"}
    BY <1>7 DEF Assemble, BatchRaises
  <2>2. awake' = awake \/ awake' = FALSE
    BY <1>7, Zenon DEF Assemble, BatchRaises
  <2>3. awake' \in BOOLEAN
    BY <1>0, <2>2, Zenon
  <2>4. QED
    BY <1>0, <2>1, <2>3 DEF ShapeInv, Workers, Configurations
<1>8. CASE Tick
  <2>1. /\ now' = now + 1
        /\ UNCHANGED <<conf, bucket, permits, threads, req, granted, batch, awake>>
    BY <1>8 DEF Tick
  <2>2. now' \in Nat
    BY <1>0, <2>1
  <2>3. \A w \in Workers, b \in Buckets :
            bucket[w][b].tokens <= MaxTokens[b] /\ bucket[w][b].last <= now'
    <3>1. \A w \in Workers, b \in Buckets : bucket[w][b] \in [tokens : Int, last : Nat]
      BY <1>0
    <3>2. \A w \in Workers, b \in Buckets : bucket[w][b].last \in Nat
      BY <3>1
    <3>3. QED
      BY <1>0, <2>1, <3>2
  <2>4. QED
    BY <1>0, <2>1, <2>2, <2>3 DEF ShapeInv, Workers, Configurations
<1>9. CASE UNCHANGED vars
  BY <1>0, <1>9 DEF ShapeInv, Workers, Configurations, vars
<1>10. ASSUME NEW r \in Requests, Acquire(r)
       PROVE  ShapeInv'
  BY <1>1, <1>10, AcquireCases
<1>11. QED
  BY <1>3, <1>4, <1>5, <1>6, <1>7, <1>8, <1>9, <1>10 DEF Next

-----------------------------------------------------------------------------
(* The rate of a bucket                                                     *)

\* The requests that have paid can be counted.
LEMMA PaidFinite ==
    ASSUME ShapeInv, NEW w, NEW b, NEW t
    PROVE  /\ IsFiniteSet(Paid(w, b)) /\ Cardinality(Paid(w, b)) \in Nat
           /\ IsFiniteSet(PaidBy(w, b, t)) /\ Cardinality(PaidBy(w, b, t)) \in Nat
           /\ Cardinality(PaidBy(w, b, t)) <= Cardinality(Paid(w, b))
<1>1. IsFiniteSet(Requests)
  BY ConstantTypes, FS_Interval DEF ShapeInv, Requests
<1>2. Paid(w, b) \subseteq Requests /\ PaidBy(w, b, t) \subseteq Paid(w, b)
  BY DEF Paid, PaidBy
<1>3. IsFiniteSet(Paid(w, b))
  BY <1>1, <1>2, FS_Subset
<1>4. /\ IsFiniteSet(PaidBy(w, b, t))
      /\ Cardinality(PaidBy(w, b, t)) <= Cardinality(Paid(w, b))
  BY <1>2, <1>3, FS_Subset
<1>5. QED
  BY <1>3, <1>4, FS_CardinalityType

\* A step that leaves the bucket and its sleepers alone.
LEMMA RateKept ==
    ASSUME NEW w \in Workers, NEW b \in Buckets, Balanced(w, b), Timely(w, b),
           now \in Nat, now' \in Nat, now <= now', conf' = conf,
           granted'[w][b] = granted[w][b], bucket'[w][b] = bucket[w][b],
           \A x \in Requests : /\ IsPaid(x, w, b)' <=> IsPaid(x, w, b)
                               /\ IsPaid(x, w, b) => req'[x].ready = req[x].ready
    PROVE  Balanced(w, b)' /\ Timely(w, b)'
<1>1. Paid(w, b)' = Paid(w, b)
  BY DEF Paid
<1>2. ASSUME NEW t \in Nat
      PROVE  PaidBy(w, b, t)' = PaidBy(w, b, t)
  BY DEF PaidBy
<1>3. Cost(b)' = Cost(b)
  BY DEF Cost
<1>4. Balanced(w, b)'
  BY <1>1, <1>3 DEF Balanced
<1>5. Timely(w, b)'
  <2> SUFFICES ASSUME NEW t \in Nat, t >= now'
               PROVE  granted'[w][b] + Cost(b)' * Cardinality(PaidBy(w, b, t)')
                        <= MaxTokens[b] + Rate[b] * t
    BY DEF Timely
  <2>1. t >= now
    OBVIOUS
  <2>2. granted[w][b] + Cost(b) * Cardinality(PaidBy(w, b, t)) <= MaxTokens[b] + Rate[b] * t
    BY <2>1 DEF Timely
  <2>3. QED
    BY <1>2, <1>3, <2>2
<1>6. QED
  BY <1>4, <1>5

\* The arithmetic of the five ways a bucket changes.  g: granted; p: cost of
\* those who paid and sleep; k: the balance met; n: the cost of a request.
LEMMA RefillBalance ==
    ASSUME NEW M \in Nat, NEW R \in Nat, NEW g \in Nat, NEW p \in Nat, NEW k \in Int,
           NEW old \in Int, NEW l \in Nat, NEW t \in Nat,
           g + p + old <= M + R * l, k <= old + R * (t - l)
    PROVE  g + p + k <= M + R * t /\ R * t \in Nat
<1>1. R * l \in Int /\ R * (t - l) \in Int /\ R * t \in Nat
  OBVIOUS
<1>2. R * l + R * (t - l) = R * t
  OBVIOUS
<1>3. QED
  BY <1>1, <1>2

\* A refill grows with time,
LEMMA LaterTime ==
    ASSUME NEW R \in Nat, NEW s \in Nat, NEW t \in Nat, s <= t
    PROVE  R * s \in Nat /\ R * t \in Nat /\ R * s <= R * t
  BY ScaleOrder

\* and a debt with the number of those who paid.
LEMMA OneMore ==
    ASSUME NEW c \in Nat, NEW m \in Nat
    PROVE  c * m \in Nat /\ c * (m + 1) \in Nat /\ c * (m + 1) = c * m + c
  OBVIOUS

\* The four ways a bucket changes keep its balance and what is due at any time.
LEMMA AcquireRate ==
    ASSUME ShapeInv, ShapeInv', NEW r \in Requests, NEW b \in Buckets, AcquireCase(r, b),
           NEW w \in Workers, w = WorkerOf(r), Balanced(w, b), Timely(w, b)
    PROVE  Balanced(w, b)' /\ Timely(w, b)'
<1> DEFINE M == MaxTokens[b]
           R == Rate[b]
           n == Cost(b)
           k == Met(r, b).tokens
           old == bucket[w][b].tokens
           l == bucket[w][b].last
           g == granted[w][b]
           P == Paid(w, b)
           Q(t) == PaidBy(w, b, t)
<1>0. /\ conf \in Configurations /\ now \in Nat
      /\ req \in [Requests -> RequestType] /\ granted \in [Workers -> [Buckets -> Nat]]
      /\ bucket \in [Workers -> [Buckets -> [tokens : Int, last : Nat]]]
  BY WorkerOfType DEF ShapeInv
<1>1. M \in Nat /\ R \in Nat /\ n \in Nat
  BY <1>0, ConstantTypes
<1>2. /\ k \in Int /\ k <= old + R * (now - l)
      /\ Take(Met(r, b), n).tokens = k - n /\ Take(Met(r, b), n).last = now
      /\ Met(r, b).last = now
      /\ Met(r, b) \in [tokens : Int, last : Nat]
      /\ Take(Met(r, b), n) \in [tokens : Int, last : Nat]
  <2>1. Met(r, b) \in [tokens : Int, last : Nat]
    BY MetFacts
  <2>2. k \in Int
    BY <2>1
  <2>3. QED
    BY <2>1, <2>2, MetFacts
<1>3. old \in Int /\ l \in Nat /\ g \in Nat
  <2>1. bucket[w][b] \in [tokens : Int, last : Nat]
    BY <1>0
  <2>2. QED
    BY <1>0, <2>1
<1>4. UNCHANGED <<conf, now>> /\ req[r].phase = b
  BY DEF AcquireCase, StandardGrant, StandardSleep, OversizedSleep, PaidReturn
<1>5. Cost(b)' = n /\ \A x \in Requests : WorkerOf(x)' = WorkerOf(x)
  BY <1>4 DEF Cost, WorkerOf
<1>6. Cardinality(P) \in Nat /\ n * Cardinality(P) \in Nat
  <2>1. Cardinality(P) \in Nat
    BY PaidFinite
  <2>2. QED
    BY <1>1, <2>1
<1>7. ASSUME NEW t \in Nat
      PROVE  /\ Cardinality(Q(t)) \in Nat /\ n * Cardinality(Q(t)) \in Nat
             /\ n * Cardinality(Q(t)) <= n * Cardinality(P)
  <2>1. Cardinality(Q(t)) \in Nat /\ Cardinality(Q(t)) <= Cardinality(P)
    BY PaidFinite
  <2>2. QED
    BY <1>1, <1>6, <2>1, ScaleOrder
<1>8. g + n * Cardinality(P) + old <= M + R * l
  BY DEF Balanced
<1>9. ASSUME NEW t \in Nat, t >= now
      PROVE  g + n * Cardinality(Q(t)) <= M + R * t
  BY <1>9 DEF Timely
<1> HIDE DEF M, R, n, k, old, l, g, P, Q
<1>10. g + n * Cardinality(P) + k <= M + R * now /\ R * now \in Nat
  BY <1>0, <1>1, <1>2, <1>3, <1>6, <1>8, RefillBalance
<1>11. ASSUME NEW t \in Nat, t >= now
       PROVE  R * t \in Nat /\ R * now <= R * t
  BY <1>0, <1>1, <1>11, LaterTime
<1> DEFINE BalancedAfter(gn, m, tk, la) == gn + n * m + tk <= M + R * la
           DueAfter(gn, m, t) == gn + n * m <= M + R * t
<1>12. ASSUME BalancedAfter(granted'[w][b], Cardinality(Paid(w, b)'),
                            bucket'[w][b].tokens, bucket'[w][b].last),
              \A t \in Nat : t >= now =>
                  DueAfter(granted'[w][b],
                           Cardinality(PaidBy(w, b, t)'), t)
       PROVE  Balanced(w, b)' /\ Timely(w, b)'
  BY <1>4, <1>5, <1>12 DEF Balanced, Timely, M, R
<1> HIDE DEF BalancedAfter, DueAfter
<1>13. \A x \in Requests : x # r =>
           /\ IsPaid(x, w, b)' <=> IsPaid(x, w, b)
           /\ req'[x].ready = req[x].ready
  <2>1. RequestChange(r)
    <3>1. CASE Grant(r, b)
      BY <1>4, <3>1, GrantFacts
    <3>2. CASE StandardSleep(r, b) \/ OversizedSleep(r, b)
      <4>1. Met(r, b).tokens < Cost(b)
        BY <3>2 DEF StandardSleep, OversizedSleep
      <4>2. WakeFor(Met(r, b), Rate[b], Cost(b), now) \in Nat
        BY <4>1, WakeFacts
      <4>3. PICK s \in {"retry", "paid"} :
                req' = [req EXCEPT ![r].sleep = s,
                                   ![r].ready = WakeFor(Met(r, b), Rate[b], Cost(b), now)]
        BY <3>2 DEF StandardSleep, OversizedSleep
      <4>4. QED
        BY <4>2, <4>3, SleepFacts
    <3>3. QED
      BY <3>1, <3>2 DEF AcquireCase, StandardGrant, PaidReturn
  <2>2. QED
    BY <1>5, <2>1 DEF RequestChange, IsPaid
<1>14. CASE StandardGrant(r, b)
  <2>1. /\ req[r].sleep # "paid" /\ k >= n /\ Grant(r, b)
        /\ bucket' = [bucket EXCEPT ![w][b] = Take(Met(r, b), n)]
    BY <1>14 DEF StandardGrant, k, n
  <2>2. granted'[w][b] = g + n /\ req'[r].sleep = "no"
    BY <1>4, <2>1, GrantFacts DEF GrantedChange, g, n
  <2>3. bucket'[w][b].tokens = k - n /\ bucket'[w][b].last = now
    BY <1>0, <1>2, <2>1
  <2>4. ~IsPaid(r, w, b) /\ ~IsPaid(r, w, b)'
    BY <2>1, <2>2 DEF IsPaid
  <2>5. Paid(w, b)' = P
    BY <1>13, <2>4 DEF Paid, P
  <2>6. ASSUME NEW t \in Nat PROVE PaidBy(w, b, t)' = Q(t)
    BY <1>13, <2>4 DEF PaidBy, Q
  <2>7. BalancedAfter(g + n, Cardinality(P), k - n, now)
    BY <1>1, <1>2, <1>3, <1>6, <1>10 DEF BalancedAfter
  <2>8. ASSUME NEW t \in Nat, t >= now
        PROVE  DueAfter(g + n, Cardinality(Q(t)), t)
    BY <1>1, <1>2, <1>3, <1>6, <1>7, <1>10, <1>11, <2>1, <2>8 DEF DueAfter
  <2>9. QED
    BY <1>12, <2>2, <2>3, <2>5, <2>6, <2>7, <2>8
<1>15. CASE StandardSleep(r, b)
  <2>1. /\ req[r].sleep # "paid" /\ k < n /\ granted' = granted
        /\ bucket' = [bucket EXCEPT ![w][b] = Met(r, b)]
        /\ req' = [req EXCEPT ![r].sleep = "retry",
                              ![r].ready = WakeFor(Met(r, b), Rate[b], Cost(b), now)]
    BY <1>15 DEF StandardSleep, k, n
  <2>2. req'[r].sleep = "retry"
    BY <2>1, WakeFacts, SleepFacts DEF k, n
  <2>3. bucket'[w][b].tokens = k /\ bucket'[w][b].last = now /\ granted'[w][b] = g
    BY <1>0, <1>2, <2>1 DEF k, g
  <2>4. ~IsPaid(r, w, b) /\ ~IsPaid(r, w, b)'
    BY <2>1, <2>2 DEF IsPaid
  <2>5. Paid(w, b)' = P
    BY <1>13, <2>4 DEF Paid, P
  <2>6. ASSUME NEW t \in Nat PROVE PaidBy(w, b, t)' = Q(t)
    BY <1>13, <2>4 DEF PaidBy, Q
  <2>7. BalancedAfter(g, Cardinality(P), k, now)
    BY <1>10 DEF BalancedAfter
  <2>8. ASSUME NEW t \in Nat, t >= now
        PROVE  DueAfter(g, Cardinality(Q(t)), t)
    BY <1>9, <2>8 DEF DueAfter
  <2>9. QED
    BY <1>12, <2>3, <2>5, <2>6, <2>7, <2>8
<1>16. CASE OversizedSleep(r, b)
  <2> DEFINE wake == WakeFor(Met(r, b), Rate[b], Cost(b), now)
  <2>1. /\ req[r].sleep # "paid" /\ k < n /\ granted' = granted
        /\ bucket' = [bucket EXCEPT ![w][b] = Take(Met(r, b), n)]
        /\ req' = [req EXCEPT ![r].sleep = "paid", ![r].ready = wake]
    BY <1>16 DEF OversizedSleep, k, n
  <2>2. /\ wake \in Nat /\ R * (wake - now) \in Nat /\ n <= k + R * (wake - now)
    BY <2>1, WakeFacts DEF k, n, R
  <2>3. req'[r].sleep = "paid" /\ req'[r].ready = wake /\ req'[r].phase = b
    BY <1>4, <2>1, <2>2, SleepFacts
  <2> HIDE DEF wake
  <2>4. bucket'[w][b].tokens = k - n /\ bucket'[w][b].last = now /\ granted'[w][b] = g
    BY <1>0, <1>2, <2>1 DEF g
  <2>5. ~IsPaid(r, w, b) /\ IsPaid(r, w, b)'
    BY <1>5, <2>1, <2>3 DEF IsPaid
  <2>6. Paid(w, b)' = P \cup {r} /\ r \notin P
    BY <1>13, <2>5 DEF Paid, P
  <2>7. IsFiniteSet(P)
    BY PaidFinite DEF P
  <2>8. Cardinality(Paid(w, b)') = Cardinality(P) + 1
    BY <2>6, <2>7, FS_AddElement
  <2>9. /\ n * (Cardinality(P) + 1) = n * Cardinality(P) + n
        /\ n * (Cardinality(P) + 1) \in Nat
    BY <1>1, <1>6, OneMore
  <2>10. BalancedAfter(g, Cardinality(P) + 1, k - n, now)
    BY <1>1, <1>2, <1>3, <1>6, <1>10, <2>9 DEF BalancedAfter
  <2>11. ASSUME NEW t \in Nat, t >= now
         PROVE  DueAfter(g, Cardinality(PaidBy(w, b, t)'), t)
    <3>1. CASE t < wake
      <4>1. PaidBy(w, b, t)' = Q(t)
        BY <1>13, <2>2, <2>3, <2>5, <3>1 DEF PaidBy, Q
      <4>2. QED
        BY <1>9, <2>11, <4>1 DEF DueAfter
    <3>2. CASE t >= wake
      <4>1. /\ Cardinality(PaidBy(w, b, t)') \in Nat
            /\ Cardinality(PaidBy(w, b, t)') <= Cardinality(Paid(w, b)')
        <5>1. PaidBy(w, b, t)' \subseteq Paid(w, b)'
          BY DEF Paid, PaidBy
        <5>2. IsFiniteSet(Paid(w, b)')
          BY <2>6, <2>7, FS_AddElement
        <5>3. QED
          BY <5>1, <5>2, FS_Subset, FS_CardinalityType
      <4>2. /\ n * Cardinality(PaidBy(w, b, t)') <= n * (Cardinality(P) + 1)
            /\ n * Cardinality(PaidBy(w, b, t)') \in Int
        BY <1>1, <1>6, <2>8, <4>1, ScaleOrder
      <4>3. R * wake <= R * t /\ R * t \in Nat /\ R * wake \in Nat
        BY <1>1, <2>2, <3>2, LaterTime
      <4>4. R * wake = R * now + R * (wake - now)
        BY <1>0, <1>1, <2>2
      <4>5. g + n * (Cardinality(P) + 1) <= M + R * wake
        BY <1>1, <1>2, <1>3, <1>6, <1>10, <2>2, <2>9, <4>3, <4>4
      <4>6. QED
        BY <1>1, <1>3, <2>9, <4>2, <4>3, <4>5 DEF DueAfter
    <3>3. QED
      BY <2>2, <3>1, <3>2
  <2>12. QED
    BY <1>12, <2>4, <2>8, <2>10, <2>11
<1>17. CASE PaidReturn(r, b)
  <2>1. req[r].sleep = "paid" /\ now >= req[r].ready /\ Grant(r, b) /\ bucket' = bucket
    BY <1>17 DEF PaidReturn
  <2>2. granted'[w][b] = g + n /\ req'[r].sleep = "no" /\ req[r].ready \in Nat
    <3>1. req[r] \in RequestType
      BY <1>0
    <3>2. QED
      BY <1>4, <2>1, <3>1, GrantFacts DEF GrantedChange, g, n, RequestType
  <2>3. bucket'[w][b].tokens = old /\ bucket'[w][b].last = l
    BY <2>1 DEF old, l
  <2>4. IsPaid(r, w, b) /\ ~IsPaid(r, w, b)'
    BY <1>4, <2>1, <2>2 DEF IsPaid
  <2>5. Paid(w, b)' = P \ {r} /\ r \in P
    BY <1>13, <2>4 DEF Paid, P
  <2>6. /\ Cardinality(Paid(w, b)') = Cardinality(P) - 1
        /\ Cardinality(P) - 1 \in Nat
    <3>1. IsFiniteSet(P)
      BY PaidFinite DEF P
    <3>2. IsFiniteSet(Paid(w, b)') /\ Cardinality(Paid(w, b)') = Cardinality(P) - 1
      BY <2>5, <3>1, FS_RemoveElement
    <3>3. QED
      BY <3>2, FS_CardinalityType
  <2>7. ASSUME NEW t \in Nat, t >= now
        PROVE  /\ Cardinality(PaidBy(w, b, t)') = Cardinality(Q(t)) - 1
               /\ Cardinality(Q(t)) - 1 \in Nat
    <3>1. PaidBy(w, b, t)' = Q(t) \ {r} /\ r \in Q(t)
      <4>1. req[r].ready <= t
        BY <1>0, <2>1, <2>2, <2>7
      <4>2. QED
        BY <1>13, <2>4, <4>1 DEF PaidBy, Q
    <3>2. IsFiniteSet(Q(t))
      BY PaidFinite DEF Q
    <3>3. /\ IsFiniteSet(PaidBy(w, b, t)')
          /\ Cardinality(PaidBy(w, b, t)') = Cardinality(Q(t)) - 1
      BY <3>1, <3>2, FS_RemoveElement
    <3>4. QED
      BY <3>3, FS_CardinalityType
  <2>8. ASSUME NEW m \in Nat, m - 1 \in Nat
        PROVE  n * m = n * (m - 1) + n /\ n * (m - 1) \in Nat
    <3>1. (m - 1) + 1 = m
      BY <2>8
    <3>2. QED
      BY <1>1, <2>8, <3>1, OneMore
  <2>9. BalancedAfter(g + n, Cardinality(P) - 1, old, l)
    <3>1. /\ n * Cardinality(P) = n * (Cardinality(P) - 1) + n
          /\ n * (Cardinality(P) - 1) \in Nat
      BY <1>6, <2>6, <2>8
    <3>2. R * l \in Nat
      BY <1>1, <1>3
    <3>3. QED
      BY <1>1, <1>3, <1>8, <3>1, <3>2 DEF BalancedAfter
  <2>10. ASSUME NEW t \in Nat, t >= now
         PROVE  DueAfter(g + n, Cardinality(Q(t)) - 1, t)
    <3>1. /\ n * Cardinality(Q(t)) = n * (Cardinality(Q(t)) - 1) + n
          /\ n * (Cardinality(Q(t)) - 1) \in Nat
      BY <1>7, <2>7, <2>8, <2>10
    <3>2. g + n * Cardinality(Q(t)) <= M + R * t /\ R * t \in Nat
      BY <1>9, <1>11, <2>10
    <3>3. QED
      BY <1>1, <1>3, <3>1, <3>2 DEF DueAfter
  <2>11. QED
    BY <1>12, <2>2, <2>3, <2>6, <2>7, <2>9, <2>10
<1>18. QED
  BY <1>14, <1>15, <1>16, <1>17 DEF AcquireCase

\* A step of acquire leaves the other buckets alone.
LEMMA AcquireElsewhere ==
    ASSUME ShapeInv, NEW r \in Requests, NEW b \in Buckets, AcquireCase(r, b)
    PROVE  /\ UNCHANGED <<conf, now>> /\ req[r].phase = b /\ RequestChange(r)
           /\ \A v \in Workers, c \in Buckets : v # WorkerOf(r) \/ c # b =>
                 bucket'[v][c] = bucket[v][c] /\ granted'[v][c] = granted[v][c]
           /\ req'[r].sleep = "no" \/ req'[r].phase = b
<1>1. UNCHANGED <<conf, now>> /\ req[r].phase = b
  BY DEF AcquireCase, StandardGrant, StandardSleep, OversizedSleep, PaidReturn
<1>2. /\ WorkerOf(r) \in Workers
      /\ bucket \in [Workers -> [Buckets -> [tokens : Int, last : Nat]]]
  BY WorkerOfType DEF ShapeInv
<1>3. \A v \in Workers, c \in Buckets : v # WorkerOf(r) \/ c # b =>
          bucket'[v][c] = bucket[v][c]
  <2>1. CASE bucket' = bucket
    BY <2>1
  <2>2. ASSUME NEW x, bucket' = [bucket EXCEPT ![WorkerOf(r)][b] = x]
        PROVE  \A v \in Workers, c \in Buckets : v # WorkerOf(r) \/ c # b =>
                   bucket'[v][c] = bucket[v][c]
    BY <1>2, <2>2
  <2>3. QED
    BY <2>1, <2>2
    DEF AcquireCase, StandardGrant, StandardSleep, OversizedSleep, PaidReturn
<1>4. CASE Grant(r, b)
  BY <1>1, <1>3, <1>4, GrantFacts DEF GrantedChange
<1>5. CASE StandardSleep(r, b) \/ OversizedSleep(r, b)
  <2>1. Met(r, b).tokens < Cost(b) /\ granted' = granted
    BY <1>5 DEF StandardSleep, OversizedSleep
  <2>2. WakeFor(Met(r, b), Rate[b], Cost(b), now) \in Nat
    BY <2>1, WakeFacts
  <2>3. PICK s \in {"retry", "paid"} :
            req' = [req EXCEPT ![r].sleep = s,
                               ![r].ready = WakeFor(Met(r, b), Rate[b], Cost(b), now)]
    BY <1>5 DEF StandardSleep, OversizedSleep
  <2>4. RequestChange(r) /\ req'[r].phase = b
    BY <1>1, <2>2, <2>3, SleepFacts
  <2>5. QED
    BY <1>1, <1>3, <2>1, <2>4
<1>6. QED
  BY <1>4, <1>5 DEF AcquireCase, StandardGrant, PaidReturn

\* The steps after the buckets, by the request they are of.
LEMMA LaterSteps ==
    ASSUME ShapeInv, NEW r \in Requests,
           \/ StartCall(r) \/ CallEnds(r) \/ CallTimesOut(r)
           \/ PostReturns(r) \/ PostFails(r) \/ EngineRaises(r)
    PROVE  LaterChange(r)
  BY StartFacts, CallEndFacts, PostFacts

\* The steps that leave the requests and the buckets alone.
QuietStep == Assemble \/ BatchRaises \/ Tick \/ \E r \in Requests : ThreadEnds(r)

\* A step of the batch, the clock or a left-over thread changes no request.
LEMMA QuietFacts ==
    ASSUME ShapeInv, QuietStep \/ UNCHANGED vars
    PROVE  /\ UNCHANGED <<conf, req, bucket, granted, permits>>
           /\ now' \in Nat /\ now <= now' /\ now \in Nat
<1>1. now \in Nat
  BY DEF ShapeInv
<1>2. UNCHANGED <<conf, req, bucket, granted, permits>> /\ (now' = now \/ now' = now + 1)
  BY DEF QuietStep, Assemble, BatchRaises, Tick, ThreadEnds, vars
<1>3. QED
  BY <1>1, <1>2

\* Every step is one of these.
LEMMA StepCases ==
    ASSUME ShapeInv, [Next]_vars
    PROVE  \/ \E r \in Requests, b \in Buckets : AcquireCase(r, b)
           \/ \E r \in Requests : \/ StartCall(r) \/ CallEnds(r) \/ CallTimesOut(r)
                                  \/ PostReturns(r) \/ PostFails(r) \/ EngineRaises(r)
           \/ QuietStep \/ UNCHANGED vars
  BY AcquireCases DEF Next, QuietStep

\* Every step keeps the buckets balanced and timely.
LEMMA RateStep ==
    ASSUME ShapeInv, ShapeInv', RateInv, [Next]_vars
    PROVE  RateInv'
<1>0. now \in Nat /\ conf \in Configurations
  BY DEF ShapeInv
<1>1. ASSUME NEW r \in Requests, NEW b \in Buckets, AcquireCase(r, b)
      PROVE  RateInv'
  <2>0. /\ UNCHANGED <<conf, now>> /\ req[r].phase = b /\ RequestChange(r)
        /\ \A v \in Workers, c \in Buckets : v # WorkerOf(r) \/ c # b =>
              bucket'[v][c] = bucket[v][c] /\ granted'[v][c] = granted[v][c]
        /\ req'[r].sleep = "no" \/ req'[r].phase = b
    BY <1>1, AcquireElsewhere
  <2> SUFFICES ASSUME NEW v \in Workers, NEW c \in Buckets
               PROVE  Balanced(v, c)' /\ Timely(v, c)'
    BY <2>0 DEF RateInv, Workers
  <2>1. Balanced(v, c) /\ Timely(v, c)
    BY DEF RateInv
  <2>2. CASE v = WorkerOf(r) /\ c = b
    <3>1. Balanced(v, b)' /\ Timely(v, b)'
      BY <1>1, <2>1, <2>2, AcquireRate
    <3>2. QED
      BY <2>2, <3>1
  <2>3. CASE v # WorkerOf(r) \/ c # b
    <3>1. \A x \in Requests : /\ IsPaid(x, v, c)' <=> IsPaid(x, v, c)
                              /\ IsPaid(x, v, c) => req'[x].ready = req[x].ready
      <4>1. WorkerOf(r)' = WorkerOf(r) /\ \A x \in Requests : WorkerOf(x)' = WorkerOf(x)
        BY <2>0 DEF WorkerOf
      <4>2. ~IsPaid(r, v, c) /\ ~IsPaid(r, v, c)'
        BY <2>0, <2>3, <4>1 DEF IsPaid
      <4>3. QED
        BY <2>0, <4>1, <4>2 DEF IsPaid, RequestChange
    <3>2. /\ granted'[v][c] = granted[v][c] /\ bucket'[v][c] = bucket[v][c]
          /\ now' \in Nat /\ now <= now' /\ conf' = conf
      BY <1>0, <2>0, <2>3
    <3>3. QED
      BY <1>0, <2>1, <3>1, <3>2, RateKept
  <2>4. QED
    BY <2>2, <2>3
<1>2. ASSUME NEW r \in Requests, LaterChange(r)
      PROVE  RateInv'
  <2>0. /\ UNCHANGED <<conf, now, bucket, granted>> /\ RequestChange(r)
        /\ req[r].phase \notin Buckets /\ req'[r].phase \notin Buckets
    BY <1>2 DEF LaterChange
  <2> SUFFICES ASSUME NEW v \in Workers, NEW c \in Buckets
               PROVE  Balanced(v, c)' /\ Timely(v, c)'
    BY <2>0 DEF RateInv, Workers
  <2>1. Balanced(v, c) /\ Timely(v, c)
    BY DEF RateInv
  <2>2. \A x \in Requests : /\ IsPaid(x, v, c)' <=> IsPaid(x, v, c)
                            /\ IsPaid(x, v, c) => req'[x].ready = req[x].ready
    <3>1. \A x \in Requests : WorkerOf(x)' = WorkerOf(x)
      BY <2>0 DEF WorkerOf
    <3>2. QED
      BY <2>0, <3>1 DEF IsPaid, RequestChange
  <2>3. /\ granted'[v][c] = granted[v][c] /\ bucket'[v][c] = bucket[v][c]
        /\ now' \in Nat /\ now <= now' /\ conf' = conf
    BY <1>0, <2>0
  <2>4. QED
    BY <1>0, <2>1, <2>2, <2>3, RateKept
<1>3. ASSUME QuietStep \/ UNCHANGED vars
      PROVE  RateInv'
  <2>0. UNCHANGED <<conf, req, bucket, granted>> /\ now' \in Nat /\ now <= now'
    BY <1>3, QuietFacts
  <2> SUFFICES ASSUME NEW v \in Workers, NEW c \in Buckets
               PROVE  Balanced(v, c)' /\ Timely(v, c)'
    BY <2>0 DEF RateInv, Workers
  <2>1. Balanced(v, c) /\ Timely(v, c)
    BY DEF RateInv
  <2>2. \A x \in Requests : /\ IsPaid(x, v, c)' <=> IsPaid(x, v, c)
                            /\ IsPaid(x, v, c) => req'[x].ready = req[x].ready
    BY <2>0 DEF IsPaid, WorkerOf
  <2>3. QED
    BY <1>0, <2>0, <2>1, <2>2, RateKept
<1>4. QED
  BY <1>1, <1>2, <1>3, StepCases, LaterSteps

\* Buckets are full initially.
LEMMA RateInit == Init => RateInv
<1> SUFFICES ASSUME Init PROVE RateInv
  OBVIOUS
<1>0. ShapeInv
  BY ShapeInit
<1> SUFFICES ASSUME NEW w \in Workers, NEW b \in Buckets
             PROVE  Balanced(w, b) /\ Timely(w, b)
  BY DEF RateInv
<1>1. /\ MaxTokens[b] \in Nat /\ Rate[b] \in Nat /\ Cost(b) \in Nat
  BY <1>0, ConstantTypes DEF ShapeInv
<1>2. /\ granted[w][b] = 0 /\ bucket[w][b].tokens = MaxTokens[b] /\ bucket[w][b].last = 0
  BY DEF Init, Full
<1>3. \A x \in Requests : ~IsPaid(x, w, b)
  <2>1. NewRequest.sleep = "no"
    BY DEF NewRequest
  <2>2. QED
    BY <2>1 DEF Init, IsPaid
<1>4. Paid(w, b) = {} /\ \A t \in Nat : PaidBy(w, b, t) = {}
  BY <1>3 DEF Paid, PaidBy
<1>5. Cardinality({}) = 0
  BY FS_EmptySet
<1>6. Balanced(w, b)
  BY <1>1, <1>2, <1>4, <1>5 DEF Balanced
<1>7. Timely(w, b)
  <2> SUFFICES ASSUME NEW t \in Nat
               PROVE  granted[w][b] + Cost(b) * Cardinality(PaidBy(w, b, t))
                        <= MaxTokens[b] + Rate[b] * t
    BY DEF Timely
  <2>1. Rate[b] * t \in Nat
    BY <1>1
  <2>2. Cardinality(PaidBy(w, b, t)) = 0 /\ Cost(b) * 0 = 0
    BY <1>1, <1>4, <1>5
  <2>3. QED
    BY <1>1, <1>2, <2>1, <2>2
<1>8. QED
  BY <1>6, <1>7

\* No sleeper sleeps past the tick in which it could be served.
LEMMA OversleepStep ==
    ASSUME ShapeInv, ShapeInv', NoOversleep, [Next]_vars
    PROVE  NoOversleep'
<1> DEFINE Soon(x, b) ==
        bucket[WorkerOf(x)][b].tokens
            + (req[x].ready - bucket[WorkerOf(x)][b].last) * Rate[b] < Cost(b) + Rate[b]
<1>0. /\ now \in Nat /\ conf \in Configurations /\ req \in [Requests -> RequestType]
      /\ \A x \in Requests : req[x].sleep = "retry" => req[x].phase \in Buckets
  BY DEF ShapeInv
<1>1. ASSUME NEW x \in Requests, req[x].sleep = "retry"
      PROVE  Soon(x, req[x].phase)
  BY <1>1 DEF NoOversleep
<1>2. ASSUME conf' = conf,
             \A x \in Requests : req'[x].sleep = "retry" => Soon(x, req[x].phase)'
      PROVE  NoOversleep'
  BY <1>2 DEF NoOversleep
<1>3. ASSUME NEW r \in Requests, NEW b \in Buckets, AcquireCase(r, b)
      PROVE  NoOversleep'
  <2>0. /\ UNCHANGED <<conf, now>> /\ req[r].phase = b /\ RequestChange(r)
        /\ \A v \in Workers, c \in Buckets : v # WorkerOf(r) \/ c # b =>
              bucket'[v][c] = bucket[v][c]
    BY <1>3, AcquireElsewhere
  <2>1. /\ WorkerOf(r) \in Workers /\ WorkerOf(r)' = WorkerOf(r)
        /\ \A x \in Requests : WorkerOf(x)' = WorkerOf(x) /\ WorkerOf(x) \in Workers
        /\ \A c \in Buckets : Cost(c)' = Cost(c)
    BY <1>0, <2>0, WorkerOfType DEF WorkerOf, Cost
  <2>2. /\ Met(r, b) \in [tokens : Int, last : Nat] /\ Met(r, b).last = now
        /\ Met(r, b).tokens <= bucket[WorkerOf(r)][b].tokens
                                 + Rate[b] * (now - bucket[WorkerOf(r)][b].last)
        /\ bucket[WorkerOf(r)][b] \in [tokens : Int, last : Nat]
        /\ Take(Met(r, b), Cost(b)) \in [tokens : Int, last : Nat]
        /\ Take(Met(r, b), Cost(b)).tokens = Met(r, b).tokens - Cost(b)
        /\ Take(Met(r, b), Cost(b)).last = now
    BY MetFacts
  <2>3. /\ Met(r, b).tokens \in Int /\ bucket[WorkerOf(r)][b].tokens \in Int
        /\ bucket[WorkerOf(r)][b].last \in Nat
        /\ Rate[b] \in Nat \ {0} /\ Cost(b) \in Nat
    BY <1>0, <2>2, ConstantTypes
  <2>4. bucket \in [Workers -> [Buckets -> [tokens : Int, last : Nat]]]
    BY DEF ShapeInv
  <2>5. \/ bucket'[WorkerOf(r)][b] = bucket[WorkerOf(r)][b]
        \/ /\ bucket'[WorkerOf(r)][b].last = now
           /\ bucket'[WorkerOf(r)][b].tokens \in Int
           /\ bucket'[WorkerOf(r)][b].tokens <= Met(r, b).tokens
    <3>1. CASE bucket' = bucket
      BY <3>1
    <3>2. CASE bucket' = [bucket EXCEPT ![WorkerOf(r)][b] = Met(r, b)]
      <4>1. bucket'[WorkerOf(r)][b] = Met(r, b)
        BY <2>1, <2>4, <3>2
      <4>2. QED
        BY <2>2, <2>3, <4>1
    <3>3. CASE bucket' = [bucket EXCEPT ![WorkerOf(r)][b] = Take(Met(r, b), Cost(b))]
      <4>1. bucket'[WorkerOf(r)][b] = Take(Met(r, b), Cost(b))
        BY <2>1, <2>4, <3>3
      <4>2. QED
        BY <2>2, <2>3, <4>1
    <3>4. QED
      BY <1>3, <3>1, <3>2, <3>3
      DEF AcquireCase, StandardGrant, StandardSleep, OversizedSleep, PaidReturn
  <2>6. ASSUME NEW x \in Requests, x # r, req'[x].sleep = "retry"
        PROVE  Soon(x, req[x].phase)'
    <3>1. req'[x] = req[x] /\ req[x].phase \in Buckets /\ Soon(x, req[x].phase)
          /\ req[x].ready \in Nat
      BY <1>0, <1>1, <2>0, <2>6 DEF RequestChange, RequestType
    <3>2. CASE bucket'[WorkerOf(x)][req[x].phase] = bucket[WorkerOf(x)][req[x].phase]
      BY <2>1, <3>1, <3>2
    <3>3. CASE /\ WorkerOf(x) = WorkerOf(r) /\ req[x].phase = b
               /\ bucket'[WorkerOf(r)][b].last = now
               /\ bucket'[WorkerOf(r)][b].tokens \in Int
               /\ bucket'[WorkerOf(r)][b].tokens <= Met(r, b).tokens
      <4> DEFINE T == bucket'[WorkerOf(r)][b].tokens
                 o == bucket[WorkerOf(r)][b].tokens
                 l == bucket[WorkerOf(r)][b].last
                 d == req[x].ready
                 R == Rate[b]
      <4>1. T \in Int /\ o \in Int /\ l \in Nat /\ d \in Nat /\ R \in Nat /\ now \in Nat
        BY <1>0, <2>3, <3>1, <3>3
      <4>2. T <= o + R * (now - l)
        <5>1. R * (now - l) \in Int
          BY <4>1
        <5>2. QED
          BY <2>2, <2>3, <3>3, <4>1, <5>1
      <4>3. o + (d - l) * R < Cost(b) + R
        BY <3>1, <3>3
      <4> HIDE DEF T, o, l, d, R
      <4>4. (d - now) * R + R * (now - l) = (d - l) * R
        BY <1>0, <4>1
      <4>5. (d - now) * R \in Int /\ R * (now - l) \in Int /\ (d - l) * R \in Int
        BY <1>0, <4>1
      <4>6. T + (d - now) * R < Cost(b) + R
        BY <2>3, <4>1, <4>2, <4>3, <4>4, <4>5
      <4>7. QED
        BY <2>1, <3>1, <3>3, <4>6 DEF T, d, R
    <3>4. QED
      BY <2>0, <2>1, <2>5, <3>1, <3>2, <3>3
  <2>7. ASSUME req'[r].sleep = "retry"
        PROVE  Soon(r, req[r].phase)'
    <3>1. StandardSleep(r, b)
      <4>1. ~Grant(r, b)
        BY <2>0, <2>7, GrantFacts
      <4>2. ~OversizedSleep(r, b)
        <5> SUFFICES ASSUME OversizedSleep(r, b) PROVE req'[r].sleep = "paid"
          BY <2>7
        <5>1. WakeFor(Met(r, b), Rate[b], Cost(b), now) \in Nat
          BY WakeFacts DEF OversizedSleep
        <5>2. QED
          BY <5>1, SleepFacts DEF OversizedSleep
      <4>3. QED
        BY <1>3, <4>1, <4>2 DEF AcquireCase, StandardGrant, PaidReturn
    <3> DEFINE wake == WakeFor(Met(r, b), Rate[b], Cost(b), now)
    <3>2. /\ Met(r, b).tokens < Cost(b) /\ wake \in Nat
          /\ Rate[b] * (wake - now) \in Nat
          /\ Met(r, b).tokens + Rate[b] * (wake - now) < Cost(b) + Rate[b]
      BY <3>1, WakeFacts DEF StandardSleep
    <3>3. bucket'[WorkerOf(r)][b] = Met(r, b)
      BY <2>1, <2>4, <3>1 DEF StandardSleep
    <3>4. req'[r].ready = wake /\ req'[r].phase = b
      BY <2>0, <3>1, <3>2, SleepFacts DEF StandardSleep
    <3> HIDE DEF wake
    <3>5. (wake - now) * Rate[b] = Rate[b] * (wake - now)
      BY <1>0, <2>3, <3>2
    <3>6. QED
      BY <2>1, <2>2, <3>2, <3>3, <3>4, <3>5
  <2>8. QED
    BY <1>2, <2>0, <2>6, <2>7
<1>4. ASSUME NEW r \in Requests, LaterChange(r)
      PROVE  NoOversleep'
  <2>1. /\ UNCHANGED <<conf, bucket>> /\ req'[r].sleep # "retry"
        /\ \A x \in Requests : x # r => req'[x] = req[x]
    BY <1>4 DEF LaterChange, RequestChange
  <2>2. \A x \in Requests : WorkerOf(x)' = WorkerOf(x)
    BY <2>1 DEF WorkerOf
  <2>3. QED
    BY <1>1, <1>2, <2>1, <2>2 DEF Cost
<1>5. ASSUME QuietStep \/ UNCHANGED vars
      PROVE  NoOversleep'
  <2>1. UNCHANGED <<conf, req, bucket>>
    BY <1>5, QuietFacts
  <2>2. QED
    BY <1>1, <1>2, <2>1 DEF WorkerOf, Cost
<1>6. QED
  BY <1>3, <1>4, <1>5, StepCases, LaterSteps

-----------------------------------------------------------------------------
(* The semaphore                                                            *)

\* There are finitely many requests.
LEMMA RequestsFinite == conf \in Configurations => IsFiniteSet(Requests)
  BY ConstantTypes, FS_Interval DEF Requests

\* A request that has ended stays as it is.
LEMMA EndedStays ==
    ASSUME ShapeInv, [Next]_vars, NEW x \in Requests, req[x].phase \in {"done", "raised"}
    PROVE  req'[x] = req[x]
<1>1. ASSUME NEW r \in Requests, NEW b \in Buckets, AcquireCase(r, b)
      PROVE  req'[x] = req[x]
  <2>1. req[r].phase = b /\ RequestChange(r)
    BY <1>1, AcquireElsewhere
  <2>2. QED
    BY <2>1 DEF RequestChange, Buckets
<1>2. ASSUME NEW r \in Requests,
             \/ StartCall(r) \/ CallEnds(r) \/ CallTimesOut(r)
             \/ PostReturns(r) \/ PostFails(r) \/ EngineRaises(r)
      PROVE  req'[x] = req[x]
  <2>1. RequestChange(r)
    BY <1>2, LaterSteps DEF LaterChange
  <2>2. req[r].phase \in {"sem", "call", "post"}
    BY <1>2, StartFacts, CallEndFacts, PostFacts
  <2>3. QED
    BY <2>1, <2>2 DEF RequestChange
<1>3. ASSUME QuietStep \/ UNCHANGED vars
      PROVE  req'[x] = req[x]
  BY <1>3, QuietFacts
<1>4. QED
  BY <1>1, <1>2, <1>3, StepCases

\* No permit is taken initially.
LEMMA PermitInit == Init => PermitInv /\ ThreadInv
<1> SUFFICES ASSUME Init PROVE PermitInv /\ ThreadInv
  OBVIOUS
<1>1. conf \in Configurations /\ MaxConcurrent \in Nat
  BY ConstantTypes DEF Init
<1>2. NewRequest.phase # "call"
  BY DEF NewRequest
<1>3. \A w \in Workers : Calling(w) = {} /\ permits[w] = MaxConcurrent
  BY <1>2 DEF Init, Calling
<1>4. Cardinality({}) = 0
  BY FS_EmptySet
<1>5. PermitInv
  BY <1>1, <1>3, <1>4 DEF PermitInv
<1>6. ThreadInv
  BY DEF Init, ThreadInv
<1>7. QED
  BY <1>5, <1>6

\* Every step keeps permits and their holders equal in number.
LEMMA PermitStep ==
    ASSUME ShapeInv, PermitInv, [Next]_vars
    PROVE  PermitInv'
<1>0. /\ conf \in Configurations /\ permits \in [Workers -> Nat] /\ MaxConcurrent \in Nat
      /\ IsFiniteSet(Requests)
  BY ConstantTypes, RequestsFinite DEF ShapeInv
<1>1. \A w \in Workers : /\ IsFiniteSet(Calling(w)) /\ Cardinality(Calling(w)) \in Nat
                         /\ permits[w] + Cardinality(Calling(w)) = MaxConcurrent
  <2> SUFFICES ASSUME NEW w \in Workers
               PROVE  IsFiniteSet(Calling(w)) /\ Cardinality(Calling(w)) \in Nat
    BY DEF PermitInv
  <2>1. Calling(w) \subseteq Requests
    BY DEF Calling
  <2>2. QED
    BY <1>0, <2>1, FS_Subset, FS_CardinalityType
<1>2. ASSUME conf' = conf, permits' = permits,
             \A x \in Requests : req'[x].phase = "call" <=> req[x].phase = "call"
      PROVE  PermitInv'
  <2>1. \A w \in Workers : Calling(w)' = Calling(w)
    BY <1>2 DEF Calling, WorkerOf
  <2>2. QED
    BY <1>1, <1>2, <2>1 DEF PermitInv, Workers
<1>3. ASSUME NEW r \in Requests, NEW b \in Buckets, AcquireCase(r, b)
      PROVE  PermitInv'
  <2>1. /\ conf' = conf /\ req[r].phase = b /\ RequestChange(r)
    BY <1>3, AcquireElsewhere
  <2>2. permits' = permits
    BY <1>3 DEF AcquireCase, StandardGrant, StandardSleep, OversizedSleep, PaidReturn
  <2>3. req'[r].phase # "call"
    <3>1. CASE Grant(r, b)
      BY <2>1, <3>1, GrantFacts
    <3>2. CASE StandardSleep(r, b) \/ OversizedSleep(r, b)
      <4>1. WakeFor(Met(r, b), Rate[b], Cost(b), now) \in Nat
        BY <3>2, WakeFacts DEF StandardSleep, OversizedSleep
      <4>2. req'[r].phase = b
        BY <2>1, <3>2, <4>1, SleepFacts DEF StandardSleep, OversizedSleep
      <4>3. QED
        BY <4>2 DEF Buckets
    <3>3. QED
      BY <1>3, <3>1, <3>2 DEF AcquireCase, StandardGrant, PaidReturn
  <2>4. req[r].phase # "call"
    BY <2>1 DEF Buckets
  <2>5. QED
    BY <1>2, <2>1, <2>2, <2>3, <2>4 DEF RequestChange
<1>4. ASSUME NEW r \in Requests, StartCall(r)
      PROVE  PermitInv'
  <2>1. /\ RequestChange(r) /\ conf' = conf /\ req[r].phase = "sem" /\ req'[r].phase = "call"
        /\ permits' = [permits EXCEPT ![WorkerOf(r)] = @ - 1]
    BY <1>4, StartFacts DEF LaterChange
  <2>2. WorkerOf(r) \in Workers
    BY <1>0, WorkerOfType
  <2>3. ASSUME NEW w \in Workers
        PROVE  permits'[w] + Cardinality(Calling(w)') = MaxConcurrent
    <3>1. CASE w = WorkerOf(r)
      <4>1. Calling(w)' = Calling(w) \cup {r} /\ r \notin Calling(w)
        BY <2>1, <3>1 DEF Calling, WorkerOf, RequestChange
      <4>2. Cardinality(Calling(w)') = Cardinality(Calling(w)) + 1
        BY <1>1, <4>1, FS_AddElement
      <4>3. permits'[w] = permits[w] - 1
        BY <1>0, <2>1, <2>2, <3>1
      <4>4. QED
        BY <1>0, <1>1, <4>2, <4>3
    <3>2. CASE w # WorkerOf(r)
      <4>1. Calling(w)' = Calling(w)
        BY <2>1, <3>2 DEF Calling, WorkerOf, RequestChange
      <4>2. permits'[w] = permits[w]
        BY <1>0, <2>1, <2>2, <3>2
      <4>3. QED
        BY <1>1, <4>1, <4>2
    <3>3. QED
      BY <3>1, <3>2
  <2>4. QED
    BY <2>1, <2>3 DEF PermitInv, Workers
<1>5. ASSUME NEW r \in Requests, CallEnds(r) \/ CallTimesOut(r)
      PROVE  PermitInv'
  <2>1. /\ RequestChange(r) /\ conf' = conf /\ req[r].phase = "call" /\ req'[r].phase = "done"
        /\ permits' = [permits EXCEPT ![WorkerOf(r)] = @ + 1]
    BY <1>5, CallEndFacts DEF LaterChange
  <2>2. WorkerOf(r) \in Workers
    BY <1>0, WorkerOfType
  <2>3. ASSUME NEW w \in Workers
        PROVE  permits'[w] + Cardinality(Calling(w)') = MaxConcurrent
    <3>1. CASE w = WorkerOf(r)
      <4>1. Calling(w)' = Calling(w) \ {r} /\ r \in Calling(w)
        BY <2>1, <3>1 DEF Calling, WorkerOf, RequestChange
      <4>2. Cardinality(Calling(w)') = Cardinality(Calling(w)) - 1
        BY <1>1, <4>1, FS_RemoveElement
      <4>3. permits'[w] = permits[w] + 1
        BY <1>0, <2>1, <2>2, <3>1
      <4>4. QED
        BY <1>0, <1>1, <4>2, <4>3
    <3>2. CASE w # WorkerOf(r)
      <4>1. Calling(w)' = Calling(w)
        BY <2>1, <3>2 DEF Calling, WorkerOf, RequestChange
      <4>2. permits'[w] = permits[w]
        BY <1>0, <2>1, <2>2, <3>2
      <4>3. QED
        BY <1>1, <4>1, <4>2
    <3>3. QED
      BY <3>1, <3>2
  <2>4. QED
    BY <2>1, <2>3 DEF PermitInv, Workers
<1>6. ASSUME NEW r \in Requests, PostReturns(r) \/ PostFails(r) \/ EngineRaises(r)
      PROVE  PermitInv'
  <2>1. /\ RequestChange(r) /\ conf' = conf /\ permits' = permits /\ req[r].phase = "post"
        /\ req'[r].phase \in {"done", "raised", "post"}
    BY <1>6, PostFacts DEF LaterChange
  <2>2. QED
    BY <1>2, <2>1 DEF RequestChange
<1>7. ASSUME QuietStep \/ UNCHANGED vars
      PROVE  PermitInv'
  BY <1>2, <1>7, QuietFacts
<1>8. QED
  BY <1>3, <1>4, <1>5, <1>6, <1>7, StepCases

\* No step changes the configuration of the reward manager.
LEMMA ConfStays == [Next]_vars => conf' = conf
  BY ZenonT(60) DEF Next, Assemble, BatchRaises, Tick, Acquire, AcquireStandard, AcquireOversized,
         OversizedReturns, StartCall, CallEnds, CallTimesOut, EndCall, ThreadEnds,
         PostReturns, PostFails, EngineRaises, vars

\* Every step keeps the threads within the pool.
LEMMA ThreadStep ==
    ASSUME ShapeInv, ThreadInv, [Next]_vars
    PROVE  ThreadInv'
<1>0. threads \subseteq Requests
  BY DEF ShapeInv
<1>1. conf' = conf
  BY ConfStays
<1>2. \A x \in threads : req'[x] = req[x]
  BY <1>0, EndedStays DEF ThreadInv
<1>3. ASSUME NEW y \in threads', y \notin threads
      PROVE  ~conf.is_async /\ req'[y].phase = "done" /\ req'[y].outcome = "timeout"
  <2>1. PICK r \in Requests : CallEnds(r) \/ CallTimesOut(r)
    <3>1. threads' \subseteq threads \/ \E r \in Requests : CallTimesOut(r)
      BY ZenonT(60) DEF Next, Assemble, BatchRaises, Tick, Acquire, AcquireStandard, AcquireOversized,
             OversizedReturns, StartCall, CallEnds, ThreadEnds, PostReturns, PostFails,
             EngineRaises, vars
    <3>2. QED
      BY <1>3, <3>1
  <2>2. QED
    BY <1>3, <2>1, CallEndFacts
<1>4. QED
  BY <1>1, <1>2, <1>3 DEF ThreadInv

\* SlotsKept, from the permits and the threads.
LEMMA SlotsFromInv == ShapeInv /\ PermitInv /\ ThreadInv => SlotsKept
<1> SUFFICES ASSUME ShapeInv, PermitInv, ThreadInv, NEW w \in Workers
             PROVE  /\ permits[w] + Cardinality(Calling(w)) = MaxConcurrent
                    /\ conf.is_async => ApiCalls(w) <= MaxConcurrent
  BY DEF SlotsKept
<1> DEFINE T == {r \in threads : WorkerOf(r) = w}
<1>1. permits[w] + Cardinality(Calling(w)) = MaxConcurrent
  BY DEF PermitInv
<1>2. MaxConcurrent \in Nat /\ permits[w] \in Nat
  BY ConstantTypes DEF ShapeInv
<1>3. Cardinality(Calling(w)) \in Nat
  <2>1. IsFiniteSet(Requests) /\ Calling(w) \subseteq Requests
    BY RequestsFinite DEF ShapeInv, Calling
  <2>2. QED
    BY <2>1, FS_Subset, FS_CardinalityType
<1>4. ASSUME conf.is_async PROVE ApiCalls(w) <= MaxConcurrent
  <2>1. T = {}
    BY <1>4 DEF ThreadInv
  <2>2. Cardinality(T) = 0
    BY <2>1, FS_EmptySet
  <2>3. ApiCalls(w) = Cardinality(Calling(w)) + Cardinality(T)
    BY DEF ApiCalls
  <2> HIDE DEF T
  <2>4. QED
    BY <1>1, <1>2, <1>3, <2>2, <2>3
<1>5. QED
  BY <1>1, <1>4

-----------------------------------------------------------------------------
(* The outcome of a batch                                                   *)

\* Nothing has ended initially.
LEMMA OutcomeInit == Init => OutcomeInv
<1> SUFFICES ASSUME Init PROVE OutcomeInv
  OBVIOUS
<1>1. \A r \in Requests :
          req[r].phase = (IF conf.rm = "disrm" THEN "post" ELSE "rpm")
  BY DEF Init, NewRequest
<1>2. EndedInv
  BY <1>1 DEF EndedInv
<1>3. GatheredInv /\ ReturnedComplete /\ FailureCause
  BY DEF Init, GatheredInv, ReturnedComplete, FailureCause
<1>4. QED
  BY <1>2, <1>3 DEF OutcomeInv

\* Every step keeps the reasons for the requests that ended.
LEMMA EndedStep ==
    ASSUME ShapeInv, EndedInv, [Next]_vars
    PROVE  EndedInv'
<1>1. ASSUME NEW r \in Requests, RequestChange(r), conf' = conf,
             /\ req'[r].phase = "done" =>
                   req'[r].outcome \in IF conf.rm = "disrm" THEN {"score"} ELSE CallOutcomes
             /\ req'[r].phase = "raised" => RaisedWhy(req'[r], conf.engine)
             /\ conf.rm = "disrm" => req'[r].phase \in {"post", "done", "raised"}
             /\ conf.rm # "disrm" => req'[r].phase \notin {"post", "raised"}
      PROVE  EndedInv'
  BY <1>1 DEF EndedInv, RequestChange
<1>2. ASSUME NEW r \in Requests, NEW b \in Buckets, AcquireCase(r, b)
      PROVE  EndedInv'
  <2>1. conf' = conf /\ req[r].phase = b /\ RequestChange(r)
    BY <1>2, AcquireElsewhere
  <2>2. conf.rm # "disrm"
    BY <2>1 DEF EndedInv, Buckets
  <2>3. req'[r].phase \in {"rpm", "tpm", "sem"}
    <3>1. CASE Grant(r, b)
      BY <2>1, <3>1, GrantFacts
    <3>2. CASE StandardSleep(r, b) \/ OversizedSleep(r, b)
      <4>1. WakeFor(Met(r, b), Rate[b], Cost(b), now) \in Nat
        BY <3>2, WakeFacts DEF StandardSleep, OversizedSleep
      <4>2. req'[r].phase = b
        BY <2>1, <3>2, <4>1, SleepFacts DEF StandardSleep, OversizedSleep
      <4>3. QED
        BY <4>2 DEF Buckets
    <3>3. QED
      BY <1>2, <3>1, <3>2 DEF AcquireCase, StandardGrant, PaidReturn
  <2>4. QED
    BY <1>1, <2>1, <2>2, <2>3
<1>3. ASSUME NEW r \in Requests, StartCall(r)
      PROVE  EndedInv'
  <2>1. RequestChange(r) /\ conf' = conf /\ req[r].phase = "sem" /\ req'[r].phase = "call"
    BY <1>3, StartFacts DEF LaterChange
  <2>2. conf.rm # "disrm"
    BY <2>1 DEF EndedInv
  <2>3. QED
    BY <1>1, <2>1, <2>2
<1>4. ASSUME NEW r \in Requests, CallEnds(r) \/ CallTimesOut(r)
      PROVE  EndedInv'
  <2>1. /\ RequestChange(r) /\ conf' = conf /\ req[r].phase = "call"
        /\ req'[r].phase = "done" /\ req'[r].outcome \in CallOutcomes
    BY <1>4, CallEndFacts DEF LaterChange
  <2>2. conf.rm # "disrm"
    BY <2>1 DEF EndedInv
  <2>3. QED
    BY <1>1, <2>1, <2>2
<1>5. ASSUME NEW r \in Requests, PostReturns(r) \/ PostFails(r) \/ EngineRaises(r)
      PROVE  EndedInv'
  <2>1. /\ RequestChange(r) /\ conf' = conf /\ req[r].phase = "post"
        /\ \/ req'[r].phase = "done" /\ req'[r].outcome = "score"
           \/ req'[r].phase = "raised" /\ RaisedWhy(req'[r], conf.engine)
           \/ req'[r].phase = "post"
    BY <1>5, PostFacts DEF LaterChange
  <2>2. conf.rm = "disrm"
    BY <2>1 DEF EndedInv
  <2>3. QED
    BY <1>1, <2>1, <2>2
<1>6. ASSUME QuietStep \/ UNCHANGED vars
      PROVE  EndedInv'
  <2>1. UNCHANGED <<conf, req>>
    BY <1>6, QuietFacts
  <2>2. QED
    BY <2>1 DEF EndedInv
<1>7. QED
  BY <1>2, <1>3, <1>4, <1>5, <1>6, StepCases

\* Two items that make the look-up of the keys fail.
Clash(first, other) ==
    /\ other # first
    /\ first = "number" => other = "dict"
    /\ first = "dict" => other # "acc_dict"

\* The keys of the first item are looked up in vain only in an item that ended
\* differently.
LEMMA KeysMissing ==
    ASSUME ShapeInv, EndedInv, Gathered, ~KeysFound
    PROVE  /\ conf.rm # "disrm"
           /\ \E r \in Requests : Clash(req[1].outcome, req[r].outcome)
<1>1. PICK r \in Requests : ~(InfoKeys(1) \subseteq InfoKeys(r))
  BY DEF KeysFound
<1>2. 1 \in Requests
  BY ConstantTypes DEF ShapeInv
<1>3. conf.rm # "disrm"
  BY <1>1 DEF InfoKeys
<1>4. \A x \in Requests : req[x].outcome \in CallOutcomes
  BY <1>3 DEF EndedInv, Gathered
<1>5. ASSUME NEW x \in Requests
      PROVE  /\ req[x].outcome = "number" => InfoKeys(x) = {"acc"}
             /\ req[x].outcome = "dict" => InfoKeys(x) = {"score"}
             /\ req[x].outcome = "acc_dict" => InfoKeys(x) = {"score", "acc"}
             /\ req[x].outcome = "timeout" => InfoKeys(x) = {"timeout", "acc"}
             /\ req[x].outcome = "error" => InfoKeys(x) = {"error", "acc"}
  BY <1>3 DEF InfoKeys
<1> HIDE DEF InfoKeys
<1>6. req[1].outcome \in CallOutcomes /\ req[r].outcome \in CallOutcomes
  BY <1>2, <1>4
<1>7. req[r].outcome # req[1].outcome
  <2> SUFFICES ASSUME req[r].outcome = req[1].outcome PROVE FALSE
    OBVIOUS
  <2>1. InfoKeys(r) = InfoKeys(1)
    BY <1>2, <1>5, <1>6 DEF CallOutcomes
  <2>2. QED
    BY <1>1, <2>1
<1>8. req[1].outcome = "number" => req[r].outcome = "dict"
  <2> SUFFICES ASSUME req[1].outcome = "number", req[r].outcome # "dict" PROVE FALSE
    OBVIOUS
  <2>1. InfoKeys(1) = {"acc"}
    BY <1>2, <1>5
  <2>2. "acc" \in InfoKeys(r)
    BY <1>5, <1>6 DEF CallOutcomes
  <2>3. QED
    BY <1>1, <2>1, <2>2
<1>9. req[1].outcome = "dict" => req[r].outcome # "acc_dict"
  BY <1>1, <1>2, <1>5
<1>10. QED
  BY <1>3, <1>7, <1>8, <1>9 DEF Clash

\* Every step keeps the reasons for the end of the batch.
LEMMA OutcomeStep ==
    ASSUME ShapeInv, OutcomeInv, [Next]_vars
    PROVE  OutcomeInv'
<1>0. EndedInv /\ GatheredInv /\ ReturnedComplete /\ FailureCause /\ EndedInv'
  BY EndedStep DEF OutcomeInv
<1>1. 1 \in Requests
  BY ConstantTypes DEF ShapeInv
<1>2. conf' = conf
  BY ConfStays
<1>3. \A x \in Requests : req[x].phase \in {"done", "raised"} => req'[x] = req[x]
  BY EndedStays
<1>4. CASE Assemble
  <2>1. /\ batch = "running" /\ Gathered /\ req' = req
        /\ batch' = IF KeysFound THEN "returned" ELSE "failed"
        /\ KeysFound => awake' = FALSE
    BY <1>4 DEF Assemble
  <2>2. Gathered'
    BY <2>1 DEF Gathered
  <2>3. CASE KeysFound
    <3>1. \A r \in Requests : req[r].phase = "done" /\ req[r].outcome # "none"
      BY <1>0, <2>1 DEF EndedInv, Gathered, CallOutcomes
    <3>2. QED
      BY <1>0, <2>1, <2>2, <2>3, <3>1
      DEF OutcomeInv, GatheredInv, ReturnedComplete, FailureCause
  <2>4. CASE ~KeysFound
    <3>1. conf.rm # "disrm" /\ \E r \in Requests : Clash(req[1].outcome, req[r].outcome)
      BY <1>0, <2>1, <2>4, KeysMissing
    <3>2. FailureCause'
      BY <1>2, <2>1, <3>1 DEF FailureCause, Clash
    <3>3. QED
      BY <1>0, <1>2, <2>1, <2>2, <2>4, <3>2
      DEF OutcomeInv, GatheredInv, ReturnedComplete
  <2>5. QED
    BY <2>3, <2>4
<1>5. CASE BatchRaises
  <2>1. /\ batch = "running" /\ batch' = "failed" /\ req' = req
    BY <1>5 DEF BatchRaises
  <2>2. PICK r \in Requests : req[r].phase = "raised"
    BY <1>5 DEF BatchRaises
  <2>3. conf.rm = "disrm" /\ RaisedWhy(req[r], conf.engine)
    BY <1>0, <2>2 DEF EndedInv
  <2>4. FailureCause'
    BY <1>2, <2>1, <2>2, <2>3 DEF FailureCause, RaisedWhy
  <2>5. QED
    BY <1>0, <1>2, <2>1, <2>3, <2>4
    DEF OutcomeInv, GatheredInv, ReturnedComplete
<1>6. CASE UNCHANGED <<batch, awake>>
  <2>1. Gathered => \A x \in Requests : req'[x] = req[x]
    BY <1>3 DEF Gathered
  <2>2. GatheredInv'
    BY <1>0, <1>2, <1>6, <2>1 DEF GatheredInv, Gathered
  <2>3. ReturnedComplete'
    BY <1>0, <1>6, <2>1 DEF GatheredInv, ReturnedComplete
  <2>4. FailureCause'
    <3> SUFFICES ASSUME batch' = "failed" PROVE FailureCause'
      BY DEF FailureCause
    <3>1. batch = "failed"
      BY <1>6
    <3>2. CASE conf.rm = "disrm"
      <4>1. PICK r \in Requests : req[r].phase = "raised" /\ RaisedWhy(req[r], conf.engine)
        BY <1>0, <3>1, <3>2 DEF FailureCause, RaisedWhy
      <4>2. req'[r] = req[r]
        BY <1>3, <4>1
      <4>3. QED
        BY <1>2, <3>2, <4>1, <4>2 DEF FailureCause, RaisedWhy
    <3>3. CASE conf.rm # "disrm"
      <4>1. \A x \in Requests : req'[x] = req[x]
        BY <1>0, <2>1, <3>1, <3>3 DEF GatheredInv
      <4>2. \E r \in Requests : Clash(req[1].outcome, req[r].outcome)
        BY <1>0, <3>1, <3>3 DEF FailureCause, Clash
      <4>3. QED
        BY <1>1, <1>2, <3>3, <4>1, <4>2 DEF FailureCause, Clash
    <3>4. QED
      BY <3>2, <3>3
  <2>5. QED
    BY <1>0, <2>2, <2>3, <2>4 DEF OutcomeInv
<1>7. Assemble \/ BatchRaises \/ UNCHANGED <<batch, awake>>
  <2>1. ASSUME NEW r \in Requests, NEW b \in Buckets, AcquireCase(r, b)
        PROVE  UNCHANGED <<batch, awake>>
    BY <2>1 DEF AcquireCase, StandardGrant, StandardSleep, OversizedSleep, PaidReturn
  <2>2. ASSUME NEW r \in Requests, LaterChange(r)
        PROVE  UNCHANGED <<batch, awake>>
    BY <2>2 DEF LaterChange
  <2>3. QuietStep \/ UNCHANGED vars =>
            Assemble \/ BatchRaises \/ UNCHANGED <<batch, awake>>
    BY DEF QuietStep, Tick, ThreadEnds, vars
  <2>4. QED
    BY <2>1, <2>2, <2>3, StepCases, LaterSteps
<1>8. QED
  BY <1>4, <1>5, <1>6, <1>7

-----------------------------------------------------------------------------
(* The theorems                                                             *)

\* The inductive invariant.
RewardIInv == ShapeInv /\ RateInv /\ NoOversleep /\ PermitInv /\ ThreadInv /\ OutcomeInv

\* It holds in every reachable state.
LEMMA RewardIInvHolds == Spec => []RewardIInv
<1>1. Init => RewardIInv
  <2>1. Init => NoOversleep
    <3> SUFFICES ASSUME Init PROVE NoOversleep
      OBVIOUS
    <3>1. \A r \in Requests : req[r].sleep = "no"
      BY DEF Init, NewRequest
    <3>2. QED
      BY <3>1 DEF NoOversleep
  <2>2. QED
    BY <2>1, ShapeInit, RateInit, PermitInit, OutcomeInit DEF RewardIInv
<1>2. RewardIInv /\ [Next]_vars => RewardIInv'
  BY ShapeStep, RateStep, OversleepStep, PermitStep, ThreadStep, OutcomeStep
  DEF RewardIInv
<1>3. QED
  BY <1>1, <1>2, PTL DEF Spec

\* A bucket never grants more than its capacity and what the elapsed time
\* refills, requests above the capacity included, and a request sleeps no
\* longer than that takes, for every capacity, rate and cost.
THEOREM BucketsKeepTheRate == Spec => []BucketInv
<1>1. RewardIInv => BucketInv
  <2> SUFFICES ASSUME RewardIInv PROVE BucketInv
    OBVIOUS
  <2>0. ShapeInv /\ RateInv /\ NoOversleep /\ PermitInv
    BY DEF RewardIInv
  <2>1. /\ now \in Nat /\ conf \in Configurations
        /\ bucket \in [Workers -> [Buckets -> [tokens : Int, last : Nat]]]
        /\ permits \in [Workers -> Nat] /\ granted \in [Workers -> [Buckets -> Nat]]
    BY <2>0 DEF ShapeInv
  <2>2. TypeOK
    <3>1. \A w \in Workers, b \in Buckets :
              bucket[w][b].tokens \in Int /\ bucket[w][b].tokens <= MaxTokens[b]
              /\ bucket[w][b].last \in 0..now
      <4>1. \A w \in Workers, b \in Buckets :
                bucket[w][b].tokens \in Int /\ bucket[w][b].last \in Nat
        BY <2>1
      <4>2. QED
        BY <2>0, <2>1, <4>1 DEF ShapeInv
    <3>2. permits \in [Workers -> 0..MaxConcurrent]
      <4>1. ASSUME NEW w \in Workers PROVE permits[w] \in 0..MaxConcurrent
        <5>1. IsFiniteSet(Calling(w))
          <6>1. Calling(w) \subseteq Requests
            BY DEF Calling
          <6>2. QED
            BY <2>1, <6>1, RequestsFinite, FS_Subset
        <5>2. Cardinality(Calling(w)) \in Nat /\ permits[w] \in Nat /\ MaxConcurrent \in Nat
          BY <2>1, <5>1, FS_CardinalityType, ConstantTypes
        <5>3. permits[w] + Cardinality(Calling(w)) = MaxConcurrent
          BY <2>0 DEF PermitInv
        <5>4. QED
          BY <5>2, <5>3
      <4>2. QED
        BY <2>1, <4>1
    <3>3. QED
      BY <2>0, <2>1, <3>1, <3>2 DEF TypeOK, ShapeInv, RequestType
  <2>3. RateBound
    <3> SUFFICES ASSUME NEW w \in Workers, NEW b \in Buckets
                 PROVE  granted[w][b] <= MaxTokens[b] + Rate[b] * now
      BY DEF RateBound
    <3>1. granted[w][b] + Cost(b) * Cardinality(PaidBy(w, b, now))
            <= MaxTokens[b] + Rate[b] * now
      BY <2>0, <2>1 DEF RateInv, Timely
    <3>2. /\ Cost(b) \in Nat /\ MaxTokens[b] \in Nat /\ Rate[b] \in Nat
          /\ Cardinality(PaidBy(w, b, now)) \in Nat /\ granted[w][b] \in Nat
      BY <2>0, <2>1, ConstantTypes, PaidFinite
    <3>3. Cost(b) * Cardinality(PaidBy(w, b, now)) \in Nat /\ Rate[b] * now \in Nat
      BY <2>1, <3>2
    <3>4. QED
      BY <3>1, <3>2, <3>3
  <2>4. QED
    BY <2>0, <2>2, <2>3 DEF BucketInv
<1>2. QED
  BY <1>1, RewardIInvHolds, PTL

\* No permit of a semaphore is ever lost or handed out twice, however calls end,
\* and a worker has at most max_concurrent calls of a coroutine compute_score
\* going on.
THEOREM SlotsStayKept == Spec => []SlotsKept
<1>1. RewardIInv => SlotsKept
  BY SlotsFromInv DEF RewardIInv
<1>2. QED
  BY <1>1, RewardIInvHolds, PTL

\* A batch returns with a score for every item and the reward model asleep, or
\* fails: with a reward model for an unsupported engine, a refused request,
\* max_retries failed attempts or an answer without a score, and with the rate
\* limiter for a key that an item lacks that ended differently from the first.
THEOREM BatchesEndForACause == Spec => []BatchOutcome
<1>1. RewardIInv => BatchOutcome
  BY DEF RewardIInv, OutcomeInv, BatchOutcome
<1>2. QED
  BY <1>1, RewardIInvHolds, PTL
=============================================================================
