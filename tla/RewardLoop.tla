----------------------------- MODULE RewardLoop -----------------------------
(***************************************************************************)
(* Scoring one batch: RewardLoopManager.compute_rm_score hands a part of   *)
(* the batch to each reward loop worker, a process of its own, which runs  *)
(* one task per item.  An item is scored by RateLimitedRewardManager       *)
(* .run_single (two token buckets, a semaphore, a call with a timeout) or, *)
(* with a discriminative reward model, by compute_score_disrm (an HTTP     *)
(* request that is retried with a growing pause).                          *)
(*                                                                         *)
(* The limiters are attributes of the class, so every process has its own. *)
(* A synchronous compute_score runs in a thread; a timeout stops waiting   *)
(* for the thread but not the thread.                                      *)
(***************************************************************************)
EXTENDS TokenBucket, Sequences, FiniteSetsExt

CONSTANTS
    Items,           \* number of items in the batch
    WorkerCounts,    \* values of reward.num_workers to choose from
    MaxTokens, Rate, \* per bucket: capacity, tokens per tick
    TokenEstimates,  \* values of estimated_tokens_per_request to choose from
    MaxConcurrent,   \* max_concurrent
    Timeout,         \* timeout, in ticks
    MaxRetries,      \* max_retries of _post_request
    MaxPause,        \* longest pause between attempts
    LoopDelay        \* bound: ticks a ready task may wait for the event loop

Buckets == {"rpm", "tpm"}
Requests == 1..Items

ASSUME RewardAssumption ==
    /\ Items \in Nat \ {0}
    /\ \A n \in WorkerCounts : n \in 1..Items /\ Items % n = 0
    /\ \A b \in Buckets : MaxTokens[b] \in Nat \ {0} /\ Rate[b] \in Nat \ {0}
    /\ TokenEstimates \subseteq Nat \ {0}
    /\ MaxConcurrent \in Nat \ {0} /\ Timeout \in Nat \ {0}
    /\ MaxRetries \in Nat \ {0} /\ MaxPause \in Nat \ {0} /\ LoopDelay \in Nat

\* Of exponentiation the provers know only that it gives integers.
ASSUME BackoffAssumption == \A attempt \in 0..MaxRetries : 2^attempt \in Nat

VARIABLES
    conf,       \* chosen at the start, see Configurations
    now,        \* event loop time
    bucket,     \* per worker and bucket
    permits,    \* per worker: value of the semaphore
    threads,    \* items whose thread still runs after a timeout
    req,        \* per item
    granted,    \* history: tokens acquired, per worker and bucket
    batch,      \* "running", "returned" or "failed"
    awake       \* the reward model is awake

vars == <<conf, now, bucket, permits, threads, req, granted, batch, awake>>

Workers == 1..conf.num_workers

\* DataProto.chunk: equal contiguous parts.
WorkerOf(r) == (r - 1) \div (Items \div conf.num_workers) + 1

\* ready: since when the task is ready or until when it sleeps; start: when
\* the call began.
NewRequest ==
    [phase |-> IF conf.rm = "disrm" THEN "post" ELSE "rpm", sleep |-> "no",
     ready |-> 0, start |-> 0, attempt |-> 0, outcome |-> "none"]

\* rm: no reward model, one that compute_score_disrm asks, or one that a
\* custom compute_score asks; engine: what serves the reward model, of interest
\* to disrm only; is_async: compute_score is a coroutine.  Neither that nor the
\* estimate has an effect on disrm requests.
Configurations ==
    {c \in [num_workers : WorkerCounts, rm : {"none", "disrm", "genrm"},
            engine : {"sglang", "other"}, estimate : TokenEstimates,
            is_async : BOOLEAN] :
        /\ c.rm = "disrm" => /\ c.is_async
                             /\ \A e \in TokenEstimates : c.estimate <= e
        /\ c.rm # "disrm" => c.engine = "sglang"
        /\ c.rm = "genrm" => c.is_async}

Cost(b) == IF b = "rpm" THEN 1 ELSE conf.estimate

Init ==
    /\ conf \in Configurations
    /\ now = 0
    /\ bucket = [w \in Workers |-> [b \in Buckets |-> Full(MaxTokens[b])]]
    /\ permits = [w \in Workers |-> MaxConcurrent]
    /\ threads = {}
    /\ req = [r \in Requests |-> NewRequest]
    /\ granted = [w \in Workers |-> [b \in Buckets |-> 0]]
    /\ batch = "running"
    /\ awake = (conf.rm # "none")

-----------------------------------------------------------------------------
(* acquire                                                                  *)

NextPhase(phase) == IF phase = "rpm" THEN "tpm" ELSE "sem"

Grant(r, b) ==
    /\ req' = [req EXCEPT ![r].phase = NextPhase(@), ![r].sleep = "no", ![r].ready = now]
    /\ granted' = [granted EXCEPT ![WorkerOf(r)][b] = @ + Cost(b)]

Ready(r) == req[r].sleep = "no" \/ now >= req[r].ready

\* The body of acquire under the lock, at the call or after a sleep.
AcquireStandard(r, b) ==
    LET k == Refill(bucket[WorkerOf(r)][b], MaxTokens[b], Rate[b], now)
        n == Cost(b)
    IN
    /\ req[r].phase = b /\ req[r].sleep # "paid" /\ Ready(r)
    /\ ~Oversized(n, MaxTokens[b])
    /\ \/ /\ k.tokens >= n
          /\ bucket' = [bucket EXCEPT ![WorkerOf(r)][b] = Take(k, n)]
          /\ Grant(r, b)
       \/ /\ k.tokens < n
          /\ bucket' = [bucket EXCEPT ![WorkerOf(r)][b] = k]
          /\ req' = [req EXCEPT ![r].sleep = "retry",
                                ![r].ready = WakeFor(k, Rate[b], n, now)]
          /\ UNCHANGED granted
    /\ UNCHANGED <<conf, now, permits, threads, batch, awake>>

\* Fault: an oversized request returns at once, its tokens taken.
AcquireOversizedNoWait(r, b) ==
    LET k == Refill(bucket[WorkerOf(r)][b], MaxTokens[b], Rate[b], now)
        n == Cost(b)
    IN
    /\ req[r].phase = b /\ req[r].sleep = "no"
    /\ Oversized(n, MaxTokens[b])
    /\ bucket' = [bucket EXCEPT ![WorkerOf(r)][b] = Take(k, n)]
    /\ Grant(r, b)
    /\ UNCHANGED <<conf, now, permits, threads, batch, awake>>

AcquireOversized(r, b) ==
    LET k == Refill(bucket[WorkerOf(r)][b], MaxTokens[b], Rate[b], now)
        n == Cost(b)
    IN
    /\ req[r].phase = b /\ req[r].sleep = "no"
    /\ Oversized(n, MaxTokens[b])
    /\ bucket' = [bucket EXCEPT ![WorkerOf(r)][b] = Take(k, n)]
    /\ req' = [req EXCEPT ![r].sleep = "paid",
                          ![r].ready = WakeFor(k, Rate[b], n, now)]
    /\ UNCHANGED <<conf, now, permits, threads, granted, batch, awake>>

\* The single sleep of an oversized request is over and acquire returns.
OversizedReturns(r, b) ==
    /\ req[r].phase = b /\ req[r].sleep = "paid" /\ Ready(r)
    /\ Grant(r, b)
    /\ UNCHANGED <<conf, now, bucket, permits, threads, batch, awake>>

-----------------------------------------------------------------------------
(* run_single after the buckets                                             *)

StartCall(r) ==
    /\ req[r].phase = "sem" /\ permits[WorkerOf(r)] > 0
    /\ permits' = [permits EXCEPT ![WorkerOf(r)] = @ - 1]
    /\ req' = [req EXCEPT ![r].phase = "call", ![r].start = now]
    /\ UNCHANGED <<conf, now, bucket, threads, granted, batch, awake>>

\* A task that ended keeps its outcome only.
Finished(phase, outcome) ==
    [NewRequest EXCEPT !.phase = phase, !.outcome = outcome]

EndCall(r, outcome) ==
    /\ req[r].phase = "call"
    /\ permits' = [permits EXCEPT ![WorkerOf(r)] = @ + 1]
    /\ req' = [req EXCEPT ![r] = Finished("done", outcome)]
    /\ UNCHANGED <<conf, now, bucket, granted, batch, awake>>

\* What compute_score does is up to the data source of the item: it returns a
\* number, a dict, or a dict with acc among its keys (math_dapo); or it raises,
\* and the item scores 0, as a timed out one if it raised TimeoutError.
CallEnds(r) ==
    /\ \E outcome \in {"number", "dict", "acc_dict", "error", "timeout"} :
          EndCall(r, outcome)
    /\ UNCHANGED threads

\* Fault: the timeout path keeps the permit.
CallTimesOutHolding(r) ==
    /\ req[r].phase = "call" /\ now >= req[r].start + Timeout
    /\ req' = [req EXCEPT ![r] = Finished("done", "timeout")]
    /\ threads' = IF conf.is_async THEN threads ELSE threads \cup {r}
    /\ UNCHANGED <<conf, now, bucket, permits, granted, batch, awake>>

\* Fault: the call is shielded from the cancellation.
CallTimesOutShielded(r) ==
    /\ now >= req[r].start + Timeout
    /\ EndCall(r, "timeout")
    /\ threads' = threads \cup {r}

\* wait_for gives up and scores 0; a coroutine is cancelled, a thread not.
CallTimesOut(r) ==
    /\ now >= req[r].start + Timeout
    /\ EndCall(r, "timeout")
    /\ threads' = IF conf.is_async THEN threads ELSE threads \cup {r}

ThreadEnds(r) ==
    /\ r \in threads
    /\ threads' = threads \ {r}
    /\ UNCHANGED <<conf, now, bucket, permits, req, granted, batch, awake>>

-----------------------------------------------------------------------------
(* compute_score_disrm: _post_request, with no time limit on an attempt,    *)
(* and taking the score out of the answer                                   *)

Pause(attempt) == IF 2^attempt < MaxPause THEN 2^attempt ELSE MaxPause

\* HTTP 4xx raises at once; a server error, a lost connection and anything
\* else is tried again.
RetryOn(error) == error # "client"

Posting(r) == req[r].phase = "post" /\ conf.engine = "sglang" /\ Ready(r)

\* The answer holds a score, or has not the format it should have.
PostReturns(r) ==
    /\ Posting(r)
    /\ \/ req' = [req EXCEPT ![r] = Finished("done", "score")]
       \/ req' = [req EXCEPT ![r] = Finished("raised", "format")]
    /\ UNCHANGED <<conf, now, bucket, permits, threads, granted, batch, awake>>

PostFails(r) ==
    LET attempt == req[r].attempt IN
    /\ Posting(r)
    /\ \E error \in {"client", "server"} :
          req' = [req EXCEPT ![r] =
                     IF ~RetryOn(error) \/ attempt + 1 = MaxRetries
                     THEN [Finished("raised", error) EXCEPT !.attempt = attempt + 1]
                     ELSE [req[r] EXCEPT !.attempt = attempt + 1, !.sleep = "pause",
                                         !.ready = now + Pause(attempt),
                                         !.outcome = error]]
    /\ UNCHANGED <<conf, now, bucket, permits, threads, granted, batch, awake>>

\* trtllm and unknown engines raise before anything is posted.
EngineRaises(r) ==
    /\ req[r].phase = "post" /\ conf.engine = "other"
    /\ req' = [req EXCEPT ![r] = Finished("raised", "engine")]
    /\ UNCHANGED <<conf, now, bucket, permits, threads, granted, batch, awake>>

-----------------------------------------------------------------------------
(* compute_rm_score                                                         *)

\* Fault: a timed out item has no acc.
InfoKeysBare(r) ==
    IF conf.rm = "disrm" THEN {}
    ELSE CASE req[r].outcome = "number" -> {"acc"}
           [] req[r].outcome = "dict" -> {"score"}
           [] req[r].outcome = "acc_dict" -> {"score", "acc"}
           [] req[r].outcome = "timeout" -> {"timeout"}
           [] req[r].outcome = "error" -> {"error", "acc"}

\* The keys of reward_extra_info that run_single returns.
InfoKeys(r) ==
    IF conf.rm = "disrm" THEN {}
    ELSE CASE req[r].outcome = "number" -> {"acc"}
           [] req[r].outcome = "dict" -> {"score"}
           [] req[r].outcome = "acc_dict" -> {"score", "acc"}
           [] req[r].outcome = "timeout" -> {"timeout", "acc"}
           [] req[r].outcome = "error" -> {"error", "acc"}

\* Every key of the first item is looked up in all items.
KeysFound == \A r \in Requests : InfoKeys(1) \subseteq InfoKeys(r)

Gathered == \A r \in Requests : req[r].phase = "done"

Assemble ==
    /\ batch = "running" /\ Gathered
    /\ batch' = IF KeysFound THEN "returned" ELSE "failed"
    /\ awake' = IF KeysFound THEN FALSE ELSE awake
    /\ UNCHANGED <<conf, now, bucket, permits, threads, req, granted>>

\* gather and ray.get pass on the first exception.
BatchRaises ==
    /\ batch = "running" /\ \E r \in Requests : req[r].phase = "raised"
    /\ batch' = "failed"
    /\ UNCHANGED <<conf, now, bucket, permits, threads, req, granted, awake>>

-----------------------------------------------------------------------------
(* Time passes while somebody waits for it and no ready task is overdue.    *)

AwaitsClock(r) ==
    \/ req[r].sleep # "no" /\ now < req[r].ready
    \/ req[r].phase = "call" /\ now <= req[r].start + Timeout

Overdue(r) ==
    \/ req[r].phase \in Buckets /\ now >= req[r].ready + LoopDelay
    \/ req[r].phase = "sem" /\ permits[WorkerOf(r)] > 0
    \/ req[r].phase = "call" /\ now >= req[r].start + Timeout + LoopDelay

Tick ==
    /\ \E r \in Requests : AwaitsClock(r)
    /\ \A r \in Requests : ~Overdue(r)
    /\ now' = now + 1
    /\ UNCHANGED <<conf, bucket, permits, threads, req, granted, batch, awake>>

Acquire(r) ==
    \E b \in Buckets :
        AcquireStandard(r, b) \/ AcquireOversized(r, b) \/ OversizedReturns(r, b)

Next ==
    \/ Assemble \/ BatchRaises \/ Tick
    \/ \E r \in Requests :
          \/ Acquire(r) \/ StartCall(r) \/ CallEnds(r) \/ CallTimesOut(r)
          \/ ThreadEnds(r) \/ PostReturns(r) \/ PostFails(r) \/ EngineRaises(r)

Spec == Init /\ [][Next]_vars

\* The event loop runs ready tasks and timers; nothing makes compute_score or
\* an HTTP request without a time limit return.
Fairness ==
    /\ WF_vars(Assemble) /\ WF_vars(Tick)
    /\ \A r \in Requests : WF_vars(Acquire(r)) /\ WF_vars(StartCall(r))
                           /\ WF_vars(CallTimesOut(r))

FairSpec == Spec /\ Fairness

-----------------------------------------------------------------------------
\* Every field has its type; the balance of a bucket never exceeds max_tokens.
TypeOK ==
    /\ now \in Nat
    /\ \A w \in Workers, b \in Buckets :
          bucket[w][b].tokens \in Int /\ bucket[w][b].tokens <= MaxTokens[b]
          /\ bucket[w][b].last \in 0..now
    /\ permits \in [Workers -> 0..MaxConcurrent]
    /\ threads \subseteq Requests
    /\ req \in [Requests ->
          [phase : {"rpm", "tpm", "sem", "call", "post", "done", "raised"},
           sleep : {"no", "retry", "paid", "pause"}, ready : Nat, start : Nat,
           attempt : 0..MaxRetries,
           outcome : {"none", "score", "number", "dict", "acc_dict", "timeout",
                      "error", "client", "server", "format", "engine"}]]
    /\ batch \in {"running", "returned", "failed"} /\ awake \in BOOLEAN

\* What the callers of one bucket have been granted so far never exceeds its
\* capacity plus what the elapsed time refills, also with requests above the
\* capacity, which take the balance below zero, among them.
RateBound ==
    \A w \in Workers, b \in Buckets : granted[w][b] <= MaxTokens[b] + Rate[b] * now

\* A waiting request never sleeps past the tick in which the bucket, left
\* alone, could serve it, whatever others took after it went to sleep.
NoOversleep ==
    \A r \in Requests :
        req[r].sleep = "retry" =>
            LET b == req[r].phase
                k == bucket[WorkerOf(r)][b]
            IN  k.tokens + (req[r].ready - k.last) * Rate[b] < Cost(b) + Rate[b]

\* The buckets keep the rate, and nobody waits for longer than that takes.
BucketInv == TypeOK /\ RateBound /\ NoOversleep

Calling(w) == {r \in Requests : WorkerOf(r) = w /\ req[r].phase = "call"}

\* Calls of compute_score going on in worker w, abandoned threads included.
ApiCalls(w) ==
    Cardinality(Calling(w)) + Cardinality({r \in threads : WorkerOf(r) = w})

\* A permit is with the semaphore or with a call, however calls end; so if
\* compute_score is a coroutine, which a timeout cancels, a worker has at most
\* max_concurrent calls of it going on.
SlotsKept ==
    \A w \in Workers :
        /\ permits[w] + Cardinality(Calling(w)) = MaxConcurrent
        /\ conf.is_async => ApiCalls(w) <= MaxConcurrent

\* compute_rm_score returns with a score for every item, nothing of the batch
\* going on and the reward model asleep again.
ReturnedComplete ==
    batch = "returned" =>
        /\ \A r \in Requests : req[r].phase = "done" /\ req[r].outcome # "none"
        /\ ~awake

\* With a reward model a batch fails only because an item raised: the engine is
\* not supported, the request is refused, max_retries attempts failed or the
\* answer has not the expected format.  With the rate limiter no item fails the
\* batch by itself, but two items that ended differently do, except that after
\* a number in first place only a dict without acc is fatal, and after a dict
\* without acc a dict with acc is not.
FailureCause ==
    batch = "failed" =>
        IF conf.rm = "disrm"
        THEN \E r \in Requests :
                /\ req[r].phase = "raised"
                /\ IF conf.engine = "other" THEN req[r].outcome = "engine"
                   ELSE \/ req[r].outcome \in {"client", "format"}
                        \/ req[r].outcome = "server" /\ req[r].attempt = MaxRetries
        ELSE \E r \in Requests :
                /\ req[r].outcome # req[1].outcome
                /\ req[1].outcome = "number" => req[r].outcome = "dict"
                /\ req[1].outcome = "dict" => req[r].outcome # "acc_dict"

\* A batch returns complete, or fails for one of the causes the code has.
BatchOutcome == ReturnedComplete /\ FailureCause

\* With the rate limiter every item is scored, whether compute_score returns
\* or not: nobody waits for ever for tokens or for the semaphore.
LimitedBatchEnds == conf.rm # "disrm" ~> batch # "running"

\* The request and token limits hold over all workers together.
SharedRateLimit ==
    \A b \in Buckets :
        MapThenSumSet(LAMBDA w : granted[w][b], Workers) <= MaxTokens[b] + Rate[b] * now

\* A worker never has more than max_concurrent calls of compute_score going on.
ConcurrencyLimited == \A w \in Workers : ApiCalls(w) <= MaxConcurrent

\* The docstring of RateLimitedRewardManager says that max_concurrent limits the
\* simultaneous requests and that all limits are shared by the workers.  A state
\* that breaks this invariant breaks both promises at once.
LimitsAsDocumented == SharedRateLimit \/ ConcurrencyLimited
=============================================================================
