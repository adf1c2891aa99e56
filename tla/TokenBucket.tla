---------------------------- MODULE TokenBucket -----------------------------
(***************************************************************************)
(* AsyncTokenBucket (reward_loop/reward_manager/limited.py) as operators   *)
(* on a bucket record.  Time is counted in ticks and rate_limit is tokens  *)
(* per tick; a sleep of a fraction of a tick ends at the next tick, as an  *)
(* asyncio sleep may always end late.  last_update, None before the first  *)
(* call, is the start of time: the bucket is full until then.              *)
(***************************************************************************)
EXTENDS Integers

Full(max) == [tokens |-> max, last |-> 0]

CeilDiv(a, b) == (a + b - 1) \div b

Refill(k, max, rate, now) ==
    LET grown == k.tokens + (now - k.last) * rate
    IN  [tokens |-> IF grown < max THEN grown ELSE max, last |-> now]

Take(k, n) == [k EXCEPT !.tokens = @ - n]

\* When a caller that found bucket k sleeps to: wait_time after now.
WakeFor(k, rate, n, now) == now + CeilDiv(n - k.tokens, rate)

\* A request above max_tokens goes another way: it takes the tokens at once,
\* letting the balance go negative, and sleeps once.
Oversized(n, max) == n > max
=============================================================================
