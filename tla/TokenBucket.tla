----------------------------- MODULE TokenBucket -----------------------------
(***************************************************************************)
(* The state of TokenBucket (src/order_manager/rate_limiter.rs).           *)
(*                                                                         *)
(* The f64 fill level is counted in units: TokenUnit units are one token,  *)
(* and FillRate units flow in per tick of the clock.  A tick is what a      *)
(* Duration counts in, a nanosecond: nothing happens between two of them.  *)
(* The rounding of f64 sums and quotients is left out.  consume holds the lock on tokens from its first  *)
(* line to its last, so a call is one step.                                *)
(***************************************************************************)
EXTENDS Integers

CONSTANTS Capacity,   \* the burst size, in units
          TokenUnit,  \* units per token
          FillRate    \* units per tick

ASSUME BucketAssumption ==
    /\ Capacity \in Nat
    /\ TokenUnit \in Nat \ {0}
    /\ FillRate \in Nat \ {0}

VARIABLES now,        \* Instant::now()
          tokens,     \* the level at lastUpdate
          lastUpdate

bucketVars == <<now, tokens, lastUpdate>>

BucketTypeOK ==
    /\ now \in Nat
    /\ tokens \in 0 .. Capacity
    /\ lastUpdate \in 0 .. now

BucketInit ==
    /\ now = 0
    /\ tokens = Capacity
    /\ lastUpdate = 0

\* The level once the time since the last update has been credited.
Refilled ==
    LET level == tokens + (now - lastUpdate) * FillRate
    IN  IF level <= Capacity THEN level ELSE Capacity

\* Mutant: the time already credited is credited again by the next call.
GrantKeepsLastUpdate ==
    /\ Refilled >= TokenUnit
    /\ tokens' = Refilled - TokenUnit
    /\ UNCHANGED <<now, lastUpdate>>

\* consume returns Ok.
Grant ==
    /\ Refilled >= TokenUnit
    /\ tokens' = Refilled - TokenUnit
    /\ lastUpdate' = now
    /\ UNCHANGED now

\* consume returns RateLimitError; the refill is credited all the same.
Refuse ==
    /\ Refilled < TokenUnit
    /\ tokens' = Refilled
    /\ lastUpdate' = now
    /\ UNCHANGED now

\* Mutant: the deficit is taken before the refill.
RetryAfterBeforeRefill == (TokenUnit - tokens + FillRate - 1) \div FillRate

\* retry_after of a refusal: deficit / fill_rate_per_sec, which from_secs_f64
\* rounds to the nearest tick, a tie to the even one.
RetryAfter ==
    LET ticks == (TokenUnit - Refilled) \div FillRate
        rest  == (TokenUnit - Refilled) % FillRate
    IN  IF 2 * rest > FillRate \/ (2 * rest = FillRate /\ ticks % 2 = 1)
        THEN ticks + 1
        ELSE ticks
==============================================================================
