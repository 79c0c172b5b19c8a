----------------------------- MODULE RateLimiter -----------------------------
(***************************************************************************)
(* A token bucket in use: any number of callers, a clock, and the record   *)
(* of what the callers were told.                                          *)
(***************************************************************************)
EXTENDS TokenBucket, Sequences

CONSTANT MaxTime  \* bound: the clock

VARIABLES grants,  \* history: the times at which a token was granted
          promises \* history: the times at which the callers refused since
                   \* the last grant have been told to try again

vars == <<bucketVars, grants, promises>>

Init == BucketInit /\ grants = <<>> /\ promises = {}

Tick ==
    /\ now < MaxTime
    /\ now' = now + 1
    /\ UNCHANGED <<tokens, lastUpdate, grants, promises>>

ConsumeOk ==
    /\ Grant
    /\ grants' = Append(grants, now)
    /\ promises' = {}

ConsumeErr ==
    /\ Refuse
    /\ promises' = promises \cup {now + RetryAfter}
    /\ UNCHANGED grants

Next == Tick \/ ConsumeOk \/ ConsumeErr

Spec == Init /\ [][Next]_vars

\* Type invariant; the level stays between empty and the burst size.
TypeOK ==
    /\ BucketTypeOK
    /\ grants \in Seq(0 .. now)
    /\ promises \subseteq Nat

\* In every window of time, not only from the start, the tokens granted are at
\* most the burst size plus what flows in during the window (consume).
RateIsBounded ==
    \A i, j \in 1 .. Len(grants) : i <= j =>
        (j - i + 1) * TokenUnit <= Capacity + (grants[j] - grants[i]) * FillRate

\* Whatever other callers do in between, the announced time is right to the
\* tick: nobody is served before it, and nobody is refused after it.  At the
\* announced tick itself the wait, rounded to the nearest one, may have brought
\* a caller back less than half a tick early (consume, RateLimitError).
RetryAfterIsAccurate ==
    [][\A p \in promises : /\ ConsumeOk => now >= p
                           /\ ConsumeErr => now <= p]_vars
==============================================================================
