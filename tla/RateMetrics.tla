----------------------------- MODULE RateMetrics ------------------------------
(***************************************************************************)
(* available_tokens of TokenBucket (src/order_manager/rate_limiter.rs):    *)
(* a reader for the metrics, in the middle of other tasks' consume.  It    *)
(* locks tokens, then last_update, and reads the clock with both released, *)
(* so a reading can mix the fields of two states of the bucket.            *)
(***************************************************************************)
EXTENDS RateLimiter

VARIABLE reader  \* [at, tokens, lastUpdate]: how far the call is, and what it
                 \* has read; and [since, granted], a history: last_update when
                 \* tokens was read, and the grants from then on

metricsVars == <<vars, reader>>

NoReader == [at |-> "idle", tokens |-> 0, lastUpdate |-> 0, since |-> 0, granted |-> 0]

MetricsInit == Init /\ reader = NoReader

ReadTokens ==
    /\ reader.at = "idle"
    /\ reader' = [at |-> "tokens", tokens |-> tokens, lastUpdate |-> 0,
                  since |-> lastUpdate, granted |-> 0]
    /\ UNCHANGED vars

ReadLastUpdate ==
    /\ reader.at = "tokens"
    /\ reader' = [reader EXCEPT !.at = "clock", !.lastUpdate = lastUpdate]
    /\ UNCHANGED vars

\* Mutant: the level is not capped at the burst size.
ReadingUncapped == reader.tokens + (now - reader.lastUpdate) * FillRate

\* What available_tokens returns if it reads the clock now.
Reading ==
    LET level == reader.tokens + (now - reader.lastUpdate) * FillRate
    IN  IF level <= Capacity THEN level ELSE Capacity

Return == reader.at = "clock" /\ reader' = NoReader /\ UNCHANGED vars

\* The tasks around the reader.
MetricsTick == Tick /\ UNCHANGED reader

MetricsConsumeOk ==
    /\ ConsumeOk
    /\ reader' = IF reader.at = "idle" THEN reader
                 ELSE [reader EXCEPT !.granted = @ + 1]

MetricsConsumeErr == ConsumeErr /\ UNCHANGED reader

MetricsNext ==
    \/ ReadTokens \/ ReadLastUpdate \/ Return
    \/ MetricsTick \/ MetricsConsumeOk \/ MetricsConsumeErr

MetricsSpec == MetricsInit /\ [][MetricsNext]_metricsVars

\* Type invariant.
MetricsTypeOK ==
    /\ TypeOK
    /\ reader \in [at : {"idle", "tokens", "clock"}, tokens : 0 .. Capacity,
                   lastUpdate : Nat, since : Nat, granted : Nat]

\* However the calls of consume fall between its two locks, available_tokens
\* returns at most the level and the tokens granted during the call, and misses
\* at most what they credited of the time before; with no consume in between it
\* returns the level (available_tokens).
ReadingIsBounded ==
    reader.at = "clock" =>
        /\ Reading <= Refilled + reader.granted * TokenUnit
        /\ Refilled <= Reading + (reader.lastUpdate - reader.since) * FillRate
===============================================================================
