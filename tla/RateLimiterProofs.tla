-------------------------- MODULE RateLimiterProofs --------------------------
(***************************************************************************)
(* Proofs about RateLimiter and about the reader that RateMetrics adds, for *)
(* every capacity, token size and fill rate.                               *)
(***************************************************************************)
EXTENDS RateMetrics, TLAPS

LEMMA Distribute ==
    \A a, b, c \in Int : (a + b) * c = a * c + b * c
OBVIOUS

------------------------------------------------------------------------------
(* Type correctness.                                                       *)

\* The refill never takes the level out of its range (consume).
LEMMA RefilledType ==
    ASSUME BucketTypeOK
    PROVE  /\ Refilled \in 0 .. Capacity
           /\ Refilled <= tokens + (now - lastUpdate) * FillRate
<1>1. (now - lastUpdate) * FillRate \in Nat
    BY BucketAssumption DEF BucketTypeOK
<1>. QED BY <1>1, BucketAssumption DEF BucketTypeOK, Refilled

LEMMA RetryAfterType ==
    ASSUME BucketTypeOK, Refuse
    PROVE  RetryAfter \in Nat
<1>1. TokenUnit - Refilled \in Nat
    BY RefilledType, BucketAssumption DEF Refuse
<1>2. (TokenUnit - Refilled) \div FillRate \in Nat
    BY <1>1, BucketAssumption
<1>. QED BY <1>2 DEF RetryAfter

\* Every variable keeps its type, the level its range (consume).
THEOREM RateLimiterTypeCorrect == Spec => []TypeOK
<1>1. Init => TypeOK
    BY BucketAssumption DEF Init, BucketInit, TypeOK, BucketTypeOK
<1>2. TypeOK /\ [Next]_vars => TypeOK'
    <2>. SUFFICES ASSUME TypeOK, [Next]_vars PROVE TypeOK'
        OBVIOUS
    <2>. USE DEF TypeOK, BucketTypeOK
    <2>1. CASE Tick
        <3>1. 0 .. now \subseteq 0 .. now'
            BY <2>1 DEF Tick
        <3>. QED BY <2>1, <3>1 DEF Tick
    <2>2. CASE ConsumeOk
        BY <2>2, RefilledType, BucketAssumption DEF ConsumeOk, Grant
    <2>3. CASE ConsumeErr
        <3>1. now + RetryAfter \in Nat
            BY <2>3, RetryAfterType DEF ConsumeErr
        <3>2. promises' \subseteq Nat
            BY <2>3, <3>1 DEF ConsumeErr
        <3>. QED BY <2>3, <3>2, RefilledType, BucketAssumption DEF ConsumeErr, Refuse
    <2>4. CASE UNCHANGED vars
        BY <2>4 DEF vars, bucketVars
    <2>. QED BY <2>1, <2>2, <2>3, <2>4 DEF Next
<1>. QED BY <1>1, <1>2, PTL DEF Spec

------------------------------------------------------------------------------
(* The rate.                                                               *)

\* Per window that ends at the last update: what was granted, and what is
\* still there to be granted, came out of the burst or flowed in.
WindowInv ==
    \A i \in 1 .. Len(grants) :
        /\ grants[i] <= lastUpdate
        /\ (Len(grants) - i + 1) * TokenUnit + tokens
               <= Capacity + (lastUpdate - grants[i]) * FillRate

RateInv == TypeOK /\ WindowInv /\ RateIsBounded

LEMMA WindowInvStep ==
    ASSUME TypeOK, WindowInv, Next
    PROVE  WindowInv'
<1>. USE DEF TypeOK, BucketTypeOK
<1>1. CASE Tick
    BY <1>1 DEF Tick, WindowInv
<1>2. CASE ConsumeOk
    <2>. DEFINE n == Len(grants)
    <2>1. /\ Len(grants') = n + 1
          /\ grants'[n + 1] = now
          /\ \A i \in 1 .. n : grants'[i] = grants[i]
        BY <1>2 DEF ConsumeOk
    <2>2. tokens' = Refilled - TokenUnit /\ lastUpdate' = now
        BY <1>2 DEF ConsumeOk, Grant
    <2>3. ASSUME NEW i \in 1 .. n
          PROVE  /\ grants'[i] <= lastUpdate'
                 /\ (n + 1 - i + 1) * TokenUnit + tokens'
                        <= Capacity + (lastUpdate' - grants'[i]) * FillRate
        <3>1. (n + 1 - i + 1) * TokenUnit = (n - i + 1) * TokenUnit + TokenUnit
            BY BucketAssumption
        <3>2. (now - grants[i]) * FillRate
                  = (now - lastUpdate) * FillRate
                    + (lastUpdate - grants[i]) * FillRate
            BY Distribute, BucketAssumption
        <3>3. (n - i + 1) * TokenUnit + tokens
                  <= Capacity + (lastUpdate - grants[i]) * FillRate
            BY DEF WindowInv
        <3>4. /\ (n - i + 1) * TokenUnit \in Int
              /\ (now - lastUpdate) * FillRate \in Int
              /\ (lastUpdate - grants[i]) * FillRate \in Int
            BY BucketAssumption
        <3>5. Refilled \in Int /\ TokenUnit \in Int /\ Capacity \in Int
            BY RefilledType, BucketAssumption
        <3>6. Refilled <= tokens + (now - lastUpdate) * FillRate
            BY RefilledType
        <3>7. grants'[i] <= lastUpdate'
            BY <2>1, <2>2
        <3>8. (n + 1 - i + 1) * TokenUnit + tokens'
                  <= Capacity + (now - grants[i]) * FillRate
            <4>. DEFINE used == (n - i + 1) * TokenUnit
                        inflow == (now - lastUpdate) * FillRate
                        before == (lastUpdate - grants[i]) * FillRate
            <4>1. /\ used \in Int /\ inflow \in Int /\ before \in Int
                  /\ tokens \in Int
                BY <3>4
            <4>2. /\ used + tokens <= Capacity + before
                  /\ Refilled <= tokens + inflow
                BY <3>3, <3>6
            <4>. HIDE DEF used, inflow, before
            <4>3. (used + TokenUnit) + (Refilled - TokenUnit)
                      <= Capacity + (inflow + before)
                BY <3>5, <4>1, <4>2
            <4>. QED BY <2>2, <3>1, <3>2, <4>3 DEF used, inflow, before
        <3>. QED BY <2>1, <2>2, <3>7, <3>8
    <2>4. (n + 1 - (n + 1) + 1) * TokenUnit + tokens'
              <= Capacity + (now - now) * FillRate
        BY <2>2, RefilledType, BucketAssumption
    <2>. QED BY <2>1, <2>2, <2>3, <2>4 DEF WindowInv
<1>3. CASE ConsumeErr
    <2>1. ASSUME NEW i \in 1 .. Len(grants)
          PROVE  /\ grants[i] <= now
                 /\ (Len(grants) - i + 1) * TokenUnit + Refilled
                        <= Capacity + (now - grants[i]) * FillRate
        <3>1. (now - grants[i]) * FillRate
                  = (now - lastUpdate) * FillRate
                    + (lastUpdate - grants[i]) * FillRate
            BY Distribute, BucketAssumption
        <3>2. /\ (Len(grants) - i + 1) * TokenUnit \in Int
              /\ (now - lastUpdate) * FillRate \in Int
              /\ (lastUpdate - grants[i]) * FillRate \in Int
              /\ Refilled \in Int /\ Capacity \in Int
            BY RefilledType, BucketAssumption
        <3>3. /\ grants[i] <= now
              /\ (Len(grants) - i + 1) * TokenUnit + tokens
                     <= Capacity + (lastUpdate - grants[i]) * FillRate
              /\ Refilled <= tokens + (now - lastUpdate) * FillRate
            BY RefilledType DEF WindowInv
        <3>. DEFINE used == (Len(grants) - i + 1) * TokenUnit
                    inflow == (now - lastUpdate) * FillRate
                    before == (lastUpdate - grants[i]) * FillRate
        <3>4. /\ used \in Int /\ inflow \in Int /\ before \in Int
              /\ tokens \in Int /\ Refilled \in Int /\ Capacity \in Int
              /\ used + tokens <= Capacity + before
              /\ Refilled <= tokens + inflow
            BY <3>2, <3>3
        <3>. HIDE DEF used, inflow, before
        <3>5. used + Refilled <= Capacity + (inflow + before)
            BY <3>4
        <3>. QED BY <3>1, <3>3, <3>5 DEF used, inflow, before
    <2>. QED BY <1>3, <2>1 DEF ConsumeErr, Refuse, WindowInv
<1>. QED BY <1>1, <1>2, <1>3 DEF Next

LEMMA RateIsBoundedStep ==
    ASSUME TypeOK, TypeOK', RateIsBounded, WindowInv', Next
    PROVE  RateIsBounded'
<1>. USE DEF TypeOK, BucketTypeOK
<1>1. CASE ConsumeOk
    <2>. DEFINE n == Len(grants)
    <2>1. /\ Len(grants') = n + 1
          /\ grants'[n + 1] = now
          /\ \A i \in 1 .. n : grants'[i] = grants[i]
          /\ lastUpdate' = now
        BY <1>1 DEF ConsumeOk, Grant
    <2>2. ASSUME NEW i \in 1 .. n + 1
          PROVE  (n + 1 - i + 1) * TokenUnit
                     <= Capacity + (grants'[n + 1] - grants'[i]) * FillRate
        <3>1. (n + 1 - i + 1) * TokenUnit + tokens'
                  <= Capacity + (now - grants'[i]) * FillRate
            BY <2>1 DEF WindowInv
        <3>2. grants'[i] \in Nat
            BY <2>1
        <3>3. /\ (n + 1 - i + 1) * TokenUnit \in Int
              /\ (now - grants'[i]) * FillRate \in Int
              /\ tokens' \in Nat /\ Capacity \in Int
            BY <3>2, BucketAssumption
        <3>. QED BY <2>1, <3>1, <3>3
    <2>3. ASSUME NEW i \in 1 .. n, NEW j \in 1 .. n, i <= j
          PROVE  (j - i + 1) * TokenUnit
                     <= Capacity + (grants'[j] - grants'[i]) * FillRate
        BY <2>1, <2>3 DEF RateIsBounded
    <2>. SUFFICES ASSUME NEW i \in 1 .. n + 1, NEW j \in 1 .. n + 1, i <= j
                  PROVE  (j - i + 1) * TokenUnit
                             <= Capacity + (grants'[j] - grants'[i]) * FillRate
        BY <2>1 DEF RateIsBounded
    <2>4. CASE j = n + 1
        BY <2>2, <2>4
    <2>5. CASE j # n + 1
        <3>1. n \in Nat
            OBVIOUS
        <3>. HIDE DEF n
        <3>2. i \in 1 .. n /\ j \in 1 .. n
            BY <2>5, <3>1
        <3>. QED BY <2>3, <3>2
    <2>. QED BY <2>4, <2>5
<1>2. CASE UNCHANGED grants
    BY <1>2 DEF RateIsBounded
<1>. QED BY <1>1, <1>2 DEF Next, Tick, ConsumeErr

\* Whatever the callers and the clock do, no window of time sees more orders
\* admitted than the burst size plus the refill of the window (consume).
THEOREM RateAlwaysBounded == Spec => []RateIsBounded
<1>1. Init => RateInv
    BY BucketAssumption
    DEF Init, BucketInit, RateInv, TypeOK, BucketTypeOK, WindowInv, RateIsBounded
<1>2. RateInv /\ TypeOK' /\ [Next]_vars => RateInv'
    <2>1. CASE Next
        BY <2>1, WindowInvStep, RateIsBoundedStep DEF RateInv
    <2>2. CASE UNCHANGED vars
        BY <2>2 DEF vars, bucketVars, RateInv, TypeOK, BucketTypeOK, WindowInv,
                    RateIsBounded
    <2>. QED BY <2>1, <2>2
<1>3. RateInv => RateIsBounded
    BY DEF RateInv
<1>. QED BY <1>1, <1>2, <1>3, RateLimiterTypeCorrect, PTL DEF Spec

------------------------------------------------------------------------------
(* The announced wait.                                                     *)

LEMMA DivisionWithRest ==
    ASSUME NEW x \in Nat, NEW f \in Nat \ {0}
    PROVE  /\ x \div f \in Nat
           /\ x % f \in 0 .. f - 1
           /\ x = (x \div f) * f + (x % f)
OBVIOUS

LEMMA ProductMonotone ==
    ASSUME NEW a \in Int, NEW b \in Int, NEW f \in Nat, a <= b
    PROVE  a * f <= b * f
OBVIOUS

\* What would be in an uncapped bucket at a time: the level at the last update
\* and what flows in from then on.
LevelAt(time) == tokens + (time - lastUpdate) * FillRate

\* At an announced time the level will be within half a tick's inflow of a token.
PromiseInv ==
    \A p \in promises : /\ 2 * LevelAt(p) <= 2 * TokenUnit + FillRate
                        /\ 2 * TokenUnit <= 2 * LevelAt(p) + FillRate

LEMMA LevelAtType ==
    ASSUME TypeOK, NEW time \in Nat
    PROVE  LevelAt(time) \in Int
BY BucketAssumption DEF LevelAt, TypeOK, BucketTypeOK

\* A tick brings FillRate; an earlier time has less, a later one more.
LEMMA LevelAtGrows ==
    ASSUME TypeOK, NEW s \in Nat, NEW u \in Nat, s < u
    PROVE  LevelAt(s) + FillRate <= LevelAt(u)
<1>. USE BucketAssumption DEF TypeOK, BucketTypeOK
<1>1. ((s - lastUpdate) + 1) * FillRate
          = (s - lastUpdate) * FillRate + 1 * FillRate
    BY Distribute
<1>2. ((s - lastUpdate) + 1) * FillRate <= (u - lastUpdate) * FillRate
    BY ProductMonotone
<1>3. /\ (s - lastUpdate) * FillRate \in Int
      /\ (u - lastUpdate) * FillRate \in Int
    OBVIOUS
<1>. QED BY <1>1, <1>2, <1>3 DEF LevelAt

\* The wait is within half a tick of the deficit (consume).
LEMMA WaitIsRounded ==
    ASSUME TypeOK, Refuse
    PROVE  /\ 2 * (Refilled + RetryAfter * FillRate) <= 2 * TokenUnit + FillRate
           /\ 2 * TokenUnit <= 2 * (Refilled + RetryAfter * FillRate) + FillRate
<1>. DEFINE deficit == TokenUnit - Refilled
            ticks == deficit \div FillRate
            rest == deficit % FillRate
<1>1. /\ deficit \in Nat /\ Refilled \in Nat /\ TokenUnit \in Nat
      /\ FillRate \in Nat \ {0}
      /\ TokenUnit = Refilled + deficit
    BY RefilledType, BucketAssumption DEF Refuse, TypeOK
<1>2. /\ ticks \in Nat
      /\ rest \in 0 .. FillRate - 1
      /\ deficit = ticks * FillRate + rest
    BY <1>1, DivisionWithRest
<1>3. (ticks + 1) * FillRate = ticks * FillRate + FillRate
    BY <1>1, <1>2
<1>4. \/ RetryAfter = ticks /\ 2 * rest <= FillRate
      \/ RetryAfter = ticks + 1 /\ 2 * rest >= FillRate
    BY <1>1, <1>2 DEF RetryAfter
<1>5. ticks * FillRate \in Nat
    BY <1>1, <1>2
<1>. HIDE DEF deficit, ticks, rest
<1>6. CASE RetryAfter = ticks /\ 2 * rest <= FillRate
    BY <1>1, <1>2, <1>5, <1>6
<1>7. CASE RetryAfter = ticks + 1 /\ 2 * rest >= FillRate
    BY <1>1, <1>2, <1>3, <1>5, <1>7
<1>. QED BY <1>4, <1>6, <1>7

\* A refusal credits exactly what has flowed in.
LEMMA RefusalCredits ==
    ASSUME Capacity >= TokenUnit, TypeOK, Refuse
    PROVE  Refilled = LevelAt(now)
BY BucketAssumption DEF Refuse, Refilled, LevelAt, TypeOK, BucketTypeOK

LEMMA PromiseInvStep ==
    ASSUME Capacity >= TokenUnit, TypeOK, TypeOK', PromiseInv, Next
    PROVE  PromiseInv'
<1>1. CASE Tick
    BY <1>1 DEF Tick, PromiseInv, LevelAt
<1>2. CASE ConsumeOk
    BY <1>2 DEF ConsumeOk, PromiseInv
<1>3. CASE ConsumeErr
    <2>1. /\ tokens' = Refilled /\ lastUpdate' = now
          /\ promises' = promises \cup {now + RetryAfter}
          /\ Refuse
        BY <1>3 DEF ConsumeErr, Refuse
    <2>2. RetryAfter \in Nat /\ now \in Nat /\ lastUpdate \in Nat
        BY <2>1, RetryAfterType DEF TypeOK, BucketTypeOK
    <2>due. PICK due \in Nat : due = now + RetryAfter
        BY <2>2
    <2>3. LevelAt(due)' = Refilled + RetryAfter * FillRate
        <3>1. due - now = RetryAfter
            BY <2>2, <2>due
        <3>. QED BY <2>1, <3>1 DEF LevelAt
    <2>4. ASSUME NEW p \in promises
          PROVE  LevelAt(p)' = LevelAt(p)
        <3>1. p \in Nat
            BY DEF TypeOK
        <3>2. ((p - now) + (now - lastUpdate)) * FillRate
                  = (p - now) * FillRate + (now - lastUpdate) * FillRate
            BY <2>2, <3>1, Distribute, BucketAssumption
        <3>3. (p - now) + (now - lastUpdate) = p - lastUpdate
            BY <2>2, <3>1
        <3>4. /\ (p - now) * FillRate \in Int
              /\ (now - lastUpdate) * FillRate \in Int
              /\ tokens \in Int
            BY <2>2, <3>1, BucketAssumption DEF TypeOK, BucketTypeOK
        <3>5. Refilled = tokens + (now - lastUpdate) * FillRate
            BY <2>1, RefusalCredits DEF LevelAt
        <3>6. LevelAt(p)' = Refilled + (p - now) * FillRate
            BY <2>1 DEF LevelAt
        <3>. QED BY <3>2, <3>3, <3>4, <3>5, <3>6 DEF LevelAt
    <2>. SUFFICES ASSUME NEW p \in promises'
                  PROVE  /\ 2 * LevelAt(p)' <= 2 * TokenUnit + FillRate
                         /\ 2 * TokenUnit <= 2 * LevelAt(p)' + FillRate
        BY DEF PromiseInv
    <2>5. CASE p = due
        BY <2>1, <2>3, <2>5, WaitIsRounded
    <2>6. CASE p \in promises
        BY <2>4, <2>6 DEF PromiseInv
    <2>. QED BY <2>1, <2>due, <2>5, <2>6
<1>. QED BY <1>1, <1>2, <1>3 DEF Next

\* A token is there to take only from the announced time on.
LEMMA NotServedEarly ==
    ASSUME TypeOK, PromiseInv, ConsumeOk, NEW p \in promises
    PROVE  now >= p
<1>. SUFFICES ASSUME now < p PROVE FALSE
    BY DEF TypeOK, BucketTypeOK
<1>1. now \in Nat /\ p \in Nat
    BY DEF TypeOK, BucketTypeOK
<1>2. LevelAt(now) + FillRate <= LevelAt(p)
    BY <1>1, LevelAtGrows
<1>3. 2 * LevelAt(p) <= 2 * TokenUnit + FillRate
    BY DEF PromiseInv
<1>4. /\ Refilled <= LevelAt(now) /\ Refilled >= TokenUnit
      /\ Refilled \in Int
    BY RefilledType DEF TypeOK, ConsumeOk, Grant, LevelAt
<1>. QED BY <1>1, <1>2, <1>3, <1>4, LevelAtType, BucketAssumption

\* After the announced time it is there.
LEMMA NotRefusedLate ==
    ASSUME Capacity >= TokenUnit, TypeOK, PromiseInv, ConsumeErr,
           NEW p \in promises
    PROVE  now <= p
<1>. SUFFICES ASSUME p < now PROVE FALSE
    BY DEF TypeOK, BucketTypeOK
<1>1. now \in Nat /\ p \in Nat
    BY DEF TypeOK, BucketTypeOK
<1>2. LevelAt(p) + FillRate <= LevelAt(now)
    BY <1>1, LevelAtGrows
<1>3. 2 * TokenUnit <= 2 * LevelAt(p) + FillRate
    BY DEF PromiseInv
<1>4. LevelAt(now) < TokenUnit
    BY RefusalCredits DEF ConsumeErr, Refuse
<1>. QED BY <1>1, <1>2, <1>3, <1>4, LevelAtType, BucketAssumption

\* When the bucket can hold a token at all, the announced wait is right to the
\* tick, whatever other callers do meanwhile (consume, RateLimitError::retry_after).
THEOREM RetryAfterAlwaysAccurate ==
    ASSUME Capacity >= TokenUnit
    PROVE  Spec => RetryAfterIsAccurate
<1>1. Init => PromiseInv
    BY DEF Init, PromiseInv
<1>2. TypeOK /\ TypeOK' /\ PromiseInv /\ [Next]_vars => PromiseInv'
    <2>1. CASE UNCHANGED vars
        BY <2>1 DEF vars, bucketVars, PromiseInv, LevelAt
    <2>. QED BY <2>1, PromiseInvStep
<1>3. TypeOK /\ PromiseInv /\ [Next]_vars
      => [\A p \in promises : /\ ConsumeOk => now >= p
                              /\ ConsumeErr => now <= p]_vars
    BY NotServedEarly, NotRefusedLate
<1>. QED BY <1>1, <1>2, <1>3, RateLimiterTypeCorrect, PTL
         DEF Spec, RetryAfterIsAccurate

------------------------------------------------------------------------------
(* The reader.                                                             *)

LEMMA MetricsStepIsAStep == [MetricsNext]_metricsVars => [Next]_vars
    BY DEF MetricsNext, metricsVars, Next, ReadTokens, ReadLastUpdate, Return,
           MetricsTick, MetricsConsumeOk, MetricsConsumeErr

\* A reader does not disturb the bucket: with it, the limiter takes its own steps
\* or none (available_tokens).
THEOREM MetricsContainRateLimiter == MetricsSpec => Spec
<1>1. MetricsInit => Init
    BY DEF MetricsInit
<1>. QED BY <1>1, MetricsStepIsAStep, PTL DEF MetricsSpec, Spec

\* Types are right with the reader too (available_tokens).
THEOREM MetricsTypeCorrect == MetricsSpec => []MetricsTypeOK
<1>1. MetricsInit /\ TypeOK => MetricsTypeOK
    BY BucketAssumption DEF MetricsInit, NoReader, MetricsTypeOK
<1>2. MetricsTypeOK /\ TypeOK' /\ [MetricsNext]_metricsVars => MetricsTypeOK'
    <2>. SUFFICES ASSUME MetricsTypeOK, TypeOK', [MetricsNext]_metricsVars
                  PROVE  MetricsTypeOK'
        OBVIOUS
    <2>. USE DEF MetricsTypeOK
    <2>1. CASE ReadTokens
        BY <2>1 DEF ReadTokens, TypeOK, BucketTypeOK
    <2>2. CASE ReadLastUpdate
        <3>1. /\ lastUpdate \in Nat
              /\ reader' = [reader EXCEPT !.at = "clock", !.lastUpdate = lastUpdate]
            BY <2>2 DEF ReadLastUpdate, TypeOK, BucketTypeOK
        <3>. QED BY <3>1
    <2>3. CASE Return
        BY <2>3, BucketAssumption DEF Return, NoReader
    <2>4. CASE MetricsConsumeOk
        BY <2>4 DEF MetricsConsumeOk
    <2>5. CASE UNCHANGED reader
        BY <2>5
    <2>. QED BY <2>1, <2>2, <2>3, <2>4, <2>5
             DEF MetricsNext, metricsVars, MetricsTick, MetricsConsumeErr
<1>3. MetricsSpec => []TypeOK
    BY MetricsContainRateLimiter, RateLimiterTypeCorrect, PTL
<1>. QED BY <1>1, <1>2, <1>3, PTL DEF MetricsSpec

\* A level as the bucket holds it.
Capped(level) == IF level <= Capacity THEN level ELSE Capacity

\* What the reader has read, and what became of the bucket since.
ReaderInv ==
    /\ reader.at # "idle" =>
          /\ reader.since <= lastUpdate
          /\ Refilled <= Capped(reader.tokens + (now - reader.since) * FillRate)
    /\ reader.at = "tokens" => reader.tokens <= tokens + reader.granted * TokenUnit
    /\ reader.at = "clock" =>
          /\ reader.since <= reader.lastUpdate
          /\ reader.lastUpdate <= lastUpdate
          /\ Reading <= Refilled + reader.granted * TokenUnit

\* The time from t on goes up by one with a tick, and the inflow with it.
LEMMA InflowOfATick ==
    ASSUME BucketTypeOK, Tick, NEW t \in Nat
    PROVE  /\ (now' - t) * FillRate = (now - t) * FillRate + FillRate
           /\ (now - t) * FillRate \in Int
<1>1. now' - t = (now - t) + 1
    BY DEF Tick, BucketTypeOK
<1>. QED BY <1>1, Distribute, BucketAssumption DEF BucketTypeOK

\* How the level changes (consume).
LEMMA LevelChanges ==
    ASSUME BucketTypeOK
    PROVE  /\ Tick => Refilled' = Capped(tokens + (now - lastUpdate) * FillRate + FillRate)
           /\ Grant => Refilled' = Refilled - TokenUnit
           /\ Refuse => Refilled' = Refilled
<1>0. Refilled \in 0 .. Capacity
    BY RefilledType
<1>1. ASSUME Tick PROVE Refilled' = Capped(tokens + (now - lastUpdate) * FillRate + FillRate)
    <2>1. (now' - lastUpdate) * FillRate = (now - lastUpdate) * FillRate + FillRate
        BY <1>1, InflowOfATick DEF BucketTypeOK
    <2>2. tokens' = tokens /\ lastUpdate' = lastUpdate
        BY <1>1 DEF Tick
    <2>3. (now - lastUpdate) * FillRate \in Int /\ tokens \in Int
        BY BucketAssumption DEF BucketTypeOK
    <2>. DEFINE inflow == (now - lastUpdate) * FillRate
    <2>4. Refilled' = Capped(tokens + (now' - lastUpdate) * FillRate)
        BY <2>2 DEF Refilled, Capped
    <2>5. tokens + (now' - lastUpdate) * FillRate = tokens + inflow + FillRate
        <3>. HIDE DEF inflow
        <3>1. (now' - lastUpdate) * FillRate = inflow + FillRate
            BY <2>1 DEF inflow
        <3>2. inflow \in Int
            BY <2>3 DEF inflow
        <3>. QED BY <2>3, <3>1, <3>2, BucketAssumption
    <2>. QED BY <2>4, <2>5
<1>2. ASSUME NEW level \in 0 .. Capacity, tokens' = level, lastUpdate' = now, now' = now
      PROVE  Refilled' = level
    <2>1. (now - now) * FillRate = 0
        BY BucketAssumption DEF BucketTypeOK
    <2>. QED BY <1>2, <2>1, BucketAssumption DEF Refilled
<1>3. ASSUME Grant PROVE Refilled' = Refilled - TokenUnit
    <2>1. Refilled - TokenUnit \in 0 .. Capacity
        BY <1>0, <1>3, BucketAssumption DEF Grant
    <2>. QED BY <1>2, <1>3, <2>1 DEF Grant
<1>4. ASSUME Refuse PROVE Refilled' = Refilled
    BY <1>0, <1>2, <1>4 DEF Refuse
<1>. QED BY <1>1, <1>3, <1>4

\* Two levels that both take in the same inflow stay as far apart at most, also
\* when they are capped.
LEMMA CappedInflow ==
    ASSUME NEW a \in Int, NEW b \in Int, NEW g \in Nat, NEW f \in Nat,
           Capped(a) <= Capped(b) + g
    PROVE  Capped(a + f) <= Capped(b + f) + g
    BY BucketAssumption DEF Capped

\* The types of the products in ReaderInv.
LEMMA ReaderProducts ==
    ASSUME MetricsTypeOK
    PROVE  /\ now \in Nat /\ lastUpdate \in Nat /\ tokens \in Nat /\ Refilled \in Nat
           /\ reader.tokens \in Nat /\ reader.since \in Nat /\ reader.lastUpdate \in Nat
           /\ reader.granted \in Nat
           /\ reader.granted * TokenUnit \in Nat
           /\ (now - reader.since) * FillRate \in Int
           /\ (now - reader.lastUpdate) * FillRate \in Int
           /\ (now - lastUpdate) * FillRate \in Int
<1>1. /\ now \in Nat /\ lastUpdate \in Nat /\ tokens \in Nat
      /\ reader.tokens \in Nat /\ reader.since \in Nat /\ reader.lastUpdate \in Nat
      /\ reader.granted \in Nat
    BY BucketAssumption DEF MetricsTypeOK, TypeOK, BucketTypeOK
<1>2. Refilled \in Nat
    BY RefilledType, BucketAssumption DEF MetricsTypeOK, TypeOK
<1>. QED BY <1>1, <1>2, BucketAssumption

LEMMA ReadTokensInv ==
    ASSUME MetricsTypeOK, ReadTokens
    PROVE  ReaderInv'
<1>1. /\ reader'.at = "tokens" /\ reader'.tokens = tokens /\ reader'.since = lastUpdate
      /\ reader'.granted = 0
      /\ now' = now /\ tokens' = tokens /\ lastUpdate' = lastUpdate
    BY DEF ReadTokens, vars, bucketVars
<1>2. Refilled' = Capped(tokens + (now - lastUpdate) * FillRate)
    BY <1>1 DEF Refilled, Capped
<1>3. Refilled' = Refilled /\ Refilled \in Nat
    BY <1>1, ReaderProducts DEF Refilled
<1>4. /\ lastUpdate \in Nat /\ tokens \in Nat /\ 0 * TokenUnit = 0
    BY ReaderProducts, BucketAssumption
<1>. QED BY <1>1, <1>2, <1>3, <1>4 DEF ReaderInv

LEMMA ReadLastUpdateInv ==
    ASSUME MetricsTypeOK, ReaderInv, ReadLastUpdate
    PROVE  ReaderInv'
<1>. DEFINE inflow == (now - lastUpdate) * FillRate
            granted == reader.granted * TokenUnit
<1>1. /\ reader.at = "tokens"
      /\ reader'.at = "clock" /\ reader'.tokens = reader.tokens
      /\ reader'.lastUpdate = lastUpdate /\ reader'.since = reader.since
      /\ reader'.granted = reader.granted
      /\ now' = now /\ tokens' = tokens /\ lastUpdate' = lastUpdate
    BY DEF ReadLastUpdate, MetricsTypeOK, vars, bucketVars
<1>2. Refilled' = Refilled /\ Refilled = Capped(tokens + inflow)
    BY <1>1 DEF Refilled, Capped
<1>3. Reading' = Capped(reader.tokens + inflow)
    BY <1>1 DEF Reading, Capped
<1>4. Capped(reader.tokens + inflow) <= Capped(tokens + inflow) + granted
    <2>1. /\ reader.tokens \in Int /\ tokens \in Int /\ inflow \in Int /\ granted \in Nat
          /\ reader.tokens <= tokens + granted
        BY <1>1, ReaderProducts DEF ReaderInv
    <2>. HIDE DEF inflow, granted
    <2>. QED BY <2>1, BucketAssumption DEF Capped
<1>5. /\ reader.since <= lastUpdate
      /\ Refilled <= Capped(reader.tokens + (now - reader.since) * FillRate)
      /\ lastUpdate \in Nat
    BY <1>1, ReaderProducts DEF ReaderInv
<1>. HIDE DEF inflow, granted
<1>6. Reading' <= Refilled' + granted
    BY <1>2, <1>3, <1>4
<1>. QED BY <1>1, <1>2, <1>5, <1>6 DEF ReaderInv, granted

LEMMA TickReaderInv ==
    ASSUME MetricsTypeOK, ReaderInv, MetricsTick
    PROVE  ReaderInv'
<1>. DEFINE inflow == (now - lastUpdate) * FillRate
            granted == reader.granted * TokenUnit
            span == (now - reader.since) * FillRate
            credited == (now - reader.lastUpdate) * FillRate
<1>0. BucketTypeOK /\ Tick
    BY DEF MetricsTypeOK, TypeOK, MetricsTick
<1>1. reader' = reader /\ tokens' = tokens /\ lastUpdate' = lastUpdate
    BY DEF MetricsTick, Tick
<1>2. /\ inflow \in Int /\ granted \in Nat /\ span \in Int /\ credited \in Int
      /\ reader.tokens \in Int /\ tokens \in Int /\ Refilled \in Nat
      /\ reader.since \in Nat /\ reader.lastUpdate \in Nat
    BY ReaderProducts
<1>3. /\ (now' - reader.since) * FillRate = span + FillRate
      /\ (now' - reader.lastUpdate) * FillRate = credited + FillRate
    BY <1>0, <1>2, InflowOfATick
<1>4. Refilled = Capped(tokens + inflow) /\ Refilled' = Capped(tokens + inflow + FillRate)
    BY <1>0, LevelChanges DEF Refilled, Capped
<1>5. Reading = Capped(reader.tokens + credited)
    BY DEF Reading, Capped
<1>6. Reading' = Capped(reader.tokens + (credited + FillRate))
    BY <1>1, <1>3 DEF Reading, Capped
<1>. HIDE DEF inflow, granted, span, credited
<1>7. ASSUME NEW a \in Int, NEW b \in Int
      PROVE  a + (b + FillRate) = a + b + FillRate /\ a + b \in Int
    BY BucketAssumption
<1>8. CASE reader.at = "idle"
    BY <1>1, <1>8 DEF ReaderInv
<1>9. ASSUME reader.at # "idle"
      PROVE  /\ reader.since <= lastUpdate
             /\ Refilled' <= Capped(reader.tokens + (span + FillRate))
    <2>1. reader.since <= lastUpdate /\ Capped(tokens + inflow) <= Capped(reader.tokens + span)
        BY <1>4, <1>9 DEF ReaderInv, span
    <2>2. Capped(tokens + inflow) \in Int /\ Capped(reader.tokens + span) \in Int
        BY <1>2, <1>7, BucketAssumption DEF Capped
    <2>3. Capped(tokens + inflow) <= Capped(reader.tokens + span) + 0
        BY <2>1, <2>2
    <2>4. Capped(tokens + inflow + FillRate) <= Capped(reader.tokens + span + FillRate) + 0
        BY <1>2, <1>7, <2>3, CappedInflow, BucketAssumption
    <2>5. Capped(reader.tokens + span + FillRate) \in Int
        BY <1>2, <1>7, BucketAssumption DEF Capped
    <2>6. reader.tokens + (span + FillRate) = reader.tokens + span + FillRate
        BY <1>2, <1>7
    <2>7. Refilled' \in Int
        BY <1>2, <1>4, <1>7, BucketAssumption DEF Capped
    <2>. QED BY <1>4, <2>1, <2>4, <2>5, <2>6, <2>7
<1>10. ASSUME reader.at = "clock"
       PROVE  Reading' <= Refilled' + granted
    <2>1. Capped(reader.tokens + credited) <= Capped(tokens + inflow) + granted
        BY <1>4, <1>5, <1>10 DEF ReaderInv, granted
    <2>2. Capped(reader.tokens + credited + FillRate)
              <= Capped(tokens + inflow + FillRate) + granted
        BY <1>2, <1>7, <2>1, CappedInflow, BucketAssumption
    <2>. QED BY <1>2, <1>4, <1>6, <1>7, <2>2
<1>. QED BY <1>1, <1>3, <1>8, <1>9, <1>10 DEF ReaderInv, granted, span

LEMMA ConsumeReaderInv ==
    ASSUME MetricsTypeOK, ReaderInv, MetricsConsumeOk \/ MetricsConsumeErr
    PROVE  ReaderInv'
<1>. DEFINE granted == reader.granted * TokenUnit
<1>0. BucketTypeOK
    BY DEF MetricsTypeOK, TypeOK
<1>1. /\ now \in Nat /\ lastUpdate \in Nat /\ tokens \in Nat /\ Refilled \in Nat
      /\ granted \in Nat /\ lastUpdate <= now
      /\ reader.tokens \in Nat /\ reader.since \in Nat /\ reader.lastUpdate \in Nat
      /\ (now - reader.since) * FillRate \in Int
      /\ (now - reader.lastUpdate) * FillRate \in Int
    BY <1>0, ReaderProducts DEF BucketTypeOK
<1>2. tokens <= Refilled
    <2>1. (now - lastUpdate) * FillRate \in Nat
        BY <1>0, BucketAssumption DEF BucketTypeOK
    <2>. QED BY <1>0, <2>1, BucketAssumption DEF Refilled, BucketTypeOK
<1>3. now' = now /\ lastUpdate' = now
    BY DEF MetricsConsumeOk, MetricsConsumeErr, ConsumeOk, ConsumeErr, Grant, Refuse
<1>4. CASE reader.at = "idle"
    BY <1>4 DEF MetricsConsumeOk, MetricsConsumeErr, ReaderInv
<1>5. CASE reader.at # "idle"
    <2>1. /\ reader.since <= lastUpdate
          /\ Refilled <= Capped(reader.tokens + (now - reader.since) * FillRate)
          /\ reader.at = "tokens" => reader.tokens <= tokens + granted
          /\ reader.at = "clock" =>
                /\ reader.since <= reader.lastUpdate
                /\ reader.lastUpdate <= lastUpdate
                /\ Reading <= Refilled + granted
        BY <1>5 DEF ReaderInv
    <2>2. /\ reader'.at = reader.at /\ reader'.tokens = reader.tokens
          /\ reader'.since = reader.since /\ reader'.lastUpdate = reader.lastUpdate
        BY <1>5 DEF MetricsConsumeOk, MetricsConsumeErr, MetricsTypeOK
    <2>3. Reading' = Reading /\ Reading \in Int
        BY <1>1, <1>3, <2>2, BucketAssumption DEF Reading
    <2>4. \/ /\ Refilled' = Refilled - TokenUnit /\ tokens' = Refilled - TokenUnit
             /\ reader'.granted * TokenUnit = granted + TokenUnit
          \/ /\ Refilled' = Refilled /\ tokens' = Refilled
             /\ reader'.granted * TokenUnit = granted
        <3>1. CASE MetricsConsumeOk
            <4>1. Grant /\ reader'.granted = reader.granted + 1
                BY <1>5, <3>1 DEF MetricsConsumeOk, ConsumeOk, MetricsTypeOK
            <4>2. (reader.granted + 1) * TokenUnit = granted + 1 * TokenUnit
                BY ReaderProducts, Distribute, BucketAssumption
            <4>. QED BY <1>0, <4>1, <4>2, LevelChanges, BucketAssumption DEF Grant
        <3>2. CASE MetricsConsumeErr
            BY <1>0, <3>2, LevelChanges DEF MetricsConsumeErr, ConsumeErr, Refuse
        <3>. QED BY <3>1, <3>2
    <2>5. Capped(reader.tokens + (now - reader.since) * FillRate) \in Int
        BY <1>1, BucketAssumption DEF Capped
    <2>. HIDE DEF granted
    <2>6. /\ Refilled' <= Refilled
          /\ Refilled' + reader'.granted * TokenUnit = Refilled + granted
          /\ tokens' + reader'.granted * TokenUnit = Refilled + granted
          /\ Refilled' \in Int
        BY <1>1, <2>4, BucketAssumption
    <2>7. Refilled' <= Capped(reader.tokens + (now - reader.since) * FillRate)
        BY <1>1, <2>1, <2>5, <2>6
    <2>8. reader.at = "tokens" => reader.tokens <= tokens' + reader'.granted * TokenUnit
        BY <1>1, <1>2, <2>1, <2>6
    <2>9. reader.at = "clock" => Reading' <= Refilled' + reader'.granted * TokenUnit
        BY <2>1, <2>3, <2>6
    <2>10. /\ reader.since <= now
           /\ reader.at = "clock" => reader.lastUpdate <= now
        BY <1>1, <2>1
    <2>. QED BY <1>3, <2>1, <2>2, <2>7, <2>8, <2>9, <2>10 DEF ReaderInv
<1>. QED BY <1>4, <1>5

\* For every rate and burst a reading is at most the level and the tokens granted
\* during the call, and at least the level less what was credited during it
\* (available_tokens).
THEOREM ReadingAlwaysBounded == MetricsSpec => []ReadingIsBounded
<1>1. MetricsInit => ReaderInv
    BY DEF MetricsInit, NoReader, ReaderInv
<1>2. MetricsTypeOK /\ ReaderInv /\ [MetricsNext]_metricsVars => ReaderInv'
    <2>. SUFFICES ASSUME MetricsTypeOK, ReaderInv, [MetricsNext]_metricsVars
                  PROVE  ReaderInv'
        OBVIOUS
    <2>1. CASE Return
        BY <2>1 DEF Return, NoReader, ReaderInv
    <2>2. CASE UNCHANGED metricsVars
        BY <2>2 DEF metricsVars, vars, bucketVars, ReaderInv, Reading, Refilled
    <2>. QED BY <2>1, <2>2, ReadTokensInv, ReadLastUpdateInv, TickReaderInv,
                ConsumeReaderInv DEF MetricsNext
<1>3. MetricsTypeOK /\ ReaderInv => ReadingIsBounded
    <2>. SUFFICES ASSUME MetricsTypeOK, ReaderInv, reader.at = "clock"
                  PROVE  /\ Reading <= Refilled + reader.granted * TokenUnit
                         /\ Refilled <= Reading + (reader.lastUpdate - reader.since) * FillRate
        BY DEF ReadingIsBounded
    <2>. DEFINE credited == (now - reader.lastUpdate) * FillRate
                missed == (reader.lastUpdate - reader.since) * FillRate
                span == (now - reader.since) * FillRate
    <2>1. /\ reader.tokens \in Int /\ Refilled \in Nat /\ Capacity \in Nat
          /\ credited \in Int /\ span \in Int /\ missed \in Nat
        <3>1. reader.lastUpdate - reader.since \in Nat
            BY ReaderProducts DEF ReaderInv
        <3>. QED BY <3>1, ReaderProducts, BucketAssumption
    <2>2. span = credited + missed
        BY ReaderProducts, Distribute, BucketAssumption
    <2>3. Refilled <= Capped(reader.tokens + span) /\ Reading = Capped(reader.tokens + credited)
        BY DEF ReaderInv, Reading, Capped
    <2>. HIDE DEF credited, missed, span
    <2>4. Refilled <= Reading + missed
        BY <2>1, <2>2, <2>3 DEF Capped
    <2>. QED BY <2>4 DEF ReaderInv, missed
<1>. QED BY <1>1, <1>2, <1>3, MetricsTypeCorrect, PTL DEF MetricsSpec
==============================================================================
