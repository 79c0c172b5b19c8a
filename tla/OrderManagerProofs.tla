------------------------- MODULE OrderManagerProofs --------------------------
(***************************************************************************)
(* Proofs about OrderManager, for any finite set of tasks, any limits and  *)
(* any bucket, and about the NonceGenerator that it owns, for any set of   *)
(* callers, any clock and any number of restarts.                          *)
(***************************************************************************)
EXTENDS OrderManager, NonceGenerator, FiniteSetTheorems, TLAPS

------------------------------------------------------------------------------
(* The inductive invariant.                                                *)

AfterCheck == {"checked", "validated", "admitted", "ready"}
Uncounted == {"sent", "accepted"}

\* The steps of a submission past validate_order.
AfterValidation == {"validated", "admitted", "ready", "sent", "accepted", "refused"}

\* A task past validate_order has found the count below the cap; while it is
\* on its way, no more than one per task can be.
CountInv ==
    MaxOpenOrders > 0 =>
        openCount + Cardinality(At(AfterValidation))
            <= MaxOpenOrders - 1 + Cardinality(Tasks)

\* Every order open or on its way is counted, about to be answered, or lost.
OpenInv ==
    openOrders + strays + Cardinality(At({"sent"}))
        <= openCount + lost + Cardinality(At(Uncounted))

\* The orders sent since the feed was lost, and those that still may be.
LateInv ==
    ~feedLive => late + Cardinality(At(AfterCheck)) <= Cardinality(Tasks)

IInv == TypeOK /\ CountInv /\ OpenInv /\ LateInv

------------------------------------------------------------------------------
(* Type correctness.                                                       *)

LEMMA BucketStepType ==
    ASSUME BucketTypeOK, Grant \/ Refuse
    PROVE  BucketTypeOK'
<1>1. (now - lastUpdate) * FillRate \in Nat
    BY BucketAssumption DEF BucketTypeOK
<1>2. Refilled \in 0 .. Capacity
    BY <1>1, BucketAssumption DEF BucketTypeOK, Refilled
<1>. QED BY <1>2, BucketAssumption DEF BucketTypeOK, Grant, Refuse

LEMMA GotoType ==
    ASSUME TypeOK, NEW t \in Tasks, NEW from, NEW to \in Steps, Goto(t, from, to)
    PROVE  pc' \in [Tasks -> Steps]
BY DEF TypeOK, Goto

LEMMA PreflightType ==
    ASSUME TypeOK, NEW t \in Tasks, Preflight(t)
    PROVE  TypeOK'
<1>. USE DEF TypeOK
<1>1. CASE CheckFeed(t) \/ RiskAccepts(t) \/ RiskRejects(t)
    <2>1. pc' \in [Tasks -> Steps]
        BY <1>1, GotoType DEF CheckFeed, RiskAccepts, RiskRejects, Steps
    <2>. QED BY <1>1, <2>1 DEF CheckFeed, RiskAccepts, RiskRejects, bucketVars,
                               gateVars, exchangeVars, historyVars, BucketTypeOK
<1>2. CASE RateAccepts(t) \/ RateRejects(t)
    <2>1. pc' \in [Tasks -> Steps]
        BY <1>2, GotoType DEF RateAccepts, RateRejects, Steps
    <2>2. BucketTypeOK'
        BY <1>2, BucketStepType DEF RateAccepts, RateRejects
    <2>. QED BY <1>2, <2>1, <2>2 DEF RateAccepts, RateRejects, gateVars,
                                     exchangeVars, historyVars
<1>3. CASE NextNonce(t)
    <2>1. pc' \in [Tasks -> Steps]
        BY <1>3, GotoType DEF NextNonce, Steps
    <2>2. nonceCounter' \in Nat
        BY <1>3 DEF NextNonce, BucketTypeOK
    <2>. QED BY <1>3, <2>1, <2>2 DEF NextNonce, bucketVars, exchangeVars,
                                           historyVars, BucketTypeOK
<1>. QED BY <1>1, <1>2, <1>3 DEF Preflight

LEMMA PlaceOrderType ==
    ASSUME TypeOK, NEW t \in Tasks, PlaceOrder(t)
    PROVE  TypeOK'
<1>. USE DEF TypeOK
<1>1. pc' \in [Tasks -> Steps]
    BY GotoType DEF PlaceOrder, Dispatch, ExchangeAccepts, ExchangeRefuses,
                    AnsweredOk, AnsweredErr, AnswerLost, Steps
<1>2. UNCHANGED <<now, tokens, lastUpdate, feedLive, nonceCounter>>
    BY DEF PlaceOrder, Dispatch, ExchangeAccepts, ExchangeRefuses, AnsweredOk,
           AnsweredErr, AnswerLost, bucketVars, gateVars
<1>3. openCount' \in Nat /\ openOrders' \in Nat /\ strays' \in Nat
    BY DEF PlaceOrder, Dispatch, ExchangeAccepts, ExchangeRefuses, AnsweredOk,
           AnsweredErr, AnswerLost, gateVars, exchangeVars
<1>4. lost' \in Nat /\ late' \in Nat
    BY DEF PlaceOrder, Dispatch, ExchangeAccepts, ExchangeRefuses, AnsweredOk,
           AnsweredErr, AnswerLost, historyVars
<1>. QED BY <1>1, <1>2, <1>3, <1>4 DEF BucketTypeOK

Environment ==
    StrayAccepted \/ StrayVanishes \/ OrderCloses \/ FeedChanges \/ Tick

LEMMA EnvironmentType ==
    ASSUME TypeOK, Environment
    PROVE  TypeOK'
<1>. USE DEF TypeOK, BucketTypeOK
<1>1. CASE StrayAccepted \/ StrayVanishes \/ OrderCloses
    BY <1>1 DEF StrayAccepted, StrayVanishes, OrderCloses, bucketVars, gateVars,
                exchangeVars, historyVars
<1>2. CASE FeedChanges
    BY <1>2 DEF FeedChanges, bucketVars, gateVars, exchangeVars
<1>3. CASE Tick
    BY <1>3 DEF Tick, gateVars, exchangeVars, historyVars
<1>. QED BY <1>1, <1>2, <1>3 DEF Environment

LEMMA NextTypeOK == TypeOK /\ [Next]_vars => TypeOK'
<1>. SUFFICES ASSUME TypeOK, [Next]_vars PROVE TypeOK'
    OBVIOUS
<1>1. CASE UNCHANGED vars
    BY <1>1 DEF TypeOK, BucketTypeOK, vars, bucketVars, gateVars, exchangeVars,
                historyVars
<1>. QED BY <1>1, PreflightType, PlaceOrderType, EnvironmentType
         DEF Next, Environment

LEMMA InitTypeOK == Init => TypeOK
<1>. SUFFICES ASSUME Init PROVE TypeOK
    OBVIOUS
<1>1. pc \in [Tasks -> Steps]
    BY DEF Init, Steps
<1>2. BucketTypeOK
    BY BucketAssumption DEF Init, BucketInit, BucketTypeOK
<1>. QED BY <1>1, <1>2 DEF Init, TypeOK

\* Every variable keeps its type: in particular the open count, an AtomicU32,
\* never falls below zero (on_order_opened, on_order_closed).
THEOREM OrderManagerTypeCorrect == Spec => []TypeOK
BY InitTypeOK, NextTypeOK, PTL DEF Spec

------------------------------------------------------------------------------
(* How the number of tasks at a set of steps changes.                      *)

LEMMA AtIsFinite ==
    ASSUME NEW S
    PROVE  /\ IsFiniteSet(At(S))
           /\ Cardinality(At(S)) \in Nat
           /\ Cardinality(At(S)) <= Cardinality(Tasks)
           /\ Cardinality(Tasks) \in Nat
<1>1. At(S) \in SUBSET Tasks
    BY DEF At
<1>. QED BY <1>1, FS_Subset, FS_CardinalityType, ManagerAssumption

LEMMA AtSubset ==
    ASSUME NEW S, NEW T, S \subseteq T
    PROVE  Cardinality(At(S)) <= Cardinality(At(T))
<1>1. At(S) \in SUBSET At(T)
    BY DEF At
<1>. QED BY <1>1, FS_Subset, AtIsFinite

LEMMA Moves ==
    ASSUME TypeOK, NEW t \in Tasks, NEW from, NEW to, Goto(t, from, to), NEW S
    PROVE  Cardinality(At(S)') =
               Cardinality(At(S)) + (IF to \in S THEN 1 ELSE 0)
                                  - (IF from \in S THEN 1 ELSE 0)
<1>1. /\ pc[t] = from /\ pc'[t] = to
      /\ \A u \in Tasks : u # t => pc'[u] = pc[u]
    BY DEF Goto, TypeOK
<1>2. IsFiniteSet(At(S)) /\ Cardinality(At(S)) \in Nat
    BY AtIsFinite
<1>3. CASE to \in S /\ from \in S
    <2>1. At(S)' = At(S)
        BY <1>1, <1>3 DEF At
    <2>. QED BY <1>2, <1>3, <2>1
<1>4. CASE to \in S /\ from \notin S
    <2>1. At(S)' = At(S) \cup {t} /\ t \notin At(S)
        BY <1>1, <1>4 DEF At
    <2>2. Cardinality(At(S)') = Cardinality(At(S)) + 1
        BY <1>2, <2>1, FS_AddElement
    <2>. QED BY <1>2, <1>4, <2>2
<1>5. CASE to \notin S /\ from \in S
    <2>1. At(S)' = At(S) \ {t} /\ t \in At(S)
        BY <1>1, <1>5 DEF At
    <2>2. Cardinality(At(S)') = Cardinality(At(S)) - 1
        BY <1>2, <2>1, FS_RemoveElement
    <2>. QED BY <1>2, <1>5, <2>2
<1>6. CASE to \notin S /\ from \notin S
    <2>1. At(S)' = At(S)
        BY <1>1, <1>6 DEF At
    <2>. QED BY <1>2, <1>6, <2>1
<1>. QED BY <1>3, <1>4, <1>5, <1>6

LEMMA Stays ==
    ASSUME UNCHANGED pc, NEW S
    PROVE  Cardinality(At(S)') = Cardinality(At(S))
BY DEF At

------------------------------------------------------------------------------
(* The counting invariants.  Which set of steps a task's move enters and   *)
(* leaves is all they depend on.                                           *)

LEMMA CountInvInductive ==
    ASSUME IInv, [Next]_vars
    PROVE  CountInv'
<1>. DEFINE n == Cardinality(At(AfterValidation))
            limit == MaxOpenOrders - 1 + Cardinality(Tasks)
<1>1. /\ n \in Nat /\ n' \in Nat /\ n' <= Cardinality(Tasks)
      /\ Cardinality(Tasks) \in Nat /\ MaxOpenOrders \in Nat
      /\ openCount \in Nat /\ openCount' \in Nat
    <2>1. /\ n' \in Nat /\ n' <= Cardinality(Tasks)
        <3>1. At(AfterValidation)' \in SUBSET Tasks
            BY DEF At
        <3>. QED BY <3>1, FS_Subset, FS_CardinalityType, ManagerAssumption
    <2>2. TypeOK'
        BY NextTypeOK DEF IInv
    <2>. QED BY <2>1, <2>2, AtIsFinite, ManagerAssumption DEF IInv, TypeOK
<1>2. SUFFICES ASSUME MaxOpenOrders > 0 PROVE openCount' + n' <= limit
    BY DEF CountInv
<1>3. openCount + n <= limit
    BY <1>2 DEF IInv, CountInv
<1>. HIDE DEF n, limit
<1>4. ASSUME NEW t \in Tasks, RiskAccepts(t)
      PROVE  openCount' + n' <= limit
    <2>1. openCount' = openCount /\ openCount < MaxOpenOrders
        BY <1>4 DEF RiskAccepts, BelowCap, gateVars
    <2>. QED BY <1>1, <2>1 DEF limit
<1>5. ASSUME NEW t \in Tasks, AnsweredOk(t)
      PROVE  openCount' + n' <= limit
    <2>1. openCount' = openCount + 1
        BY <1>5 DEF AnsweredOk
    <2>2. n' = n - 1
        <3>1. Goto(t, "accepted", "idle")
            BY <1>5 DEF AnsweredOk
        <3>. QED BY <3>1, <1>1, Moves DEF IInv, AfterValidation, n
    <2>. QED BY <1>1, <1>3, <2>1, <2>2 DEF limit
<1>6. ASSUME NEW t \in Tasks, Preflight(t) \/ PlaceOrder(t),
             ~RiskAccepts(t), ~AnsweredOk(t)
      PROVE  openCount' + n' <= limit
    <2>1. openCount' = openCount
        BY <1>6 DEF Preflight, PlaceOrder, CheckFeed, RiskRejects, RateAccepts,
                    RateRejects, NextNonce, Dispatch, ExchangeAccepts,
                    ExchangeRefuses, AnsweredErr, AnswerLost, gateVars
    <2>2. PICK from, to : /\ Goto(t, from, to)
                          /\ to \in AfterValidation => from \in AfterValidation
        BY <1>6 DEF Preflight, PlaceOrder, CheckFeed, RiskRejects, RateAccepts,
                    RateRejects, NextNonce, Dispatch, ExchangeAccepts,
                    ExchangeRefuses, AnsweredErr, AnswerLost, AfterValidation
    <2>3. n' <= n
        BY <2>2, <1>1, Moves DEF IInv, n
    <2>. QED BY <1>1, <1>3, <2>1, <2>3 DEF limit
<1>7. CASE Environment \/ UNCHANGED vars
    <2>1. UNCHANGED <<pc, openCount>>
        BY <1>7 DEF Environment, StrayAccepted, StrayVanishes, OrderCloses,
                    FeedChanges, Tick, gateVars, vars
    <2>2. n' = n
        BY <2>1, Stays DEF n
    <2>. QED BY <1>3, <2>1, <2>2
<1>. QED BY <1>4, <1>5, <1>6, <1>7 DEF Next, Environment

LEMMA OpenInvInductive ==
    ASSUME IInv, [Next]_vars
    PROVE  OpenInv'
<1>. DEFINE s == Cardinality(At({"sent"}))
            u == Cardinality(At(Uncounted))
<1>1. /\ s \in Nat /\ u \in Nat
      /\ openOrders \in Nat /\ strays \in Nat /\ openCount \in Nat /\ lost \in Nat
    BY AtIsFinite DEF IInv, TypeOK
<1>2. openOrders + strays + s <= openCount + lost + u
    BY DEF IInv, OpenInv
<1>3. SUFFICES openOrders' + strays' + s' <= openCount' + lost' + u'
    BY DEF OpenInv
<1>4. ASSUME NEW t \in Tasks, NEW from, NEW to, Goto(t, from, to)
      PROVE  /\ s' = s + (IF to = "sent" THEN 1 ELSE 0)
                       - (IF from = "sent" THEN 1 ELSE 0)
             /\ u' = u + (IF to \in Uncounted THEN 1 ELSE 0)
                       - (IF from \in Uncounted THEN 1 ELSE 0)
    <2>1. u' = u + (IF to \in Uncounted THEN 1 ELSE 0)
                 - (IF from \in Uncounted THEN 1 ELSE 0)
        BY <1>4, Moves DEF IInv
    <2>2. s' = s + (IF to \in {"sent"} THEN 1 ELSE 0)
                 - (IF from \in {"sent"} THEN 1 ELSE 0)
        BY <1>4, Moves DEF IInv
    <2>. QED BY <2>1, <2>2
<1>. HIDE DEF s, u
<1>5. ASSUME NEW t \in Tasks, Preflight(t) \/ ExchangeRefuses(t) \/ AnsweredErr(t)
      PROVE  openOrders' + strays' + s' <= openCount' + lost' + u'
    <2>1. UNCHANGED <<openOrders, strays, openCount, lost>>
        BY <1>5 DEF Preflight, CheckFeed, RiskAccepts, RiskRejects, RateAccepts,
                    RateRejects, NextNonce, ExchangeRefuses, AnsweredErr,
                    gateVars, exchangeVars, historyVars
    <2>2. CASE ExchangeRefuses(t)
        <3>1. Goto(t, "sent", "refused")
            BY <2>2 DEF ExchangeRefuses
        <3>2. s' = s - 1 /\ u' = u - 1
            BY <3>1, <1>1, <1>4 DEF Uncounted
        <3>. QED BY <1>1, <1>2, <2>1, <3>2
    <2>3. CASE Preflight(t) \/ AnsweredErr(t)
        <3>1. PICK from, to : /\ Goto(t, from, to)
                              /\ from \notin Uncounted /\ to \notin Uncounted
            BY <2>3 DEF Preflight, CheckFeed, RiskAccepts, RiskRejects,
                        RateAccepts, RateRejects, NextNonce, AnsweredErr, Uncounted
        <3>2. s' = s /\ u' = u
            BY <3>1, <1>1, <1>4 DEF Uncounted
        <3>. QED BY <1>1, <1>2, <2>1, <3>2
    <2>. QED BY <1>5, <2>2, <2>3
<1>6. ASSUME NEW t \in Tasks, Dispatch(t)
      PROVE  openOrders' + strays' + s' <= openCount' + lost' + u'
    <2>1. UNCHANGED <<openOrders, strays, openCount, lost>>
        BY <1>6 DEF Dispatch, gateVars, exchangeVars
    <2>2. Goto(t, "ready", "sent")
        BY <1>6 DEF Dispatch
    <2>3. s' = s + 1 /\ u' = u + 1
        BY <2>2, <1>1, <1>4 DEF Uncounted
    <2>. QED BY <1>1, <1>2, <2>1, <2>3
<1>7. ASSUME NEW t \in Tasks, ExchangeAccepts(t)
      PROVE  openOrders' + strays' + s' <= openCount' + lost' + u'
    <2>1. UNCHANGED <<strays, openCount, lost>> /\ openOrders' = openOrders + 1
        BY <1>7 DEF ExchangeAccepts, gateVars, historyVars
    <2>2. Goto(t, "sent", "accepted")
        BY <1>7 DEF ExchangeAccepts
    <2>3. s' = s - 1 /\ u' = u
        BY <2>2, <1>1, <1>4 DEF Uncounted
    <2>. QED BY <1>1, <1>2, <2>1, <2>3
<1>8. ASSUME NEW t \in Tasks, AnsweredOk(t)
      PROVE  openOrders' + strays' + s' <= openCount' + lost' + u'
    <2>1. UNCHANGED <<openOrders, strays, lost>> /\ openCount' = openCount + 1
        BY <1>8 DEF AnsweredOk, exchangeVars, historyVars
    <2>2. Goto(t, "accepted", "idle")
        BY <1>8 DEF AnsweredOk
    <2>3. s' = s /\ u' = u - 1
        BY <2>2, <1>1, <1>4 DEF Uncounted
    <2>. QED BY <1>1, <1>2, <2>1, <2>3
<1>9. ASSUME NEW t \in Tasks, AnswerLost(t)
      PROVE  openOrders' + strays' + s' <= openCount' + lost' + u'
    <2>1. UNCHANGED <<openOrders, openCount>>
        BY <1>9 DEF AnswerLost, gateVars
    <2>2. CASE Goto(t, "sent", "idle") /\ strays' = strays + 1 /\ lost' = lost + 1
        <3>1. s' = s - 1 /\ u' = u - 1
            BY <2>2, <1>1, <1>4 DEF Uncounted
        <3>. QED BY <1>1, <1>2, <2>1, <2>2, <3>1
    <2>3. CASE Goto(t, "accepted", "idle") /\ lost' = lost + 1 /\ UNCHANGED strays
        <3>1. s' = s /\ u' = u - 1
            BY <2>3, <1>1, <1>4 DEF Uncounted
        <3>. QED BY <1>1, <1>2, <2>1, <2>3, <3>1
    <2>4. CASE Goto(t, "refused", "idle") /\ UNCHANGED <<strays, lost>>
        <3>1. s' = s /\ u' = u
            BY <2>4, <1>1, <1>4 DEF Uncounted
        <3>. QED BY <1>1, <1>2, <2>1, <2>4, <3>1
    <2>. QED BY <1>9, <2>2, <2>3, <2>4 DEF AnswerLost
<1>10. CASE Environment \/ UNCHANGED vars
    <2>1. UNCHANGED <<pc, openCount, lost>>
        BY <1>10 DEF Environment, StrayAccepted, StrayVanishes, OrderCloses,
                     FeedChanges, Tick, gateVars, historyVars, vars
    <2>2. s' = s /\ u' = u
        BY <2>1, Stays DEF s, u
    <2>3. \/ openOrders' = openOrders /\ strays' = strays
          \/ openOrders' = openOrders + 1 /\ strays' = strays - 1
          \/ openOrders' = openOrders /\ strays' = strays - 1
          \/ openOrders' = openOrders - 1 /\ strays' = strays
        BY <1>10 DEF Environment, StrayAccepted, StrayVanishes, OrderCloses,
                     FeedChanges, Tick, exchangeVars, vars
    <2>. QED BY <1>1, <1>2, <2>1, <2>2, <2>3
<1>. QED BY <1>5, <1>6, <1>7, <1>8, <1>9, <1>10
         DEF Next, PlaceOrder, Environment

LEMMA LateInvInductive ==
    ASSUME IInv, [Next]_vars
    PROVE  LateInv'
<1>. DEFINE n == Cardinality(At(AfterCheck))
<1>1. /\ n \in Nat /\ n' \in Nat /\ n' <= Cardinality(Tasks)
      /\ Cardinality(Tasks) \in Nat
      /\ late \in Nat /\ feedLive \in BOOLEAN
    <2>1. At(AfterCheck)' \in SUBSET Tasks
        BY DEF At
    <2>. QED BY <2>1, AtIsFinite, FS_Subset, FS_CardinalityType, ManagerAssumption
         DEF IInv, TypeOK
<1>2. SUFFICES ASSUME ~feedLive' PROVE late' + n' <= Cardinality(Tasks)
    BY DEF LateInv
<1>3. ~feedLive => late + n <= Cardinality(Tasks)
    BY DEF IInv, LateInv
<1>4. ASSUME NEW t \in Tasks, NEW from, NEW to, Goto(t, from, to)
      PROVE  n' = n + (IF to \in AfterCheck THEN 1 ELSE 0)
                    - (IF from \in AfterCheck THEN 1 ELSE 0)
    BY <1>4, Moves DEF IInv
<1>. HIDE DEF n
<1>5. ASSUME NEW t \in Tasks, Dispatch(t)
      PROVE  late' + n' <= Cardinality(Tasks)
    <2>1. ~feedLive /\ late' = late + 1
        BY <1>2, <1>5 DEF Dispatch
    <2>2. Goto(t, "ready", "sent")
        BY <1>5 DEF Dispatch
    <2>3. n' = n - 1
        BY <2>2, <1>1, <1>4 DEF AfterCheck
    <2>. QED BY <1>1, <1>3, <2>1, <2>3
<1>6. ASSUME NEW t \in Tasks, Preflight(t) \/ PlaceOrder(t), ~Dispatch(t)
      PROVE  late' + n' <= Cardinality(Tasks)
    <2>1. UNCHANGED <<late, feedLive>>
        BY <1>6 DEF Preflight, PlaceOrder, CheckFeed, RiskAccepts, RiskRejects,
                    RateAccepts, RateRejects, NextNonce, ExchangeAccepts,
                    ExchangeRefuses, AnsweredOk, AnsweredErr, AnswerLost,
                    historyVars
    <2>2. PICK from, to : /\ Goto(t, from, to)
                          /\ to \in AfterCheck => from \in AfterCheck
        BY <1>2, <1>6, <2>1
        DEF Preflight, PlaceOrder, CheckFeed, RiskAccepts, RiskRejects,
            RateAccepts, RateRejects, NextNonce, ExchangeAccepts,
            ExchangeRefuses, AnsweredOk, AnsweredErr, AnswerLost, AfterCheck
    <2>3. n' <= n
        BY <2>2, <1>1, <1>4
    <2>. QED BY <1>1, <1>2, <1>3, <2>1, <2>3
<1>7. CASE FeedChanges
    <2>1. late' = 0
        BY <1>7 DEF FeedChanges
    <2>. QED BY <1>1, <2>1
<1>8. CASE StrayAccepted \/ StrayVanishes \/ OrderCloses \/ Tick \/ UNCHANGED vars
    <2>1. UNCHANGED <<pc, late, feedLive>>
        BY <1>8 DEF StrayAccepted, StrayVanishes, OrderCloses, Tick, historyVars,
                    vars
    <2>2. n' = n
        BY <2>1, Stays DEF n
    <2>. QED BY <1>2, <1>3, <2>1, <2>2
<1>. QED BY <1>5, <1>6, <1>7, <1>8 DEF Next

LEMMA InitIInv == Init => IInv
<1>. SUFFICES ASSUME Init PROVE IInv
    OBVIOUS
<1>1. \A t \in Tasks : pc[t] = "idle"
    BY DEF Init
<1>2. /\ At(AfterValidation) = {} /\ At({"sent"}) = {}
      /\ At(Uncounted) = {} /\ At(AfterCheck) = {}
    BY <1>1 DEF At, AfterValidation, Uncounted, AfterCheck
<1>3. Cardinality({}) = 0 /\ Cardinality(Tasks) \in Nat /\ MaxOpenOrders \in Nat
    BY FS_EmptySet, FS_CardinalityType, ManagerAssumption
<1>4. CountInv
    BY <1>2, <1>3 DEF Init, CountInv
<1>5. OpenInv
    BY <1>2, <1>3 DEF Init, OpenInv
<1>6. LateInv
    BY <1>2, <1>3 DEF Init, LateInv
<1>. QED BY <1>4, <1>5, <1>6, InitTypeOK DEF IInv

LEMMA Invariance == Spec => []IInv
<1>1. IInv /\ [Next]_vars => IInv'
    <2>. SUFFICES ASSUME IInv, [Next]_vars PROVE IInv'
        OBVIOUS
    <2>1. TypeOK'
        BY NextTypeOK DEF IInv
    <2>. QED BY <2>1, CountInvInductive, OpenInvInductive, LateInvInductive DEF IInv
<1>. QED BY <1>1, InitIInv, PTL DEF Spec

\* With any number of tasks, any cap and any rate, the orders open or under way
\* exceed the cap by no more than the other tasks and the lost answers.
THEOREM OverrunAlwaysBounded == Spec => []OverrunIsBounded
<1>1. IInv => OverrunIsBounded
    <2>. SUFFICES ASSUME IInv, MaxOpenOrders > 0
                  PROVE  openOrders + strays + Cardinality(At({"sent"}))
                            <= MaxOpenOrders - 1 + Cardinality(Tasks) + lost
        BY DEF OverrunIsBounded
    <2>1. Cardinality(At(Uncounted)) <= Cardinality(At(AfterValidation))
        BY AtSubset DEF Uncounted, AfterValidation
    <2>2. /\ openCount + Cardinality(At(AfterValidation))
                <= MaxOpenOrders - 1 + Cardinality(Tasks)
          /\ openOrders + strays + Cardinality(At({"sent"}))
                <= openCount + lost + Cardinality(At(Uncounted))
        BY DEF IInv, CountInv, OpenInv
    <2>3. /\ openOrders \in Nat /\ strays \in Nat /\ openCount \in Nat
          /\ lost \in Nat /\ MaxOpenOrders \in Nat
        BY ManagerAssumption DEF IInv, TypeOK
    <2>. QED BY <2>1, <2>2, <2>3, AtIsFinite
<1>. QED BY <1>1, Invariance, PTL

\* In its whole life a manager, of any number of tasks, has fewer orders
\* acknowledged than its cap and its tasks together: the count is that of all
\* orders the exchange has confirmed, which nothing lowers (on_order_opened).
THEOREM ConfirmedOrdersAlwaysBounded ==
    ASSUME MaxOpenOrders > 0
    PROVE  Spec => /\ [](openCount <= MaxOpenOrders - 1 + Cardinality(Tasks))
                   /\ [][openCount' >= openCount]_openCount
<1>1. IInv => openCount <= MaxOpenOrders - 1 + Cardinality(Tasks)
    <2>. SUFFICES ASSUME IInv
                  PROVE  openCount <= MaxOpenOrders - 1 + Cardinality(Tasks)
        OBVIOUS
    <2>1. openCount + Cardinality(At(AfterValidation))
              <= MaxOpenOrders - 1 + Cardinality(Tasks)
        BY DEF IInv, CountInv
    <2>. QED BY <2>1, AtIsFinite, ManagerAssumption DEF IInv, TypeOK
<1>2. ASSUME TypeOK, [Next]_vars PROVE [openCount' >= openCount]_openCount
    <2>1. ASSUME NEW t \in Tasks, AnsweredOk(t) PROVE openCount' >= openCount
        BY <1>2, <2>1 DEF AnsweredOk, TypeOK
    <2>2. CASE \/ UNCHANGED vars
               \/ Environment
               \/ \E t \in Tasks : (Preflight(t) \/ PlaceOrder(t)) /\ ~AnsweredOk(t)
        BY <2>2
        DEF Environment, StrayAccepted, StrayVanishes, OrderCloses, FeedChanges, Tick,
            Preflight, PlaceOrder, CheckFeed, RiskAccepts, RiskRejects, RateAccepts,
            RateRejects, NextNonce, Dispatch, ExchangeAccepts, ExchangeRefuses,
            AnsweredErr, AnswerLost, gateVars, vars
    <2>. QED BY <1>2, <2>1, <2>2 DEF Next, Environment
<1>. QED BY <1>1, <1>2, Invariance, OrderManagerTypeCorrect, PTL DEF Spec

\* With any number of tasks, the orders sent since the feed was last Live are
\* no more than the tasks.
THEOREM LateOrdersAlwaysBounded == Spec => []LateOrdersAreBounded
<1>1. IInv => LateOrdersAreBounded
    BY AtIsFinite DEF IInv, TypeOK, LateInv, LateOrdersAreBounded
<1>. QED BY <1>1, Invariance, PTL

------------------------------------------------------------------------------
(* The nonce generator.                                                    *)

\* A nonce once returned is not above the counter, and a call that has raised the
\* counter finds it at or above the clock it read.
CounterInv ==
    /\ issued <= counter
    /\ \A t \in Callers : call[t].step = "raised" => call[t].wall <= counter

\* On a clock that never moved back, with no hasty start, no call has read a time
\* to come, the counter is ahead of the clock by the burst at most, and no nonce
\* sent, by whatever process, is above it.
RestartInv ==
    ~setBack /\ ~hasty =>
        /\ accepted <= counter
        /\ counter <= wall + burst
        /\ \A t \in Callers : call[t].wall <= wall

NonceInv == NonceTypeOK /\ CounterInv /\ RestartInv

LEMMA InitNonceInv == NonceInit => NonceInv
<1>. SUFFICES ASSUME NonceInit PROVE NonceInv
    OBVIOUS
<1>1. wall \in Nat /\ counter \in Nat /\ counter = wall
    BY NonceAssumption DEF NonceInit
<1>2. \A t \in Callers : call[t] = Idle
    BY DEF NonceInit
<1>3. call \in [Callers -> Call]
    BY DEF NonceInit, Idle, Call
<1>4. NonceTypeOK
    <2>1. \A t \in Callers : call[t].prev <= counter
        <3>1. Idle.prev = 0 /\ 0 <= counter
            BY <1>1 DEF Idle
        <3>. QED BY <1>2, <3>1
    <2>2. setBack \in BOOLEAN /\ hasty \in BOOLEAN
        BY Zenon DEF NonceInit
    <2>3. issued \in Nat /\ accepted \in Nat /\ burst \in Nat /\ restarts \in Nat
        BY DEF NonceInit
    <2>. QED BY <1>1, <1>3, <2>1, <2>2, <2>3 DEF NonceTypeOK
<1>5. CounterInv
    BY <1>1, <1>2 DEF NonceInit, CounterInv, Idle
<1>6. RestartInv
    <2>1. \A t \in Callers : call[t].wall <= wall
        <3>1. Idle.wall = 0 /\ 0 <= wall
            BY <1>1 DEF Idle
        <3>. QED BY <1>2, <3>1
    <2>2. accepted = 0 /\ burst = 0
        BY DEF NonceInit
    <2>. QED BY <1>1, <2>1, <2>2 DEF RestartInv
<1>. QED BY <1>4, <1>5, <1>6 DEF NonceInv

LEMMA SumAtLeast ==
    ASSUME NEW x \in Nat, NEW y \in Nat
    PROVE  x <= x + y
OBVIOUS

LEMMA StillBelow ==
    ASSUME NEW c \in Nat, NEW w \in Nat, NEW b \in Nat, NEW v \in Nat, NEW d \in Nat,
           c <= w + b, w + b <= v + d
    PROVE  c <= v + d
OBVIOUS

\* What is left of a burst b once the clock has gone from w to v.
LEMMA BurstAfter ==
    ASSUME NEW w \in Nat, NEW b \in Nat, NEW v \in Nat
    PROVE  LET left == IF w + b <= v THEN 0 ELSE IF w <= v THEN w + b - v ELSE b
           IN  left \in Nat /\ (w <= v => w + b <= v + left)
OBVIOUS

LEMMA NextNonceInv == NonceInv /\ [NonceNext]_nonceVars => NonceInv'
<1>. SUFFICES ASSUME NonceInv, [NonceNext]_nonceVars PROVE NonceInv'
    OBVIOUS
<1>. USE DEF NonceInv, NonceTypeOK, CounterInv, RestartInv, Call,
             clockVars, processVars
<1>1. ASSUME NEW t \in Callers, ReadClock(t) PROVE NonceInv'
    <2>. DEFINE read == [step |-> "read", wall |-> wall, prev |-> 0]
    <2>1. /\ call' = [call EXCEPT ![t] = read]
          /\ UNCHANGED <<counter, issued, accepted, clockVars, processVars>>
        BY <1>1 DEF ReadClock
    <2>2. /\ read \in Call /\ read.step # "raised" /\ read.prev = 0
          /\ read.wall = wall
        OBVIOUS
    <2>. HIDE DEF read
    <2>3. call' \in [Callers -> Call]
        BY <2>1, <2>2
    <2>4. \A u \in Callers : call'[u] = call[u] \/ call'[u] = read
        BY <2>1
    <2>5. NonceTypeOK' /\ CounterInv'
        BY <2>1, <2>2, <2>3, <2>4
    <2>6. RestartInv'
        BY <2>1, <2>2, <2>4
    <2>. QED BY <2>5, <2>6
<1>2. ASSUME NEW t \in Callers, FetchMax(t) PROVE NonceInv'
    <2>1. /\ call' = [call EXCEPT ![t].step = "raised", ![t].prev = counter]
          /\ counter' = MaxOf(counter, call[t].wall)
          /\ UNCHANGED <<issued, accepted, clockVars, processVars>>
        BY <1>2 DEF FetchMax
    <2>2. /\ call'[t] = [step |-> "raised", wall |-> call[t].wall, prev |-> counter]
          /\ \A u \in Callers : u # t => call'[u] = call[u]
        BY <2>1
    <2>3. call' \in [Callers -> Call]
        BY <2>1
    <2>4. /\ counter' \in Nat /\ counter' >= counter /\ counter' >= call[t].wall
          /\ counter' = counter \/ counter' = call[t].wall
        BY <2>1 DEF MaxOf
    <2>5. \A u \in Callers : call'[u].prev <= counter'
        BY <2>2, <2>4
    <2>6. \A u \in Callers : call'[u].step = "raised" => call'[u].wall <= counter'
        BY <2>2, <2>4
    <2>7. \A u \in Callers : call'[u].wall = call[u].wall
        BY <2>2
    <2>8. RestartInv'
        BY <2>1, <2>4, <2>7
    <2>. QED BY <2>1, <2>3, <2>4, <2>5, <2>6, <2>8
<1>3. ASSUME NEW t \in Callers, FetchAdd(t) PROVE NonceInv'
    <2>1. /\ call' = [call EXCEPT ![t] = Idle]
          /\ counter' = counter + 1 /\ burst' = burst + 1
          /\ UNCHANGED <<wall, setBack, processVars>>
        BY <1>3 DEF FetchAdd
    <2>2. issued' = counter' /\ accepted' = counter'
        BY <1>3, <2>1 DEF FetchAdd, Nonce, MaxOf
    <2>3. /\ call' \in [Callers -> Call]
          /\ Idle.prev = 0 /\ Idle.wall = 0 /\ Idle.step # "raised"
        BY <2>1 DEF Idle
    <2>4. \A u \in Callers : call'[u] = call[u] \/ call'[u] = Idle
        BY <2>1
    <2>5. NonceTypeOK' /\ CounterInv'
        BY <2>1, <2>2, <2>3, <2>4
    <2>6. RestartInv'
        BY <2>1, <2>2, <2>3, <2>4
    <2>. QED BY <2>5, <2>6
<1>4. CASE ClockMoves
    <2>1. /\ wall' \in Nat
          /\ UNCHANGED <<counter, call, issued, accepted, hasty, restarts>>
        BY <1>4, NonceAssumption DEF ClockMoves
    <2>2. burst' \in Nat /\ (wall <= wall' => wall + burst <= wall' + burst')
        BY <1>4, <2>1, BurstAfter DEF ClockMoves
    <2>3. /\ setBack' \in BOOLEAN
          /\ ~setBack' => ~setBack /\ wall <= wall'
        <3>1. setBack' = (setBack \/ wall' < wall)
            BY <1>4 DEF ClockMoves
        <3>2. ~setBack' => ~setBack /\ ~(wall' < wall)
            BY <3>1, Zenon
        <3>3. setBack' \in BOOLEAN
            BY <3>1, Zenon
        <3>. QED BY <2>1, <3>2, <3>3
    <2>4. ~setBack' => wall + burst <= wall' + burst'
        BY <2>2, <2>3
    <2>5. NonceTypeOK' /\ CounterInv'
        BY <2>1, <2>2, <2>3
    <2>6. ASSUME counter <= wall + burst, wall + burst <= wall' + burst'
          PROVE  counter' <= wall' + burst'
        BY <2>1, <2>2, <2>6, StillBelow
    <2>7. ASSUME wall <= wall', NEW t \in Callers, call[t].wall <= wall
          PROVE  call'[t].wall <= wall'
        BY <2>1, <2>7
    <2>8. RestartInv'
        BY <2>1, <2>3, <2>4, <2>6, <2>7, Zenon
    <2>. QED BY <2>5, <2>8
<1>5. CASE Restart
    <2>1. /\ wall' \in Nat /\ counter' = wall' /\ restarts' \in Nat
          /\ issued' = 0 /\ accepted' = accepted /\ burst' = 0
        BY <1>5, NonceAssumption DEF Restart
    <2>2. call' = [t \in Callers |-> Idle]
        BY <1>5 DEF Restart
    <2>3. call' \in [Callers -> Call]
        BY <2>2 DEF Idle
    <2>4. \A t \in Callers : /\ call'[t].prev = 0 /\ call'[t].wall = 0
                             /\ call'[t].step # "raised"
        BY <2>2 DEF Idle
    <2>5. /\ setBack' \in BOOLEAN /\ hasty' \in BOOLEAN
          /\ ~setBack' /\ ~hasty' => ~setBack /\ ~hasty /\ wall + burst <= wall'
        <3>1. /\ setBack' = (setBack \/ wall' < wall)
              /\ hasty' = (hasty \/ wall' < wall + burst)
            BY <1>5 DEF Restart
        <3>2. ~setBack' /\ ~hasty' => ~setBack /\ ~hasty /\ ~(wall' < wall + burst)
            BY <3>1, Zenon
        <3>3. setBack' \in BOOLEAN /\ hasty' \in BOOLEAN
            BY <3>1, Zenon
        <3>. QED BY <2>1, <3>2, <3>3
    <2>6. NonceTypeOK' /\ CounterInv'
        BY <2>1, <2>3, <2>4, <2>5
    <2>7. /\ counter' <= wall' + burst'
          /\ \A t \in Callers : call'[t].wall <= wall'
        <3>1. counter' <= wall' + burst'
            BY <2>1, SumAtLeast
        <3>2. \A t \in Callers : call'[t].wall <= wall'
            BY <2>1, <2>4
        <3>. QED BY <3>1, <3>2
    <2>8. ASSUME accepted <= counter, counter <= wall + burst, wall + burst <= wall'
          PROVE  accepted' <= counter'
        BY <2>1, <2>8
    <2>9. RestartInv'
        BY <2>5, <2>7, <2>8, Zenon
    <2>. QED BY <2>6, <2>9
<1>6. CASE UNCHANGED nonceVars
    BY <1>6 DEF nonceVars
<1>. QED BY <1>1, <1>2, <1>3, <1>4, <1>5, <1>6 DEF NonceNext

\* Every variable keeps its type (next).
THEOREM NonceTypeCorrect == NonceSpec => []NonceTypeOK
<1>1. NonceInv => NonceTypeOK
    BY DEF NonceInv
<1>. QED BY InitNonceInv, NextNonceInv, <1>1, PTL DEF NonceSpec

\* Nonces increase strictly within a process: no two calls, however they
\* overlap, return the same one (next).
THEOREM NoncesAlwaysIncrease == NonceSpec => NoncesIncrease
<1>1. NonceInv /\ [NonceNext]_nonceVars
      => [\A t \in Callers : FetchAdd(t) => issued' > issued]_nonceVars
    BY DEF NonceInv, NonceTypeOK, CounterInv, Call, FetchAdd, Nonce, MaxOf
<1>. QED BY InitNonceInv, NextNonceInv, <1>1, PTL DEF NonceSpec, NoncesIncrease

\* Nonces never fall behind the clock their call has read (next).
THEOREM NoncesAlwaysFollowTheClock == NonceSpec => NoncesFollowTheClock
<1>1. NonceInv /\ [NonceNext]_nonceVars
      => [\A t \in Callers : FetchAdd(t) => issued' > call[t].wall]_nonceVars
    BY DEF NonceInv, NonceTypeOK, CounterInv, Call, FetchAdd, Nonce, MaxOf
<1>. QED BY InitNonceInv, NextNonceInv, <1>1, PTL DEF NonceSpec, NoncesFollowTheClock

\* On a clock that never moved back, and with no process started before the clock
\* had caught up with the burst of the one before it, the nonces the exchange sees
\* increase over any number of restarts (new, next).
THEOREM RestartsAlwaysKeepNoncesIncreasing == NonceSpec => RestartsKeepNoncesIncreasing
<1>1. NonceInv /\ [NonceNext]_nonceVars
      => [\A t \in Callers :
              FetchAdd(t) /\ ~setBack /\ ~hasty => accepted' > accepted]_nonceVars
    BY DEF NonceInv, NonceTypeOK, CounterInv, RestartInv, Call, FetchAdd, Nonce, MaxOf
<1>. QED BY InitNonceInv, NextNonceInv, <1>1, PTL
         DEF NonceSpec, RestartsKeepNoncesIncreasing
==============================================================================
