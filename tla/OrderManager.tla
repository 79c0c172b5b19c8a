---------------------------- MODULE OrderManager -----------------------------
(***************************************************************************)
(* OrderManager::submit_order (src/order_manager/manager.rs) run by many   *)
(* tasks at once against one feed state, one RiskManager, one TokenBucket, *)
(* one NonceGenerator and one exchange.                                    *)
(*                                                                         *)
(* Each pre-flight check is a step, since the tasks share the checked      *)
(* state and run in parallel; place_order is a request and an answer, with *)
(* the exchange in between.  A call to NonceGenerator::next is one step:   *)
(* module NonceGenerator has its details.                                  *)
(***************************************************************************)
EXTENDS TokenBucket, FiniteSets

CONSTANTS Tasks,           \* the tasks that submit orders
          MaxOpenOrders,   \* RiskConfig::max_open_orders
          MaxPositionUsd,  \* RiskConfig::max_position_usd
          Notionals,       \* price * quantity of the limit orders submitted
          MaxTime          \* bound: the clock

ASSUME ManagerAssumption ==
    /\ IsFiniteSet(Tasks)
    /\ MaxOpenOrders \in Nat
    /\ MaxPositionUsd \in Nat
    /\ Notionals \subseteq Nat
    /\ MaxTime \in Nat

VARIABLES
    feedLive,     \* what feed_state.borrow().is_live() answers
    openCount,    \* RiskManager::open_order_count
    nonceCounter, \* the nonce generator's counter
    pc,           \* how far each task's submit_order has come
    openOrders,   \* orders open on the exchange
    strays,       \* requests still under way whose caller has been told Err
    lost,         \* history: requests that may have been accepted unanswered
    late          \* history: requests sent since the feed was last Live

gateVars == <<openCount, nonceCounter>>
exchangeVars == <<openOrders, strays>>
historyVars == <<lost, late>>
vars == <<bucketVars, feedLive, pc, gateVars, exchangeVars, historyVars>>

Init == /\ BucketInit
        /\ feedLive = FALSE
        /\ openCount = 0
        /\ nonceCounter = 0
        /\ pc = [t \in Tasks |-> "idle"]
        /\ openOrders = 0
        /\ strays = 0
        /\ lost = 0
        /\ late = 0

Goto(t, from, to) == /\ pc[t] = from
                     /\ pc' = [pc EXCEPT ![t] = to]

------------------------------------------------------------------------------
(* The pre-flight checks.  A submission that finds the feed not Live is    *)
(* turned down without changing anything.                                  *)

\* Mutant: the feed is not looked at.
SkipFeedCheck(t) ==
    /\ Goto(t, "idle", "checked")
    /\ UNCHANGED <<bucketVars, feedLive, gateVars, exchangeVars, historyVars>>

\* 1. if !self.feed_state.borrow().is_live() { bail! }
CheckFeed(t) ==
    /\ feedLive
    /\ Goto(t, "idle", "checked")
    /\ UNCHANGED <<bucketVars, feedLive, gateVars, exchangeVars, historyVars>>

\* Mutant: one open order more than the cap.
BelowCapOrAt == openCount <= MaxOpenOrders

\* check_open_order_count on the loaded counter.
BelowCap == openCount < MaxOpenOrders

\* check_notional, for the orders that carry a price.
NotionalOk(n) == n <= MaxPositionUsd

\* 3. self.risk_manager.validate_order: a market order has no price and skips
\* the notional check.
RiskAccepts(t) ==
    /\ BelowCap
    /\ Goto(t, "checked", "validated")
    /\ UNCHANGED <<bucketVars, feedLive, gateVars, exchangeVars, historyVars>>

RiskRejects(t) ==
    /\ ~BelowCap \/ \E n \in Notionals : ~NotionalOk(n)
    /\ Goto(t, "checked", "idle")
    /\ UNCHANGED <<bucketVars, feedLive, gateVars, exchangeVars, historyVars>>

\* 4. self.rate_limiter.consume
RateAccepts(t) ==
    /\ Grant
    /\ Goto(t, "validated", "admitted")
    /\ UNCHANGED <<feedLive, gateVars, exchangeVars, historyVars>>

RateRejects(t) ==
    /\ Refuse
    /\ Goto(t, "validated", "idle")
    /\ UNCHANGED <<feedLive, gateVars, exchangeVars, historyVars>>

\* 5. self.nonce_gen.next.  The nonce itself goes to the log: place_order does
\* not take it.
NextNonce(t) ==
    /\ Goto(t, "admitted", "ready")
    /\ nonceCounter' = (IF nonceCounter >= now THEN nonceCounter ELSE now) + 1
    /\ UNCHANGED <<bucketVars, feedLive, openCount, exchangeVars, historyVars>>

------------------------------------------------------------------------------
(* 6. place_order(..).await                                                *)

Dispatch(t) ==
    /\ Goto(t, "ready", "sent")
    /\ late' = IF feedLive THEN 0 ELSE late + 1
    /\ UNCHANGED <<bucketVars, feedLive, gateVars, exchangeVars, lost>>

\* The exchange takes the order, or turns it down.
ExchangeAccepts(t) ==
    /\ Goto(t, "sent", "accepted")
    /\ openOrders' = openOrders + 1
    /\ UNCHANGED <<bucketVars, feedLive, gateVars, strays, historyVars>>

ExchangeRefuses(t) ==
    /\ Goto(t, "sent", "refused")
    /\ UNCHANGED <<bucketVars, feedLive, gateVars, exchangeVars, historyVars>>

\* Mutant: the order is taken off the count, as by on_order_closed.
AnsweredClosed(t) ==
    /\ Goto(t, "accepted", "idle")
    /\ openCount' = openCount - 1
    /\ UNCHANGED <<bucketVars, feedLive, nonceCounter, exchangeVars, historyVars>>

\* Ok(placed_order) => self.risk_manager.on_order_opened()
AnsweredOk(t) ==
    /\ Goto(t, "accepted", "idle")
    /\ openCount' = openCount + 1
    /\ UNCHANGED <<bucketVars, feedLive, nonceCounter, exchangeVars, historyVars>>

\* Err(e): the exchange's refusal.
AnsweredErr(t) ==
    /\ Goto(t, "refused", "idle")
    /\ UNCHANGED <<bucketVars, feedLive, gateVars, exchangeVars, historyVars>>

\* Err(e) or a dropped future: the connection failed, and what has become of
\* the request is not known.
AnswerLost(t) ==
    /\ \/ /\ Goto(t, "sent", "idle")
          /\ strays' = strays + 1
          /\ lost' = lost + 1
       \/ /\ Goto(t, "accepted", "idle")
          /\ lost' = lost + 1
          /\ UNCHANGED strays
       \/ /\ Goto(t, "refused", "idle")
          /\ UNCHANGED <<strays, lost>>
    /\ UNCHANGED <<bucketVars, feedLive, gateVars, openOrders, late>>

------------------------------------------------------------------------------
(* The rest of the environment.                                            *)

\* A request whose caller has gone reaches the exchange after all, or not.
StrayAccepted ==
    /\ strays > 0
    /\ strays' = strays - 1
    /\ openOrders' = openOrders + 1
    /\ UNCHANGED <<bucketVars, feedLive, pc, gateVars, historyVars>>

StrayVanishes ==
    /\ strays > 0
    /\ strays' = strays - 1
    /\ UNCHANGED <<bucketVars, feedLive, pc, gateVars, openOrders, historyVars>>

\* An order is filled or cancelled.  The RiskManager is private to the
\* OrderManager, which never calls on_order_closed.
OrderCloses ==
    /\ openOrders > 0
    /\ openOrders' = openOrders - 1
    /\ UNCHANGED <<bucketVars, feedLive, pc, gateVars, strays, historyVars>>

\* The BookSynchronizer broadcasts Live or another state.
FeedChanges ==
    /\ feedLive' = ~feedLive
    /\ late' = 0
    /\ UNCHANGED <<bucketVars, pc, gateVars, exchangeVars, lost>>

Tick ==
    /\ now < MaxTime
    /\ now' = now + 1
    /\ UNCHANGED <<tokens, lastUpdate, feedLive, pc, gateVars, exchangeVars,
                   historyVars>>

------------------------------------------------------------------------------
Preflight(t) == \/ CheckFeed(t)
                \/ RiskAccepts(t) \/ RiskRejects(t)
                \/ RateAccepts(t) \/ RateRejects(t)
                \/ NextNonce(t)

PlaceOrder(t) == \/ Dispatch(t)
                 \/ ExchangeAccepts(t) \/ ExchangeRefuses(t)
                 \/ AnsweredOk(t) \/ AnsweredErr(t) \/ AnswerLost(t)

Next == \/ \E t \in Tasks : Preflight(t) \/ PlaceOrder(t)
        \/ StrayAccepted \/ StrayVanishes
        \/ OrderCloses
        \/ FeedChanges
        \/ Tick

Spec == Init /\ [][Next]_vars

------------------------------------------------------------------------------
(* Properties.                                                             *)

Steps == {"idle", "checked", "validated", "admitted", "ready", "sent",
          "accepted", "refused"}

\* Type invariant; the open count neither wraps nor goes below zero.
TypeOK ==
    /\ BucketTypeOK
    /\ feedLive \in BOOLEAN
    /\ openCount \in Nat
    /\ nonceCounter \in Nat
    /\ pc \in [Tasks -> Steps]
    /\ openOrders \in Nat
    /\ strays \in Nat
    /\ lost \in Nat
    /\ late \in Nat

At(steps) == {t \in Tasks : pc[t] \in steps}

\* The check-then-act on the open order count lets every task through at the
\* last free place, and an order whose answer is lost is never counted.  But it
\* is no worse than that: the orders open or still on their way exceed the
\* cap by at most the other tasks and the lost answers (validate_order,
\* submit_order).
OverrunIsBounded ==
    MaxOpenOrders > 0 =>
        openOrders + strays + Cardinality(At({"sent"}))
            <= MaxOpenOrders - 1 + Cardinality(Tasks) + lost

\* After the feed has stopped being Live only the submissions that were past
\* the feed check can still go out: at most one per task (submit_order).
LateOrdersAreBounded ==
    ~feedLive => late <= Cardinality(Tasks)
==============================================================================
