---------------------------- MODULE BacktestProofs ----------------------------
(***************************************************************************)
(* Proofs about Backtest, for any quotes, any fee and any thresholds.      *)
(***************************************************************************)
EXTENDS Backtest, TLAPS

Side == {"Buy", "Sell"}

\* Type correctness.
TypeInv ==
    /\ phase \in {"reading", "reported", "failed"}
    /\ records \in 0 .. MaxRecords
    /\ quote \in [bid : Nat, ask : Nat]
    /\ orders \in Seq(Side)
    /\ cash \in Int /\ position \in Int
    /\ carried \in Int /\ costs \in Int

\* The account balances after every record and every execution.
BalanceInv == TwiceMarkToMarket(quote) = 2 * InitialCash + carried - costs

BacktestInv == TypeInv /\ BalanceInv

-------------------------------------------------------------------------------
(* Arithmetic.                                                             *)

LEMMA Distribute ==
    \A a, b, c \in Int : /\ (a + b) * c = a * c + b * c
                         /\ (a - b) * c = a * c - b * c
                         /\ c * (a - b) = c * a - c * b
OBVIOUS

LEMMA ProductIsInt == \A a, b \in Int : a * b \in Int
OBVIOUS

\* As the mid moves, a position gains in value what it carries.
LEMMA PositionCarried ==
    ASSUME NEW p \in Int, NEW m \in Int, NEW n \in Int, NEW k \in Int
    PROVE  p * n * k = p * m * k + p * (n - m) * k
<1>1. p * (n - m) = p * n - p * m
    BY Distribute
<1>2. p * n \in Int /\ p * m \in Int
    BY ProductIsInt
<1>3. (p * n - p * m) * k = p * n * k - p * m * k
    BY <1>2, Distribute
<1>4. p * n * k \in Int /\ p * m * k \in Int
    BY <1>2, ProductIsInt
<1>. QED BY <1>1, <1>3, <1>4

Signum(side) == IF side = "Buy" THEN Lots ELSE -Lots

\* What an execution does to cash and position, together, at the mid.
LEMMA ExecutionCosts ==
    ASSUME NEW side \in Side, quote \in [bid : Nat, ask : Nat]
    PROVE  /\ 2 * CashFlow(side) + Signum(side) * TwiceMid(quote) * FeeBase = -Cost(side)
           /\ CashFlow(side) \in Int /\ Cost(side) \in Int
           /\ Signum(side) * TwiceMid(quote) * FeeBase \in Int
<1>. DEFINE b == quote.bid
            a == quote.ask
            A == a * Lots * FeeBase
            B == b * Lots * FeeBase
            fee == Fee(side)
<1>1. a \in Int /\ b \in Int /\ Lots \in Int /\ FeeBase \in Int /\ FeeRate \in Int
    BY BacktestAssumption
<1>2. a * Lots \in Int /\ b * Lots \in Int /\ A \in Int /\ B \in Int
    <2>1. a * Lots \in Int /\ b * Lots \in Int
        BY <1>1, ProductIsInt
    <2>. QED BY <1>1, <2>1, ProductIsInt
<1>3. fee \in Int
    <2>1. ExecutionPrice(side) \in Int
        BY <1>1 DEF ExecutionPrice
    <2>2. ExecutionPrice(side) * Lots \in Int
        BY <1>1, <2>1, ProductIsInt
    <2>. QED BY <1>1, <2>2, ProductIsInt DEF Fee
<1>4. (a - b) * Lots * FeeBase = A - B
    <2>1. (a - b) * Lots = a * Lots - b * Lots
        BY <1>1, Distribute
    <2>2. (a * Lots - b * Lots) * FeeBase = A - B
        BY <1>1, <1>2, Distribute
    <2>. QED BY <2>1, <2>2
<1>5. Lots * (b + a) * FeeBase = A + B
    <2>1. Lots * (b + a) = a * Lots + b * Lots
        BY <1>1
    <2>2. (a * Lots + b * Lots) * FeeBase = A + B
        BY <1>1, <1>2, Distribute
    <2>. QED BY <2>1, <2>2
<1>6. (-Lots) * (b + a) * FeeBase = -(A + B)
    <2>1. (-Lots) * (b + a) = -(Lots * (b + a))
        BY <1>1
    <2>2. \A x, y \in Int : (-x) * y = -(x * y)
        OBVIOUS
    <2>3. Lots * (b + a) \in Int
        BY <1>1, ProductIsInt
    <2>. QED BY <1>1, <1>5, <2>1, <2>2, <2>3
<1>7. Cost(side) = A - B + 2 * fee
    BY <1>4 DEF Cost
<1>. HIDE DEF A, B, fee
<1>8. CASE side = "Buy"
    <2>1. Notional(side) = A
        BY <1>8 DEF Notional, ExecutionPrice, A
    <2>2. CashFlow(side) = -(A + fee)
        BY <1>8, <2>1 DEF CashFlow, fee
    <2>3. Signum(side) * TwiceMid(quote) * FeeBase = A + B
        BY <1>5, <1>8 DEF Signum, TwiceMid
    <2>. QED BY <1>2, <1>3, <1>7, <2>2, <2>3
<1>9. CASE side = "Sell"
    <2>1. Notional(side) = B
        BY <1>9 DEF Notional, ExecutionPrice, B
    <2>2. CashFlow(side) = B - fee
        BY <1>9, <2>1 DEF CashFlow, fee
    <2>3. Signum(side) * TwiceMid(quote) * FeeBase = -(A + B)
        BY <1>6, <1>9 DEF Signum, TwiceMid
    <2>. QED BY <1>2, <1>3, <1>7, <2>2, <2>3
<1>. QED BY <1>8, <1>9 DEF Side

\* An execution lowers the mark-to-market by its cost.
LEMMA ExecuteLowersValue ==
    ASSUME TypeInv, Execute
    PROVE  /\ orders # <<>> /\ Head(orders) \in Side
           /\ costs' = costs + Cost(Head(orders))
           /\ TwiceMarkToMarket(quote)' = TwiceMarkToMarket(quote) - Cost(Head(orders))
<1>. DEFINE side == Head(orders)
            mid == TwiceMid(quote)
<1>1. orders # <<>> /\ side \in Side
    BY DEF Execute, TypeInv
<1>2. /\ cash' = cash + CashFlow(side)
      /\ position' = position + Signum(side)
      /\ costs' = costs + Cost(side)
      /\ quote' = quote
    BY DEF Execute, Signum
<1>3. /\ cash \in Int /\ position \in Int /\ mid \in Int /\ FeeBase \in Int
      /\ Signum(side) \in Int
    BY BacktestAssumption DEF TypeInv, TwiceMid, Signum
<1>4. /\ 2 * CashFlow(side) + Signum(side) * mid * FeeBase = -Cost(side)
      /\ CashFlow(side) \in Int /\ Cost(side) \in Int
      /\ Signum(side) * mid * FeeBase \in Int
    BY <1>1, ExecutionCosts DEF TypeInv
<1>5. TwiceMarkToMarket(quote)' = 2 * cash' + position' * mid * FeeBase
    BY <1>2 DEF TwiceMarkToMarket, TwiceMid
<1>6. TwiceMarkToMarket(quote) = 2 * cash + position * mid * FeeBase
    BY DEF TwiceMarkToMarket
<1>. HIDE DEF mid, side
<1>7. /\ (position + Signum(side)) * mid * FeeBase
            = position * mid * FeeBase + Signum(side) * mid * FeeBase
      /\ position * mid * FeeBase \in Int
    <2>1. (position + Signum(side)) * mid = position * mid + Signum(side) * mid
        BY <1>3, Distribute
    <2>2. position * mid \in Int /\ Signum(side) * mid \in Int
        BY <1>3, ProductIsInt
    <2>3. (position * mid + Signum(side) * mid) * FeeBase
             = position * mid * FeeBase + Signum(side) * mid * FeeBase
        BY <1>3, <2>2, Distribute
    <2>. QED BY <1>3, <2>1, <2>2, <2>3, ProductIsInt
<1>8. TwiceMarkToMarket(quote)' = TwiceMarkToMarket(quote) - Cost(side)
    <2>. DEFINE held == position * mid * FeeBase
                moved == Signum(side) * mid * FeeBase
                flow == CashFlow(side)
                cost == Cost(side)
    <2>1. TwiceMarkToMarket(quote)' = 2 * (cash + flow) + (held + moved)
        BY <1>2, <1>5, <1>7
    <2>2. TwiceMarkToMarket(quote) = 2 * cash + held
        BY <1>6
    <2>3. /\ cash \in Int /\ held \in Int /\ moved \in Int /\ flow \in Int /\ cost \in Int
          /\ 2 * flow + moved = -cost
        BY <1>3, <1>4, <1>7
    <2>. HIDE DEF held, moved, flow, cost
    <2>4. 2 * (cash + flow) + (held + moved) = (2 * cash + held) - cost
        BY <2>3
    <2>5. TwiceMarkToMarket(quote)' = TwiceMarkToMarket(quote) - cost
        BY <2>1, <2>2, <2>4, Zenon
    <2>. QED BY <2>5 DEF cost
<1>. QED BY <1>1, <1>2, <1>8 DEF side

-------------------------------------------------------------------------------
(* The inductive invariant.                                                *)

LEMMA InitBacktestInv == Init => BacktestInv
<1>. SUFFICES ASSUME Init PROVE BacktestInv
    OBVIOUS
<1>1. TypeInv
    BY BacktestAssumption DEF Init, TypeInv, NoQuote
<1>2. BalanceInv
    <2>1. TwiceMarkToMarket(quote) = 2 * InitialCash + 0 * TwiceMid(quote) * FeeBase
        BY DEF Init, TwiceMarkToMarket
    <2>2. TwiceMid(quote) \in Int
        BY <1>1 DEF TwiceMid, TypeInv
    <2>3. 0 * TwiceMid(quote) * FeeBase = 0
        BY <2>2, BacktestAssumption
    <2>. QED BY <2>1, <2>3, BacktestAssumption DEF Init, BalanceInv
<1>. QED BY <1>1, <1>2 DEF BacktestInv

LEMMA NextBacktestInv == BacktestInv /\ [Next]_vars => BacktestInv'
<1>. SUFFICES ASSUME BacktestInv, [Next]_vars PROVE BacktestInv'
    OBVIOUS
<1>. USE DEF BacktestInv
<1>1. ASSUME NEW q \in Quotes, ReadRecord(q) PROVE BacktestInv'
    <2>. DEFINE gain == position * (TwiceMid(q) - TwiceMid(quote)) * FeeBase
    <2>1. /\ records < MaxRecords /\ records' = records + 1
          /\ quote' = q /\ orders' = OnEvent(q)
          /\ carried' = carried + gain
          /\ UNCHANGED <<phase, cash, position, costs>>
        BY <1>1 DEF ReadRecord, traderVars
    <2>2. /\ position \in Int /\ FeeBase \in Int /\ cash \in Int
          /\ TwiceMid(q) \in Int /\ TwiceMid(quote) \in Int
        BY BacktestAssumption DEF TypeInv, TwiceMid
    <2>3. gain \in Int
        <3>1. TwiceMid(q) - TwiceMid(quote) \in Int
            BY <2>2
        <3>2. position * (TwiceMid(q) - TwiceMid(quote)) \in Int
            BY <2>2, <3>1, ProductIsInt
        <3>. QED BY <2>2, <3>2, ProductIsInt
    <2>4. position * TwiceMid(q) * FeeBase = position * TwiceMid(quote) * FeeBase + gain
        BY <2>2, PositionCarried
    <2>5. OnEvent(q) \in Seq(Side)
        <3>1. <<"Buy">> \in Seq(Side) /\ <<"Sell">> \in Seq(Side) /\ <<>> \in Seq(Side)
            BY DEF Side
        <3>2. OnEvent(q) \in {<<"Buy">>, <<"Sell">>, <<>>}
            BY DEF OnEvent
        <3>. QED BY <3>1, <3>2
    <2>6. TwiceMarkToMarket(quote)' = 2 * cash + position * TwiceMid(q) * FeeBase
        BY <2>1 DEF TwiceMarkToMarket, TwiceMid
    <2>7. position * TwiceMid(quote) * FeeBase \in Int
        <3>1. position * TwiceMid(quote) \in Int
            BY <2>2, ProductIsInt
        <3>. QED BY <2>2, <3>1, ProductIsInt
    <2>. HIDE DEF gain
    <2>8. TwiceMarkToMarket(quote)' = TwiceMarkToMarket(quote) + gain
        <3>. DEFINE held == position * TwiceMid(quote) * FeeBase
        <3>1. TwiceMarkToMarket(quote)' = 2 * cash + (held + gain)
            BY <2>4, <2>6
        <3>2. TwiceMarkToMarket(quote) = 2 * cash + held
            BY DEF TwiceMarkToMarket
        <3>3. held \in Int
            BY <2>7
        <3>. HIDE DEF held
        <3>. QED BY <2>2, <2>3, <3>1, <3>2, <3>3
    <2>9. TypeInv'
        BY <2>1, <2>3, <2>5, BacktestAssumption DEF TypeInv
    <2>10. BalanceInv'
        BY <2>1, <2>3, <2>8, BacktestAssumption DEF BalanceInv, TypeInv
    <2>. QED BY <2>9, <2>10
<1>2. CASE Execute
    <2>. DEFINE side == Head(orders)
    <2>1. /\ orders # <<>> /\ side \in Side
          /\ costs' = costs + Cost(side)
          /\ TwiceMarkToMarket(quote)' = TwiceMarkToMarket(quote) - Cost(side)
        BY <1>2, ExecuteLowersValue
    <2>2. /\ cash' = cash + CashFlow(side)
          /\ position' = position + Signum(side)
          /\ orders' = Tail(orders)
          /\ UNCHANGED <<phase, records, quote, carried>>
        BY <1>2 DEF Execute, Signum
    <2>. HIDE DEF side
    <2>3. CashFlow(side) \in Int /\ Cost(side) \in Int
        BY <2>1, ExecutionCosts DEF TypeInv
    <2>4. orders' \in Seq(Side)
        BY <2>1, <2>2 DEF TypeInv
    <2>5. TypeInv'
        BY <2>1, <2>2, <2>3, <2>4, BacktestAssumption DEF TypeInv, Signum
    <2>6. BalanceInv'
        <3>. DEFINE cost == Cost(side)
        <3>1. /\ InitialCash \in Int /\ carried \in Int /\ costs \in Int /\ cost \in Int
              /\ costs' = costs + cost /\ carried' = carried
            BY <2>1, <2>2, <2>3, BacktestAssumption DEF TypeInv
        <3>2. TwiceMarkToMarket(quote)' = (2 * InitialCash + carried - costs) - cost
            BY <2>1, Zenon DEF BalanceInv
        <3>. HIDE DEF cost
        <3>3. (2 * InitialCash + carried - costs) - cost = 2 * InitialCash + carried' - costs'
            BY <3>1
        <3>. QED BY <3>2, <3>3, Zenon DEF BalanceInv
    <2>. QED BY <2>5, <2>6
<1>3. CASE BadRecord \/ Report \/ UNCHANGED vars
    <2>1. /\ UNCHANGED <<records, quote, orders, cash, position, carried, costs>>
          /\ phase' \in {"reading", "reported", "failed"}
        BY <1>3 DEF BadRecord, Report, vars, traderVars, historyVars, TypeInv
    <2>2. TwiceMarkToMarket(quote)' = TwiceMarkToMarket(quote)
        BY <2>1 DEF TwiceMarkToMarket, TwiceMid
    <2>. QED BY <2>1, <2>2 DEF TypeInv, BalanceInv
<1>. QED BY <1>1, <1>2, <1>3 DEF Next

LEMMA BacktestInvariant == Spec => []BacktestInv
    BY InitBacktestInv, NextBacktestInv, PTL DEF Spec

-------------------------------------------------------------------------------
(* Theorems.                                                               *)

\* Every variable keeps its type, whatever the file holds (main, execute).
THEOREM BacktestTypeCorrect == Spec => []TypeInv
<1>1. BacktestInv => TypeInv
    BY DEF BacktestInv
<1>. QED BY BacktestInvariant, <1>1, PTL

\* For every sequence of quotes the reported profit is what positions gained while
\* held, less the spread and the fee of each execution (execute, calculate_mtm).
THEOREM ProfitAlwaysAccountedFor == Spec => []ProfitIsAccountedFor
<1>1. BacktestInv => ProfitIsAccountedFor
    BY DEF BacktestInv, BalanceInv, ProfitIsAccountedFor
<1>. QED BY BacktestInvariant, <1>1, PTL

\* Against a quote that is not crossed an execution costs something or nothing.
LEMMA CostNotNegative ==
    ASSUME NEW side \in Side, quote \in [bid : Nat, ask : Nat], quote.bid <= quote.ask
    PROVE  Cost(side) >= 0
<1>1. ExecutionPrice(side) \in Nat /\ quote.ask - quote.bid \in Nat
    BY DEF ExecutionPrice
<1>2. \A a, b \in Nat : a * b \in Nat
    OBVIOUS
<1>3. (quote.ask - quote.bid) * Lots \in Nat /\ ExecutionPrice(side) * Lots \in Nat
    BY <1>1, <1>2, BacktestAssumption
<1>4. (quote.ask - quote.bid) * Lots * FeeBase \in Nat /\ Fee(side) \in Nat
    BY <1>2, <1>3, BacktestAssumption DEF Fee
<1>. QED BY <1>4 DEF Cost

\* No execution at an uncrossed quote ever leaves the account better off at the
\* mid, for any fee and any order size (execute).
THEOREM ExecutionsCanNeverGain == Spec => ExecutionsNeverGain
<1>1. BacktestInv /\ [Next]_vars
        => [Execute /\ quote.bid <= quote.ask
              => (TwiceMarkToMarket(quote))' <= TwiceMarkToMarket(quote)]_vars
    <2>. SUFFICES ASSUME BacktestInv, Execute, quote.bid <= quote.ask
                  PROVE  (TwiceMarkToMarket(quote))' <= TwiceMarkToMarket(quote)
        OBVIOUS
    <2>. DEFINE side == Head(orders)
    <2>1. /\ side \in Side
          /\ TwiceMarkToMarket(quote)' = TwiceMarkToMarket(quote) - Cost(side)
        BY ExecuteLowersValue DEF BacktestInv
    <2>. HIDE DEF side
    <2>2. Cost(side) \in Int /\ Cost(side) >= 0
        BY <2>1, CostNotNegative, ExecutionCosts DEF BacktestInv, TypeInv
    <2>3. TwiceMarkToMarket(quote) \in Int
        BY BacktestAssumption DEF BacktestInv, BalanceInv, TypeInv
    <2>. QED BY <2>1, <2>2, <2>3
<1>. QED BY BacktestInvariant, <1>1, PTL DEF Spec, ExecutionsNeverGain


NoQuoteIsCrossed == \A q \in Quotes : q.bid <= q.ask

\* In such a market the executions have cost something or nothing, all together.
CostInv == quote.bid <= quote.ask /\ costs >= 0

LEMMA NextCostInv ==
    ASSUME NoQuoteIsCrossed, BacktestInv, CostInv, [Next]_vars
    PROVE  CostInv'
<1>1. ASSUME NEW q \in Quotes, ReadRecord(q) PROVE CostInv'
    BY <1>1 DEF ReadRecord, CostInv, NoQuoteIsCrossed
<1>2. CASE Execute
    <2>. DEFINE cost == Cost(Head(orders))
    <2>1. costs' = costs + cost /\ cost \in Int /\ cost >= 0
        BY <1>2, ExecuteLowersValue, ExecutionCosts, CostNotNegative
        DEF BacktestInv, TypeInv, CostInv
    <2>2. quote' = quote /\ costs \in Int
        BY <1>2 DEF Execute, BacktestInv, TypeInv
    <2>. HIDE DEF cost
    <2>. QED BY <2>1, <2>2 DEF CostInv
<1>3. CASE BadRecord \/ Report \/ UNCHANGED vars
    BY <1>3 DEF BadRecord, Report, vars, historyVars, CostInv
<1>. QED BY <1>1, <1>2, <1>3 DEF Next

\* In a market that is never crossed the account is never worth more than its cash
\* and what the positions gained while held: trading itself pays nothing, over any
\* number of executions (execute, calculate_mtm).
THEOREM TradingItselfNeverPays ==
    ASSUME NoQuoteIsCrossed
    PROVE  Spec => [](TwiceMarkToMarket(quote) <= 2 * InitialCash + carried)
<1>1. Init => CostInv
    BY DEF Init, NoQuote, CostInv
<1>2. BacktestInv /\ CostInv /\ [Next]_vars => CostInv'
    BY NextCostInv
<1>3. BacktestInv /\ CostInv => TwiceMarkToMarket(quote) <= 2 * InitialCash + carried
    <2>. SUFFICES ASSUME BacktestInv, CostInv
                  PROVE  TwiceMarkToMarket(quote) <= 2 * InitialCash + carried
        OBVIOUS
    <2>1. TwiceMarkToMarket(quote) = 2 * InitialCash + carried - costs
        BY DEF BacktestInv, BalanceInv
    <2>2. InitialCash \in Int /\ carried \in Int /\ costs \in Int /\ costs >= 0
        BY BacktestAssumption DEF BacktestInv, TypeInv, CostInv
    <2>. QED BY <2>1, <2>2
<1>. QED BY BacktestInvariant, <1>1, <1>2, <1>3, PTL DEF Spec

===============================================================================
