------------------------------- MODULE Backtest -------------------------------
(***************************************************************************)
(* The backtest runner (src/bin/backtest.rs): the loop over the records of *)
(* quotes, DummyStatArb, and the PaperTrader that executes its orders.     *)
(*                                                                         *)
(* Decimals are whole numbers here: prices in ticks, quantities in lots,   *)
(* and cash in ticks times lots divided by FeeBase, so that a fee of one   *)
(* FeeBase-th of a notional is whole.  Values at a mid price are doubled.  *)
(***************************************************************************)
EXTENDS Integers, Sequences

CONSTANTS Quotes,       \* [bid, ask] records
          InitialCash,
          FeeRate,      \* taker_fee_rate, in FeeBase-ths
          FeeBase,
          Lots,         \* the quantity of an order
          TightSpread,  \* DummyStatArb buys below this spread ...
          WideSpread,   \* ... and sells above this one
          MaxRecords    \* bound: records in the file

ASSUME BacktestAssumption ==
    /\ Quotes \subseteq [bid : Nat, ask : Nat]
    /\ InitialCash \in Int
    /\ FeeRate \in Nat /\ FeeBase \in Nat \ {0}
    /\ Lots \in Nat \ {0}
    /\ TightSpread \in Int /\ WideSpread \in Int
    /\ MaxRecords \in Nat

VARIABLES
    phase,     \* reading, reported at the end of the file, failed on a bad record
    records,   \* records read so far
    quote,     \* last_bid and last_ask
    orders,    \* of the present record, to be executed
    cash,
    position,
    carried,   \* history: what the positions held gained as the mid moved, doubled
    costs      \* history: what executions lost to the spread and to fees, doubled

traderVars == <<cash, position>>
historyVars == <<carried, costs>>
vars == <<phase, records, quote, orders, traderVars, historyVars>>

NoQuote == [bid |-> 0, ask |-> 0]

Init == /\ phase = "reading"
        /\ records = 0
        /\ quote = NoQuote
        /\ orders = <<>>
        /\ cash = InitialCash
        /\ position = 0
        /\ carried = 0
        /\ costs = 0

TwiceMid(q) == q.bid + q.ask

-------------------------------------------------------------------------------
(* The strategy and the trader.                                            *)

\* on_event of DummyStatArb for a book with this best bid and ask.
OnEvent(q) ==
    LET spread == q.ask - q.bid
    IN  IF spread < TightSpread THEN <<"Buy">>
        ELSE IF spread > WideSpread THEN <<"Sell">>
        ELSE <<>>

\* Mutant: the passive price.
ExecutionPricePassive(side) == IF side = "Buy" THEN quote.bid ELSE quote.ask

ExecutionPrice(side) == IF side = "Buy" THEN quote.ask ELSE quote.bid

Notional(side) == ExecutionPrice(side) * Lots * FeeBase

Fee(side) == ExecutionPrice(side) * Lots * FeeRate

\* Mutant: a sale is credited with its fee.
CashFlowWithRebate(side) ==
    IF side = "Buy" THEN -(Notional(side) + Fee(side)) ELSE Notional(side) + Fee(side)

CashFlow(side) ==
    IF side = "Buy" THEN -(Notional(side) + Fee(side)) ELSE Notional(side) - Fee(side)

\* What the spread and the fee take from an execution, doubled.
Cost(side) == (quote.ask - quote.bid) * Lots * FeeBase + 2 * Fee(side)

\* execute; neither cash nor position is looked at.
Execute ==
    /\ orders # <<>>
    /\ LET side == Head(orders)
       IN  /\ cash' = cash + CashFlow(side)
           /\ position' = position + (IF side = "Buy" THEN Lots ELSE -Lots)
           /\ costs' = costs + Cost(side)
    /\ orders' = Tail(orders)
    /\ UNCHANGED <<phase, records, quote, carried>>

\* calculate_mtm at the mid of q, doubled.
TwiceMarkToMarket(q) == 2 * cash + position * TwiceMid(q) * FeeBase

-------------------------------------------------------------------------------
(* The loop of main.                                                       *)

\* A record is parsed, and the strategy sees its book.
ReadRecord(q) ==
    /\ phase = "reading" /\ orders = <<>>
    /\ records < MaxRecords
    /\ records' = records + 1
    /\ quote' = q
    /\ orders' = OnEvent(q)
    /\ carried' = carried + position * (TwiceMid(q) - TwiceMid(quote)) * FeeBase
    /\ UNCHANGED <<phase, traderVars, costs>>

\* A record that does not parse ends main with an error, and no report.
BadRecord ==
    /\ phase = "reading" /\ orders = <<>>
    /\ records < MaxRecords
    /\ phase' = "failed"
    /\ UNCHANGED <<records, quote, orders, traderVars, historyVars>>

\* The file is at its end: the mark-to-market is taken at the last quote.
Report ==
    /\ phase = "reading" /\ orders = <<>>
    /\ phase' = "reported"
    /\ UNCHANGED <<records, quote, orders, traderVars, historyVars>>

-------------------------------------------------------------------------------
Next == \/ \E q \in Quotes : ReadRecord(q)
        \/ Execute
        \/ BadRecord
        \/ Report

Spec == Init /\ [][Next]_vars

-------------------------------------------------------------------------------
(* Properties.                                                             *)

\* Whatever the quotes do, the strategy earns nothing by trading itself: valued
\* at the mid of a quote that is not crossed, an execution against it never leaves
\* the account better off (execute).
ExecutionsNeverGain ==
    [][Execute /\ quote.bid <= quote.ask
          => (TwiceMarkToMarket(quote))' <= TwiceMarkToMarket(quote)]_vars

\* The profit reported is what the positions gained while they were held, less the
\* spread crossed and the fee paid by each execution, for every sequence of quotes,
\* crossed ones included (execute, calculate_mtm).
ProfitIsAccountedFor ==
    phase = "reported" =>
        TwiceMarkToMarket(quote) = 2 * InitialCash + carried - costs
===============================================================================
