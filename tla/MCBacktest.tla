------------------------------ MODULE MCBacktest ------------------------------
(***************************************************************************)
(* Backtest for TLC: quotes at three levels, with spreads on both sides of *)
(* each threshold and at it, and a crossed one.                            *)
(***************************************************************************)
EXTENDS Backtest

MCQuotes == {[bid |-> b, ask |-> b + spread] : b \in {90, 100, 120}, spread \in {-1, 0, 1, 2, 8, 9}}
===============================================================================
