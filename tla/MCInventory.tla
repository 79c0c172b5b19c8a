----------------------------- MODULE MCInventory ------------------------------
(***************************************************************************)
(* Inventory for TLC: a symbol that is bought and sold, and one that is    *)
(* only held.                                                              *)
(***************************************************************************)
EXTENDS Inventory, TLC

CONSTANTS o1, o2, btc, eth

MCSymbolOf == o1 :> btc @@ o2 :> btc

MCSideOf == o1 :> "Buy" @@ o2 :> "Sell"

MCHoldings == btc :> {-1, 0} @@ eth :> {2}
===============================================================================
