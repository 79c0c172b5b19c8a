----------------------------- MODULE MCBookSync ------------------------------
(***************************************************************************)
(* BookSync for TLC: one bid and one ask level, and three changes: the bid *)
(* appears, the bid is deleted, the ask appears.                           *)
(***************************************************************************)
EXTENDS BookSync

CONSTANTS Bid, Ask

MCLevels == {Bid, Ask}

MCUpdates == {[l \in {Bid} |-> 1], [l \in {Bid} |-> 0], [l \in {Ask} |-> 1]}

MCEmptyMarket == [l \in MCLevels |-> 0]
==============================================================================
