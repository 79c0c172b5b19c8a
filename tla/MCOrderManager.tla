--------------------------- MODULE MCOrderManager ----------------------------
(***************************************************************************)
(* OrderManager for TLC.  The tasks are interchangeable.                   *)
(***************************************************************************)
EXTENDS OrderManager, TLC

TaskSymmetry == Permutations(Tasks)
==============================================================================
