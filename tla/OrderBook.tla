------------------------------ MODULE OrderBook ------------------------------
(***************************************************************************)
(* The order book of src/core/orderbook.rs as a value.                     *)
(*                                                                         *)
(* A level is a side together with a price; the two sorted vectors of the  *)
(* code are abstracted to the function from levels to resting quantities   *)
(* they represent, where quantity 0 means that the vector has no entry.    *)
(* An update is a sequence number and the quantities of the levels that    *)
(* changed, with 0 for a deletion.                                         *)
(***************************************************************************)
EXTENDS Naturals

CONSTANT Levels

LevelMap == [Levels -> Nat]

NoLevels == [l \in Levels |-> 0]

Book == [sequence : Nat, levels : LevelMap]

\* OrderBook::new
NewBook == [sequence |-> 0, levels |-> NoLevels]

\* The level changes an update may carry: quantities for some of the levels.
IsChange(c) == \E S \in SUBSET Levels : c \in [S -> Nat]

\* apply_batch on both sides: a listed level takes its new quantity, and is
\* removed when that is 0; a level that is not listed keeps its quantity.
ApplyBatch(levels, changes) ==
    [l \in Levels |-> IF l \in DOMAIN changes THEN changes[l] ELSE levels[l]]

\* apply: an update that is not newer than the book is silently discarded.
Apply(book, update) ==
    IF update.sequence <= book.sequence
    THEN book
    ELSE [sequence |-> update.sequence,
          levels   |-> ApplyBatch(book.levels, update.levels)]
==============================================================================
