---------------------------- MODULE OrderBookSlab -----------------------------
(***************************************************************************)
(* OrderBook as it is stored (src/core/orderbook.rs): one sorted vector of *)
(* price levels per side, which apply_batch searches, and shifts, one      *)
(* listed level after another.                                             *)
(*                                                                         *)
(* An iteration of the loop in apply_batch is a step.  Nobody sees the     *)
(* book between two of them, since apply has it exclusively.  Prices are   *)
(* counted in half ticks, so that half the sum of two is a number.         *)
(***************************************************************************)
EXTENDS Integers, Sequences, SequencesExt

CONSTANTS Prices,
          Quantities,  \* of the listed levels; 0 deletes a level
          Inputs       \* the updates apply is called with

Side == {"Buy", "Sell"}

PriceLevel == [price : Prices, quantity : Quantities]

\* OrderBookUpdate, with its lists bids and asks as levels["Buy"] and
\* levels["Sell"].
Update == [sequence : Nat, levels : [Side -> Seq(PriceLevel)]]

ASSUME SlabAssumption ==
    /\ Prices \subseteq {p \in Nat : p % 2 = 0}
    /\ Quantities \subseteq Nat
    /\ Inputs \subseteq Update

VARIABLES
    slab,      \* bids and asks, as slab["Buy"] and slab["Sell"]
    sequence,
    update,    \* the argument of the present call of apply: <<u>>, or <<>>
    rest,      \* the levels of it that apply_batch has still to go through
    before     \* history: the book, as a value, when the last call returned

vars == <<slab, sequence, update, rest, before>>

NoRest == [side \in Side |-> <<>>]

-------------------------------------------------------------------------------
(* The value that two vectors stand for.                                   *)

QuantityAt(levels, price) ==
    IF \E i \in DOMAIN levels : levels[i].price = price
    THEN levels[CHOOSE i \in DOMAIN levels : levels[i].price = price].quantity
    ELSE 0

LevelsOf(slabs) == [l \in Side \X Prices |-> QuantityAt(slabs[l[1]], l[2])]

\* The quantity that an update's list leaves a price with: the last one counts.
LastQuantity(levels, price) ==
    levels[CHOOSE i \in DOMAIN levels :
              /\ levels[i].price = price
              /\ \A j \in DOMAIN levels : levels[j].price = price => j <= i].quantity

Listed(lists) ==
    {l \in Side \X Prices : \E i \in DOMAIN lists[l[1]] : lists[l[1]][i].price = l[2]}

\* The changes an update describes.
ChangesOf(u) == [l \in Listed(u.levels) |-> LastQuantity(u.levels[l[1]], l[2])]

EmptyBook == [sequence |-> 0, levels |-> LevelsOf(NoRest)]

Init == /\ slab = NoRest
        /\ sequence = 0
        /\ update = <<>>
        /\ rest = NoRest
        /\ before = EmptyBook

-------------------------------------------------------------------------------
(* apply.                                                                  *)

\* Mutant: an update with the book's own sequence is taken.
IsOld(u) == u.sequence < sequence

\* if update.sequence <= self.sequence { return }
IsStale(u) == u.sequence <= sequence

StartApply(u) ==
    /\ update = <<>>
    /\ ~IsStale(u)
    /\ update' = <<u>>
    /\ sequence' = u.sequence
    /\ rest' = u.levels
    /\ UNCHANGED <<slab, before>>

DiscardStale(u) ==
    /\ update = <<>>
    /\ IsStale(u)
    /\ UNCHANGED vars

\* Mutant: the search goes on past a level of the price itself.
CmpPriceInclusive(level, target, side) ==
    IF side = "Buy" THEN level.price >= target ELSE level.price <= target

\* Whether the search has to go on after the level.
CmpPrice(level, target, side) ==
    IF side = "Buy" THEN level.price > target ELSE level.price < target

\* partition_point: the length of the prefix on which the comparison holds.  In
\* a vector that is not partitioned by it the result is any index at all.
PartitionPoints(levels, target, side) ==
    LET IsPoint(pos) == \A i \in DOMAIN levels :
                            CmpPrice(levels[i], target, side) <=> i <= pos
        indices == 0 .. Len(levels)
    IN  IF \E pos \in indices : IsPoint(pos)
        THEN {pos \in indices : IsPoint(pos)}
        ELSE indices

\* The position in the code's vector is pos; the levels here count from 1.
IsAt(levels, pos, price) ==
    pos < Len(levels) /\ levels[pos + 1].price = price

\* Mutant: a deletion of a level that is not there inserts it.
UpdatedUnchecked(levels, pos, u) ==
    IF IsAt(levels, pos, u.price)
    THEN IF u.quantity = 0 THEN RemoveAt(levels, pos + 1)
                           ELSE [levels EXCEPT ![pos + 1] = u]
    ELSE InsertAt(levels, pos + 1, u)

\* The level at pos is removed or takes the new quantity; without one, a level
\* is inserted there, unless it is to be deleted.
Updated(levels, pos, u) ==
    IF IsAt(levels, pos, u.price)
    THEN IF u.quantity = 0 THEN RemoveAt(levels, pos + 1)
                           ELSE [levels EXCEPT ![pos + 1] = u]
    ELSE IF u.quantity = 0 THEN levels
                           ELSE InsertAt(levels, pos + 1, u)

\* One iteration of apply_batch; the bids go first.
ApplyLevel(side) ==
    /\ rest[side] # <<>>
    /\ side = "Sell" => rest["Buy"] = <<>>
    /\ LET u == Head(rest[side])
       IN  \E pos \in PartitionPoints(slab[side], u.price, side) :
              slab' = [slab EXCEPT ![side] = Updated(@, pos, u)]
    /\ rest' = [rest EXCEPT ![side] = Tail(@)]
    /\ UNCHANGED <<sequence, update, before>>

FinishApply ==
    /\ update # <<>>
    /\ rest = NoRest
    /\ update' = <<>>
    /\ before' = [sequence |-> sequence, levels |-> LevelsOf(slab)]
    /\ UNCHANGED <<slab, sequence, rest>>

\* The synchronizer's reset replaces the book by a new one.
Renew ==
    /\ update = <<>>
    /\ slab' = NoRest
    /\ sequence' = 0
    /\ before' = EmptyBook
    /\ UNCHANGED <<update, rest>>

Next == \/ \E u \in Inputs : StartApply(u) \/ DiscardStale(u)
        \/ \E side \in Side : ApplyLevel(side)
        \/ FinishApply
        \/ Renew

Spec == Init /\ [][Next]_vars

-------------------------------------------------------------------------------
(* The queries.  None is the code's None; mid_price and spread are None if *)
(* a side is empty.                                                        *)

None == <<>>

\* Mutant: the last bid is taken for the best one.
BestAtEnd(side) == IF slab[side] = <<>> THEN None ELSE <<Last(slab[side])>>

\* best_bid and best_ask
Best(side) == IF slab[side] = <<>> THEN None ELSE <<Head(slab[side])>>

BothSides == Best("Buy") # None /\ Best("Sell") # None

MidPrice == (Best("Buy")[1].price + Best("Sell")[1].price) \div 2

Spread == Best("Sell")[1].price - Best("Buy")[1].price

\* bid_depth and ask_depth
Depth(side) == Len(slab[side])

-------------------------------------------------------------------------------
(* Properties.                                                             *)

Levels == Side \X Prices

\* Type invariant; no level without a quantity is stored.
TypeOK ==
    /\ slab \in [Side -> Seq([price : Prices, quantity : Quantities \ {0}])]
    /\ sequence \in Nat
    /\ update = <<>> \/ (update = <<update[1]>> /\ update[1] \in Update)
    /\ rest \in [Side -> Seq(PriceLevel)]
    /\ before.sequence \in Nat
    /\ before.levels \in [Levels -> Quantities \cup {0}]

\* Bids descend and asks ascend, with no price twice, at every step of every
\* batch: the search for the next level relies on it (apply_batch).
SlabsAreSorted ==
    \A side \in Side : \A i, j \in DOMAIN slab[side] :
        i < j => IF side = "Buy" THEN slab[side][i].price > slab[side][j].price
                                 ELSE slab[side][i].price < slab[side][j].price

\* The levels resting on a side of the book, by the value it stands for.
Resting(side) == {p \in Prices : before.levels[<<side, p>>] # 0}

\* Between calls the first entry of a side is its best price with what rests
\* there, the depth is the number of prices with a quantity, and mid price and
\* spread exist when both sides have one (best_bid, best_ask, mid_price, spread,
\* bid_depth, ask_depth).
QueriesAreExact ==
    update = <<>> =>
        /\ \A side \in Side :
              /\ Best(side) = None <=> Resting(side) = {}
              /\ Best(side) # None =>
                    LET best == Best(side)[1]
                    IN  /\ best.price \in Resting(side)
                        /\ best.quantity = before.levels[<<side, best.price>>]
                        /\ \A p \in Resting(side) :
                              IF side = "Buy" THEN p <= best.price ELSE best.price <= p
              /\ \A p \in Resting(side) :
                    \E i \in 1 .. Depth(side) : slab[side][i].price = p
              /\ \A i \in 1 .. Depth(side) : slab[side][i].price \in Resting(side)
        /\ BothSides =>
              LET pairs == Resting("Buy") \X Resting("Sell")
              IN  /\ \A q \in pairs : Spread <= q[2] - q[1]
                  /\ \E q \in pairs : Spread = q[2] - q[1] /\ 2 * MidPrice = q[1] + q[2]

\* Whatever an update lists, in whatever order and however often, the call
\* changes the book as Apply says (apply).
AsLevelBook == INSTANCE LevelBook WITH
    book <- before,
    call <- IF update = <<>> THEN <<>>
            ELSE <<[sequence |-> update[1].sequence, levels |-> ChangesOf(update[1])]>>

ImplementsLevelBook == AsLevelBook!Spec
===============================================================================
