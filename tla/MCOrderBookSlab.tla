--------------------------- MODULE MCOrderBookSlab ----------------------------
(***************************************************************************)
(* OrderBookSlab for TLC: updates with one or two listed levels on either  *)
(* side, two entries for one price included.                               *)
(***************************************************************************)
EXTENDS OrderBookSlab

CONSTANTS MaxSequence,  \* bound: sequence numbers
          MaxListed     \* bound: levels an update lists, over both sides

\* Every price can appear and go; the middle one can change its quantity.
MCListed == {l \in PriceLevel : l.quantity = 2 => l.price = 4}

MCLists == BoundedSeq(MCListed, MaxListed)

MCInputs ==
    {[sequence |-> n, levels |-> [side \in Side |-> IF side = "Buy" THEN q[1] ELSE q[2]]] :
        n \in 1 .. MaxSequence,
        q \in {q \in MCLists \X MCLists : Len(q[1]) + Len(q[2]) \in 1 .. MaxListed}}
===============================================================================
