------------------------------ MODULE BookFeed -------------------------------
(***************************************************************************)
(* What a synchronised order book promises to the strategies reading it:   *)
(* while the feed is live the book shown is, level by level, the book the  *)
(* exchange had at some sequence number, and it moves forward through the  *)
(* exchange's history without skipping an entry.  While the feed is not    *)
(* live nothing is promised, and the book shown counts as empty.           *)
(***************************************************************************)
EXTENDS OrderBook, Sequences

CONSTANTS Updates, InitialLevels

VARIABLES truth,   \* truth[k + 1] is the exchange's book at sequence k
          live,    \* whether strategies may trade on the book
          shown    \* the book they see

vars == <<truth, live, shown>>

BookAt(k) == [sequence |-> k, levels |-> truth[k + 1]]

Init == /\ truth = <<InitialLevels>>
        /\ live = FALSE
        /\ shown = NewBook

\* The exchange changes its book.
Publish == \E u \in Updates :
    /\ truth' = Append(truth, ApplyBatch(truth[Len(truth)], u))
    /\ UNCHANGED <<live, shown>>

\* The book becomes usable, at any point of the exchange's history.
GoLive == /\ ~live
          /\ live' = TRUE
          /\ \E k \in 0 .. Len(truth) - 1 : shown' = BookAt(k)
          /\ UNCHANGED truth

\* A live book takes exactly the next change.
Advance == /\ live
           /\ shown.sequence + 1 < Len(truth)
           /\ shown' = BookAt(shown.sequence + 1)
           /\ UNCHANGED <<truth, live>>

\* The book stops being usable and is thrown away.
Halt == /\ live
        /\ live' = FALSE
        /\ shown' = NewBook
        /\ UNCHANGED truth

Next == Publish \/ GoLive \/ Advance \/ Halt

Spec == Init /\ [][Next]_vars
==============================================================================
