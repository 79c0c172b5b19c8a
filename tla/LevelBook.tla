------------------------------ MODULE LevelBook -------------------------------
(***************************************************************************)
(* What an order book promises its owner: a call of apply takes the book   *)
(* to the value Apply gives for it (module OrderBook), whatever the book   *)
(* is made of.                                                             *)
(***************************************************************************)
EXTENDS OrderBook, Sequences

VARIABLES book,  \* its value, which a call changes when it returns
          call   \* the update being applied: <<u>>, or <<>> between calls

vars == <<book, call>>

Init == book = NewBook /\ call = <<>>

Begin == /\ call = <<>>
         /\ call' # <<>>
         /\ UNCHANGED book

End == /\ call # <<>>
       /\ call' = <<>>
       /\ book' = Apply(book, call[1])

\* The owner starts over with a new book.
Renew == /\ call = <<>>
         /\ book' = NewBook
         /\ UNCHANGED call

Next == Begin \/ End \/ Renew

Spec == Init /\ [][Next]_vars
===============================================================================
