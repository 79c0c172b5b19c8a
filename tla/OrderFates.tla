------------------------------ MODULE OrderFates -------------------------------
(***************************************************************************)
(* What the engine promises of the orders its strategies make: each meets  *)
(* one fate, refused or registered, and only that one; those of a strategy *)
(* are registered in the order it made them, whichever are refused in      *)
(* between; and once the process has ended, no order is made nor meets a   *)
(* fate.                                                                   *)
(***************************************************************************)
EXTENDS Integers

CONSTANT Strategies

VARIABLES made,      \* how many orders each strategy has made
          refused,   \* orders [from, number] turned down
          inFlight,  \* orders registered
          ended      \* whether the process has

vars == <<made, refused, inFlight, ended>>

Init == /\ made = [s \in Strategies |-> 0]
        /\ refused = {}
        /\ inFlight = {}
        /\ ended = FALSE

\* An order that has met no fate.
Pending(o) == o.number <= made[o.from] /\ o \notin refused \cup inFlight

\* A strategy makes some orders more.
Make(s) == /\ ~ended
           /\ made'[s] \in Nat
           /\ made'[s] > made[s]
           /\ made' = [made EXCEPT ![s] = made'[s]]
           /\ UNCHANGED <<refused, inFlight, ended>>

Refuse(o) == /\ ~ended
             /\ Pending(o)
             /\ refused' = refused \cup {o}
             /\ UNCHANGED <<made, inFlight, ended>>

\* No later order of the strategy is registered yet.
Register(o) == /\ ~ended
               /\ Pending(o)
               /\ \A p \in inFlight : p.from = o.from => p.number < o.number
               /\ inFlight' = inFlight \cup {o}
               /\ UNCHANGED <<made, refused, ended>>

End == /\ ~ended
       /\ ended' = TRUE
       /\ UNCHANGED <<made, refused, inFlight>>

Next == \/ End
        \/ \E s \in Strategies :
              \/ Make(s)
              \/ \E n \in 1 .. made[s] :
                    LET o == [from |-> s, number |-> n] IN Refuse(o) \/ Register(o)

Spec == Init /\ [][Next]_vars
===============================================================================
