------------------------------ MODULE InFlight -------------------------------
(***************************************************************************)
(* InFlightTracker (src/order_manager/in_flight.rs): the map of orders     *)
(* sent and not yet settled, its consumer of execution reports, and the    *)
(* Reaper task, which run in parallel on the map.                          *)
(*                                                                         *)
(* The environment is the exchange and its private stream.  The stream is  *)
(* in order; it can drop with everything undelivered, and the exchange can *)
(* send an order's present status again.  Reports carry the quantity       *)
(* executed so far, as process_execution takes it.                         *)
(*                                                                         *)
(* The Reaper wakes at a fixed interval and is the only reader of an       *)
(* order's timestamp, so the age of an order is the number of wakes since  *)
(* it was registered.                                                      *)
(***************************************************************************)
EXTENDS Integers, Sequences, FiniteSets, Functions

CONSTANTS Orders,      \* client ids; register_order is given a fresh one
          Quantity,    \* the quantity of an order
          Timeout,     \* the Reaper's timeout, in wakes
          MaxStream,   \* bound: a status is sent again below this many reports
          MaxLosses    \* bound: losses of the stream

ASSUME InFlightAssumption ==
    /\ IsFiniteSet(Orders)
    /\ Quantity \in Nat \ {0}
    /\ Timeout \in Nat
    /\ MaxStream \in Nat
    /\ MaxLosses \in Nat

VARIABLES
    pending,   \* pending_orders: a function on the orders tracked
    closing,   \* orders whose removal process_execution has yet to make
    ghosts,    \* the Reaper's list of orders to purge
    counted,   \* the sum of the deltas process_execution returned
    status,    \* each order on the exchange
    filled,    \* the quantity of it that is executed
    stream,    \* reports on their way
    losses

trackerVars == <<pending, closing, ghosts, counted>>
exchangeVars == <<status, filled>>
streamVars == <<stream, losses>>
vars == <<trackerVars, exchangeVars, streamVars>>

Status == {"New", "Pending", "Open", "PartiallyFilled", "Filled", "Cancelled",
           "Rejected"}
Entry == [age : Nat, cumulative : Int]
Report == [order : Orders, status : Status, executed : 0 .. Quantity]

Tracked == DOMAIN pending

Init == /\ pending = [o \in {} |-> [age |-> 0, cumulative |-> 0]]
        /\ closing = {}
        /\ ghosts = {}
        /\ counted = [o \in Orders |-> 0]
        /\ status = [o \in Orders |-> "New"]
        /\ filled = [o \in Orders |-> 0]
        /\ stream = <<>>
        /\ losses = 0

------------------------------------------------------------------------------
(* The tracker.                                                            *)

\* register_order, before the order is sent.
RegisterOrder(o) ==
    /\ status[o] = "New"
    /\ status' = [status EXCEPT ![o] = "Pending"]
    /\ pending' = [u \in Tracked \cup {o} |->
                      IF u = o THEN [age |-> 0, cumulative |-> 0] ELSE pending[u]]
    /\ UNCHANGED <<closing, ghosts, counted, filled, streamVars>>

\* Mutants: the executed quantity is taken for the delta; the difference is
\* the wrong way round.
WholeDelta(r) == r.executed
ReversedDelta(r) == pending[r.order].cumulative - r.executed

\* The fill the report adds to those already seen.
Delta(r) == r.executed - pending[r.order].cumulative

\* Mutant: a partial fill settles the order.
SettlesEarly(r) == r.status \in {"PartiallyFilled", "Filled", "Cancelled"}

Settles(r) == r.status \in {"Filled", "Cancelled"}

\* Mutant: a report starts the order's time anew.
ProcessExecutionTouches ==
    /\ closing = {}
    /\ stream # <<>>
    /\ LET r == Head(stream)
       IN  /\ r.order \in Tracked
           /\ pending' = [pending EXCEPT ![r.order] =
                             [age |-> 0, cumulative |-> r.executed]]
           /\ counted' = [counted EXCEPT ![r.order] = @ + Delta(r)]
           /\ closing' = IF Settles(r) THEN {r.order} ELSE {}
    /\ stream' = Tail(stream)
    /\ UNCHANGED <<ghosts, exchangeVars, losses>>

\* process_execution of a tracked order.  The entry's lock is dropped before
\* the entry of a settled order is removed.
ProcessExecution ==
    /\ closing = {}
    /\ stream # <<>>
    /\ LET r == Head(stream)
       IN  /\ r.order \in Tracked
           /\ pending' = [pending EXCEPT ![r.order].cumulative = r.executed]
           /\ counted' = [counted EXCEPT ![r.order] = @ + Delta(r)]
           /\ closing' = IF Settles(r) THEN {r.order} ELSE {}
    /\ stream' = Tail(stream)
    /\ UNCHANGED <<ghosts, exchangeVars, losses>>

\* process_execution of an order that is not tracked returns None.
ReportOfUnknown ==
    /\ closing = {}
    /\ stream # <<>>
    /\ Head(stream).order \notin Tracked
    /\ stream' = Tail(stream)
    /\ UNCHANGED <<trackerVars, exchangeVars, losses>>

RemoveSettled(o) ==
    /\ o \in closing
    /\ closing' = closing \ {o}
    /\ pending' = Restrict(pending, Tracked \ {o})
    /\ UNCHANGED <<ghosts, counted, exchangeVars, streamVars>>

\* Mutants: the timeout is reached one wake early; one wake late.
IsGhostEarly(entry) == entry.age >= Timeout
IsGhostLate(entry) == entry.age > Timeout + 1

\* timestamp.elapsed() > timeout
IsGhost(entry) == entry.age > Timeout

\* The Reaper wakes, once it is done with the ghosts of its last scan.
WakeReaper ==
    /\ ghosts = {}
    /\ Tracked # {}
    /\ pending' = [o \in Tracked |-> [pending[o] EXCEPT !.age = @ + 1]]
    /\ ghosts' = {o \in Tracked : IsGhost(pending'[o])}
    /\ UNCHANGED <<closing, counted, exchangeVars, streamVars>>

\* The ghost is removed without a look at the exchange.
PurgeGhost(o) ==
    /\ o \in ghosts
    /\ ghosts' = ghosts \ {o}
    /\ pending' = Restrict(pending, Tracked \ {o})
    /\ UNCHANGED <<closing, counted, exchangeVars, streamVars>>

------------------------------------------------------------------------------
(* The exchange.                                                           *)

\* The report of an order's status s and executed quantity q.
Send(o, s, q) == stream' = Append(stream, [order |-> o, status |-> s, executed |-> q])

Becomes(o, s, q) ==
    /\ status' = [status EXCEPT ![o] = s]
    /\ filled' = [filled EXCEPT ![o] = q]
    /\ Send(o, s, q)
    /\ UNCHANGED <<trackerVars, losses>>

Accept(o) == status[o] = "Pending" /\ Becomes(o, "Open", 0)

Reject(o) == status[o] = "Pending" /\ Becomes(o, "Rejected", 0)

Fill(o) ==
    /\ status[o] \in {"Open", "PartiallyFilled"}
    /\ \E q \in filled[o] + 1 .. Quantity :
          Becomes(o, IF q = Quantity THEN "Filled" ELSE "PartiallyFilled", q)

Cancel(o) ==
    /\ status[o] \in {"Open", "PartiallyFilled"}
    /\ Becomes(o, "Cancelled", filled[o])

Resend(o) ==
    /\ status[o] \notin {"New", "Pending"}
    /\ Len(stream) < MaxStream
    /\ Send(o, status[o], filled[o])
    /\ UNCHANGED <<trackerVars, exchangeVars, losses>>

StreamDrops ==
    /\ losses < MaxLosses
    /\ losses' = losses + 1
    /\ stream' = <<>>
    /\ UNCHANGED <<trackerVars, exchangeVars>>

------------------------------------------------------------------------------
Next == \/ \E o \in Orders : \/ RegisterOrder(o) \/ RemoveSettled(o)
                             \/ PurgeGhost(o)
                             \/ Accept(o) \/ Reject(o) \/ Fill(o) \/ Cancel(o)
                             \/ Resend(o)
        \/ ProcessExecution
        \/ ReportOfUnknown
        \/ WakeReaper
        \/ StreamDrops

Spec == Init /\ [][Next]_vars

\* The Reaper is a Tokio task on an interval: it goes on waking and purging.
\* Neither the exchange nor its stream has to do anything.
FairSpec == /\ Spec
            /\ WF_vars(WakeReaper)
            /\ \A o \in Orders : WF_vars(PurgeGhost(o))

------------------------------------------------------------------------------
(* Properties.                                                             *)

\* Type invariant; no entry outlives the wake that finds it too old.
TypeOK ==
    /\ Tracked \subseteq Orders
    /\ \A o \in Tracked : pending[o] \in Entry /\ pending[o].age <= Timeout + 1
    /\ closing \subseteq Orders
    /\ ghosts \subseteq Orders
    /\ counted \in [Orders -> Int]
    /\ status \in [Orders -> Status]
    /\ filled \in [Orders -> 0 .. Quantity]
    /\ stream \in Seq(Report)
    /\ losses \in 0 .. MaxLosses

\* However often a status is reported, and whatever reports are lost, no fill
\* is counted twice: what is counted of an order never exceeds what the
\* exchange has executed of it (process_execution).
NothingIsCountedTwice == \A o \in Orders : counted[o] <= filled[o]

\* A position built from the deltas never moves against the fills, not even
\* when an old status is reported again (process_execution).
DeltasAreNotNegative ==
    [][\A o \in Orders : counted'[o] >= counted[o]]_vars

\* An order that its last report settles has been counted in full, even if the
\* reports of its partial fills were lost (process_execution).
SettledOrdersAreExact == \A o \in closing : counted[o] = filled[o]

\* An order that the exchange still works on leaves the map only when it has
\* been there for longer than the timeout (process_execution, start_reaper).
LiveOrdersAreNotDroppedEarly ==
    [][\A o \in Tracked \ DOMAIN pending' :
        status[o] \in {"Filled", "Cancelled"} \/ pending[o].age > Timeout]_vars

\* No order stays in the map for ever, whatever reports are lost: those
\* rejected, which process_execution leaves in it, included (start_reaper).
MapIsFreed == \A o \in Orders : (o \in Tracked) ~> (o \notin Tracked)

\* Every order that is open on the exchange is tracked (InFlightTracker).
OpenOrdersAreTracked ==
    \A o \in Orders : status[o] \in {"Open", "PartiallyFilled"} => o \in Tracked
==============================================================================
