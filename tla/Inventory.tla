------------------------------ MODULE Inventory -------------------------------
(***************************************************************************)
(* PositionTracker (src/risk_manager/inventory.rs), fed by the in-flight   *)
(* tracker: the delta that process_execution returns for a report is what  *)
(* on_execution_report is given as the executed quantity.                  *)
(*                                                                         *)
(* Two things are not written in the repository yet and belong to the      *)
(* environment here: the task that takes reports off the private stream,   *)
(* one by one, and hands the delta on (in_flight.rs says what it is for),  *)
(* and the boot reconciliation, which sets the positions that the exchange *)
(* reports before any order is sent (engine.rs, as a comment).             *)
(***************************************************************************)
EXTENDS InFlight

CONSTANTS Symbols,
          SymbolOf,  \* of an order
          SideOf,    \* of an order
          Holdings   \* what the account may hold of each symbol at the start

ASSUME InventoryAssumption ==
    /\ IsFiniteSet(Symbols)
    /\ SymbolOf \in [Orders -> Symbols]
    /\ SideOf \in [Orders -> {"Buy", "Sell"}]
    /\ Holdings \in [Symbols -> SUBSET Int]

VARIABLES
    positions,  \* the map: a function on the symbols that have an entry
    applying,   \* the delta handed on: <<[order, executed]>>, or <<>>
    booted,     \* whether the reconciliation is done
    start,      \* the account's holdings at the start
    reported,   \* history: the largest executed quantity in the reports of an
                \* order that process_execution took
    unheard     \* history: orders whose newest report was lost on the way, or can
                \* no longer be taken because the Reaper purged the order

bookVars == <<positions, applying, booted, start>>
inventoryVars == <<bookVars, reported, unheard>>
allVars == <<vars, inventoryVars>>

InventoryInit ==
    /\ Init
    /\ positions = [s \in {} |-> 0]
    /\ applying = <<>>
    /\ booted = FALSE
    /\ start \in [Symbols -> UNION {Holdings[s] : s \in Symbols}]
    /\ \A s \in Symbols : start[s] \in Holdings[s]
    /\ reported = [o \in Orders |-> 0]
    /\ unheard = {}

\* get_position
GetPosition(s) == IF s \in DOMAIN positions THEN positions[s] ELSE 0

\* The map with the entry of s set to q.
With(s, q) ==
    [t \in DOMAIN positions \cup {s} |-> IF t = s THEN q ELSE positions[t]]

-------------------------------------------------------------------------------
(* Boot.                                                                   *)

\* set_position, for one of the open positions the exchange reports.
SetPosition(s) ==
    /\ ~booted
    /\ start[s] # 0
    /\ positions' = With(s, start[s])
    /\ UNCHANGED <<vars, applying, booted, start, reported, unheard>>

EndBoot ==
    /\ ~booted
    /\ \A s \in Symbols : start[s] # 0 => s \in DOMAIN positions
    /\ booted' = TRUE
    /\ UNCHANGED <<vars, positions, applying, start, reported, unheard>>

-------------------------------------------------------------------------------
(* Execution reports.                                                      *)

Signed(o, quantity) == IF SideOf[o] = "Buy" THEN quantity ELSE -quantity

ConsumeReport ==
    /\ applying = <<>>
    /\ ProcessExecution
    /\ LET r == Head(stream)
       IN  /\ applying' = <<[order |-> r.order, executed |-> Delta(r)]>>
           /\ reported' = [reported EXCEPT ![r.order] =
                              IF r.executed > @ THEN r.executed ELSE @]
    /\ UNCHANGED <<positions, booted, start, unheard>>

SkipReport ==
    /\ applying = <<>>
    /\ ReportOfUnknown
    /\ UNCHANGED inventoryVars

\* Mutant: the entry is replaced by the quantity.
ApplyExecutionReplaces ==
    /\ applying # <<>>
    /\ LET r == applying[1]
       IN  positions' = IF r.executed = 0 THEN positions
                        ELSE With(SymbolOf[r.order], Signed(r.order, r.executed))
    /\ applying' = <<>>
    /\ UNCHANGED <<vars, booted, start, reported, unheard>>

\* apply_execution, in the middle of whatever the exchange, the Reaper and
\* process_execution's removal are doing.
ApplyExecution ==
    /\ applying # <<>>
    /\ LET r == applying[1]
           s == SymbolOf[r.order]
       IN  positions' = IF r.executed = 0 THEN positions
                        ELSE With(s, GetPosition(s) + Signed(r.order, r.executed))
    /\ applying' = <<>>
    /\ UNCHANGED <<vars, booted, start, reported, unheard>>

-------------------------------------------------------------------------------
(* The other steps of the in-flight tracker and of the exchange.           *)

Register(o) == booted /\ RegisterOrder(o) /\ UNCHANGED inventoryVars

Remove(o) == RemoveSettled(o) /\ UNCHANGED inventoryVars

Wake == WakeReaper /\ UNCHANGED inventoryVars

Purge(o) ==
    /\ PurgeGhost(o)
    /\ unheard' = unheard \cup {o}
    /\ UNCHANGED <<bookVars, reported>>

\* A report of o goes out; it is news of o as long as the tracker takes it.
ExchangeReports(o) ==
    /\ Accept(o) \/ Reject(o) \/ Fill(o) \/ Cancel(o) \/ Resend(o)
    /\ unheard' = IF o \in Tracked THEN unheard \ {o} ELSE unheard
    /\ UNCHANGED <<bookVars, reported>>

InStream == {stream[i].order : i \in DOMAIN stream}

Drop ==
    /\ StreamDrops
    /\ unheard' = unheard \cup (InStream \cap Tracked)
    /\ UNCHANGED <<bookVars, reported>>

InventoryNext ==
    \/ \E s \in Symbols : SetPosition(s)
    \/ EndBoot
    \/ \E o \in Orders : Register(o) \/ Remove(o) \/ Purge(o) \/ ExchangeReports(o)
    \/ ConsumeReport
    \/ SkipReport
    \/ ApplyExecution
    \/ Wake
    \/ Drop

InventorySpec == InventoryInit /\ [][InventoryNext]_allVars

\* As in FairSpec of InFlight, only the Reaper has to go on.
InventoryFairSpec ==
    /\ InventorySpec
    /\ WF_allVars(Wake)
    /\ \A o \in Orders : WF_allVars(Purge(o))

-------------------------------------------------------------------------------
(* Properties.                                                             *)

\* Type invariant of the whole; only settled quantities are handed on.
InventoryTypeOK ==
    /\ TypeOK
    /\ DOMAIN positions \subseteq Symbols
    /\ \A s \in DOMAIN positions : positions[s] \in Int
    /\ applying = <<>> \/ applying[1] \in [order : Orders, executed : 0 .. Quantity]
    /\ booted \in BOOLEAN
    /\ start \in [Symbols -> Int]
    /\ reported \in [Orders -> 0 .. Quantity]
    /\ unheard \subseteq Orders

\* What the quantities of the orders, summed up, add to the position in s.
Adds(s, quantities) ==
    SumFunction([o \in Orders |-> IF SymbolOf[o] = s THEN Signed(o, quantities[o]) ELSE 0])

\* What the account holds of a symbol: its holdings and the fills since.
Account(s) == start[s] + Adds(s, filled)

\* The newest report of o has been taken: it is neither lost nor on its way.
Heard(o) == o \notin unheard \cup InStream

\* Whatever reports are lost, repeated or merged, on either side, a position is
\* what was held at the start and, order by order, what the furthest report taken
\* says is executed: no fill is added twice, on the wrong side or to another
\* symbol.  And once the newest reports of the orders on a symbol have been taken,
\* it is what the account holds, even if those of earlier fills were lost
\* (apply_execution, set_position, process_execution).
PositionsMatchTheAccount ==
    booted /\ applying = <<>> =>
        \A s \in Symbols :
            /\ GetPosition(s) = start[s] + Adds(s, reported)
            /\ (\A o \in Orders : SymbolOf[o] = s => Heard(o))
                   => GetPosition(s) = Account(s)
===============================================================================
