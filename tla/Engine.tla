-------------------------------- MODULE Engine --------------------------------
(***************************************************************************)
(* Engine::run (src/engine.rs): strategy tasks on the broadcast bus, the   *)
(* bounded order channel, the execution worker, and the shutdown.          *)
(*                                                                         *)
(* The environment publishes events, decides what orders a strategy makes  *)
(* of one, and sends the signal.  When run returns the process ends, and   *)
(* the tasks with it.                                                      *)
(***************************************************************************)
EXTENDS Integers, Sequences, FiniteSets

CONSTANTS Strategies,
          BusCapacity,     \* EVENT_BUS_CAPACITY
          QueueCapacity,   \* of the order channel
          MaxPerEvent,     \* bound: orders made of one event
          MaxEvents        \* bound: events published

ASSUME EngineAssumption ==
    /\ IsFiniteSet(Strategies)
    /\ BusCapacity \in Nat \ {0}
    /\ QueueCapacity \in Nat \ {0}
    /\ MaxPerEvent \in Nat
    /\ MaxEvents \in Nat

VARIABLES
    phase,       \* running, stopping from the signal on, returned
    published,   \* events sent on the bus
    seen,        \* events each strategy has received
    stopped,     \* strategies whose loop has ended
    made,        \* how many orders each strategy has made
    unsent,      \* orders of the present event that on_event returned
    queue,       \* the order channel
    signing,     \* whether the worker waits for a signature
    refused,     \* orders the full channel or validate_order turned down
    inFlight     \* orders registered

strategyVars == <<seen, stopped, made, unsent>>
workerVars == <<signing, inFlight>>
vars == <<phase, published, strategyVars, queue, workerVars, refused>>

Order == [from : Strategies, number : Nat]

Running == phase # "returned"

Init == /\ phase = "running"
        /\ published = 0
        /\ seen = [s \in Strategies |-> 0]
        /\ stopped = {}
        /\ made = [s \in Strategies |-> 0]
        /\ unsent = [s \in Strategies |-> <<>>]
        /\ queue = <<>>
        /\ signing = FALSE
        /\ refused = {}
        /\ inFlight = {}

-------------------------------------------------------------------------------
(* The bus and the strategies.                                             *)

Publish ==
    /\ Running
    /\ published < MaxEvents
    /\ published' = published + 1
    /\ UNCHANGED <<phase, strategyVars, queue, workerVars, refused>>

\* The bus no longer holds the next event of the strategy.
Lagged(s) == published - seen[s] > BusCapacity

\* A strategy at recv, with none of its orders left to send.
AtRecv(s) == Running /\ s \notin stopped /\ unsent[s] = <<>>

\* recv returns an event, and on_event the orders it makes of it.
OnEvent(s) ==
    /\ AtRecv(s)
    /\ seen[s] < published
    /\ ~Lagged(s)
    /\ seen' = [seen EXCEPT ![s] = @ + 1]
    /\ \E n \in 0 .. MaxPerEvent :
          /\ made' = [made EXCEPT ![s] = @ + n]
          /\ unsent' = [unsent EXCEPT ![s] =
                [i \in 1 .. n |-> [from |-> s, number |-> made[s] + i]]]
    /\ UNCHANGED <<phase, published, stopped, queue, workerVars, refused>>

\* recv returns Lagged, which ends the loop.
StopLagging(s) ==
    /\ AtRecv(s)
    /\ Lagged(s)
    /\ stopped' = stopped \cup {s}
    /\ UNCHANGED <<phase, published, seen, made, unsent, queue, workerVars, refused>>

\* Mutant: the queue takes one order more.
QueueIsOverfull == Len(queue) > QueueCapacity

QueueIsFull == Len(queue) >= QueueCapacity

\* Mutants: the strategy waits for a place; a full queue ends the loop over the
\* orders.
SendWaits(s) ==
    /\ Running
    /\ unsent[s] # <<>>
    /\ ~QueueIsFull
    /\ unsent' = [unsent EXCEPT ![s] = Tail(@)]
    /\ queue' = Append(queue, Head(unsent[s]))
    /\ UNCHANGED <<phase, published, seen, stopped, made, workerVars, refused>>
TrySendBreaks(s) ==
    /\ Running
    /\ unsent[s] # <<>>
    /\ IF QueueIsFull
       THEN /\ refused' = refused \cup {Head(unsent[s])}
            /\ unsent' = [unsent EXCEPT ![s] = <<>>]
            /\ UNCHANGED queue
       ELSE /\ queue' = Append(queue, Head(unsent[s]))
            /\ unsent' = [unsent EXCEPT ![s] = Tail(@)]
            /\ UNCHANGED refused
    /\ UNCHANGED <<phase, published, seen, stopped, made, workerVars>>

\* try_send of the next order: it is queued, or dropped if the channel is full.
TrySend(s) ==
    /\ Running
    /\ unsent[s] # <<>>
    /\ unsent' = [unsent EXCEPT ![s] = Tail(@)]
    /\ IF QueueIsFull
       THEN refused' = refused \cup {Head(unsent[s])} /\ UNCHANGED queue
       ELSE queue' = Append(queue, Head(unsent[s])) /\ UNCHANGED refused
    /\ UNCHANGED <<phase, published, seen, stopped, made, workerVars>>

-------------------------------------------------------------------------------
(* The execution worker.                                                   *)

\* Mutant: the worker stops taking orders at the signal.
AtQueueUntilSignal == phase = "running" /\ ~signing /\ queue # <<>>

\* The worker at recv, with an order to take.
AtQueue == Running /\ ~signing /\ queue # <<>>

\* validate_order looks at the order's notional, and at an open-order count that
\* nothing raises.
Reject ==
    /\ AtQueue
    /\ refused' = refused \cup {Head(queue)}
    /\ queue' = Tail(queue)
    /\ UNCHANGED <<phase, published, strategyVars, workerVars>>

\* Mutant: the worker takes what came last, pop for pop_front.
RegisterLast ==
    LET n == Len(queue)
    IN  /\ AtQueue
        /\ inFlight' = inFlight \cup {queue[n]}
        /\ signing' = TRUE
        /\ queue' = SubSeq(queue, 1, n - 1)
        /\ UNCHANGED <<phase, published, strategyVars, refused>>

\* The order is registered, and the worker awaits its signature.
Register ==
    /\ AtQueue
    /\ inFlight' = inFlight \cup {Head(queue)}
    /\ signing' = TRUE
    /\ queue' = Tail(queue)
    /\ UNCHANGED <<phase, published, strategyVars, refused>>

\* The blocking pool is done; the request itself is not written yet.
Signed ==
    /\ Running
    /\ signing
    /\ signing' = FALSE
    /\ UNCHANGED <<phase, published, strategyVars, queue, inFlight, refused>>

Work == Reject \/ Register \/ Signed

-------------------------------------------------------------------------------
(* Shutdown.                                                               *)

\* SIGINT or SIGTERM; cancel_all_orders begins if there is a client.
Signal ==
    /\ phase = "running"
    /\ phase' = "stopping"
    /\ UNCHANGED <<published, strategyVars, queue, workerVars, refused>>

\* cancel_all_orders has succeeded or failed, and run returns: no task is told.
Return ==
    /\ phase = "stopping"
    /\ phase' = "returned"
    /\ UNCHANGED <<published, strategyVars, queue, workerVars, refused>>

-------------------------------------------------------------------------------
StrategyStep(s) == OnEvent(s) \/ StopLagging(s) \/ TrySend(s)

Next == \/ Publish
        \/ \E s \in Strategies : OnEvent(s) \/ StopLagging(s) \/ TrySend(s)
        \/ Reject \/ Register \/ Signed
        \/ Signal \/ Return

Spec == Init /\ [][Next]_vars

\* The runtime runs the strategies' tasks; what it does with the worker is left
\* to the property that needs it.
FairSpec == Spec /\ \A s \in Strategies : WF_vars(StrategyStep(s))

-------------------------------------------------------------------------------
(* Properties.                                                             *)

\* Type invariant; the channel never outgrows its capacity.
TypeOK ==
    /\ phase \in {"running", "stopping", "returned"}
    /\ published \in Nat
    /\ seen \in [Strategies -> Nat]
    /\ \A s \in Strategies : seen[s] <= published
    /\ stopped \subseteq Strategies
    /\ made \in [Strategies -> Nat]
    /\ unsent \in [Strategies -> Seq(Order)]
    /\ queue \in Seq(Order)
    /\ Len(queue) <= QueueCapacity
    /\ signing \in BOOLEAN
    /\ refused \subseteq Order
    /\ inFlight \subseteq Order

\* However the strategies and the worker interleave, and whatever the full
\* channel drops, each order a strategy made is in one place and in one only
\* (run).
OrdersAreAccountedFor ==
    \A s \in Strategies, n \in 1 .. MaxEvents * MaxPerEvent :
        LET IsIt(o) == o.from = s /\ o.number = n
            places == Cardinality({i \in DOMAIN unsent[s] : IsIt(unsent[s][i])})
                      + Cardinality({i \in DOMAIN queue : IsIt(queue[i])})
                      + Cardinality({o \in refused : IsIt(o)})
                      + Cardinality({o \in inFlight : IsIt(o)})
        IN  places = IF n <= made[s] THEN 1 ELSE 0

\* The engine keeps what OrderFates promises: a strategy's orders are registered in
\* the order made, none is decided on twice, and none after the process has ended
\* (run).
Fates == INSTANCE OrderFates WITH ended <- phase = "returned"

ImplementsOrderFates == Fates!Spec

\* A strategy handles every event it has not lost, even if the worker never
\* takes an order: no strategy waits for the channel (run).
StrategiesKeepUp ==
    \A s \in Strategies, n \in 1 .. MaxEvents :
        published >= n ~> seen[s] >= n \/ s \in stopped \/ ~Running

\* With a worker the runtime goes on running, no order stays in the channel
\* until the process ends (run).
QueueIsServed ==
    WF_vars(Work) =>
        \A s \in Strategies, n \in 1 .. MaxEvents * MaxPerEvent :
            LET isQueued == \E i \in DOMAIN queue :
                               queue[i].from = s /\ queue[i].number = n
            IN  isQueued ~> ~isQueued \/ ~Running
===============================================================================
