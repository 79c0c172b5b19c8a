------------------------------ MODULE BookSync -------------------------------
(***************************************************************************)
(* BookSynchronizer (src/exchange_clients/book_sync.rs): builds one        *)
(* symbol's order book from a WebSocket stream of deltas and a REST        *)
(* snapshot that arrives at some point of the stream.                      *)
(*                                                                         *)
(* The first five variables are the synchronizer's.  The others are its    *)
(* environment: the exchange, the WebSocket stream, the REST snapshot      *)
(* tasks, and the driver that calls the synchronizer's methods.  The       *)
(* methods take &mut self, so no method starts while another is running;   *)
(* the drain of on_snapshot_received is nevertheless broken into its       *)
(* iterations, because the watch channel already shows Syncing to other    *)
(* tasks and the exchange, the stream and the REST tasks go on meanwhile.  *)
(***************************************************************************)
EXTENDS OrderBook, Sequences, FiniteSets

CONSTANTS Updates,            \* the level changes the exchange may publish
          InitialLevels,      \* the exchange's book at sequence 0
          MaxBufferCapacity,  \* MAX_BUFFER_CAPACITY
          RestLag,            \* how many updates a REST response may be behind
          MaxSequence,        \* bound: updates published
          MaxGeneration,      \* bound: a stream opens below this generation
          MaxTasks            \* bound: REST tasks and responses outstanding

ASSUME ConstantsAssumption ==
    /\ \A u \in Updates : IsChange(u)
    /\ InitialLevels \in LevelMap
    /\ MaxBufferCapacity \in Nat \ {0}
    /\ RestLag \in Nat
    /\ MaxSequence \in Nat
    /\ MaxGeneration \in Nat
    /\ MaxTasks \in Nat

VARIABLES
    state,        \* the feed state, which the watch channel always equals
    snapshotSeq,  \* the payload of Syncing, 0 in the other states
    book,         \* the managed book
    buffer,       \* the delta buffer
    generation,   \* counts resets
    deltas,       \* deltas[k]: the changes the exchange numbered k
    truth,        \* truth[k + 1]: the exchange's book at sequence k
    ws,           \* "Open", "Lost" (driver not yet told), "Down" (told)
    wsNext,       \* the sequence the stream delivers next
    requested,    \* generations captured by the running REST tasks
    responses     \* snapshots on their way to on_snapshot_received

syncVars == <<state, snapshotSeq, book, buffer, generation>>
exchangeVars == <<deltas, truth>>
streamVars == <<ws, wsNext>>
restVars == <<requested, responses>>
vars == <<syncVars, exchangeVars, streamVars, restVars>>

FeedState == {"Pending", "Buffering", "Syncing", "Live"}
Update == [sequence : Nat, levels : Updates]
Response == [generation : Nat, sequence : Nat]

Delta(k) == [sequence |-> k, levels |-> deltas[k]]

\* The full book of sequence k: every level is listed.
Snapshot(k) == [sequence |-> k, levels |-> truth[k + 1]]

Init == /\ state = "Pending"
        /\ snapshotSeq = 0
        /\ book = NewBook
        /\ buffer = <<>>
        /\ generation = 0
        /\ deltas = <<>>
        /\ truth = <<InitialLevels>>
        /\ ws = "Down"
        /\ wsNext = 1
        /\ requested = {}
        /\ responses = {}

------------------------------------------------------------------------------
(* The synchronizer.                                                       *)

\* Mutants of reset: the old book survives; REST tasks stay valid.
ResetKeepsBook == /\ buffer' = <<>>
                  /\ generation' = generation + 1
                  /\ state' = "Pending"
                  /\ snapshotSeq' = 0
                  /\ UNCHANGED book

ResetKeepsGeneration == /\ buffer' = <<>>
                        /\ book' = NewBook
                        /\ state' = "Pending"
                        /\ snapshotSeq' = 0
                        /\ UNCHANGED generation

\* reset: forget buffer and book, and outdate every REST task.
Reset == /\ buffer' = <<>>
         /\ book' = NewBook
         /\ generation' = generation + 1
         /\ state' = "Pending"
         /\ snapshotSeq' = 0

\* on_ws_connected.  The driver also calls it after the synchronizer has
\* reset itself on a stream that is still open.  From any state but Pending
\* it returns InvalidTransition and changes nothing.
OnWsConnected ==
    /\ ws # "Down"
    /\ state = "Pending"
    /\ state' = "Buffering"
    /\ UNCHANGED <<snapshotSeq, book, buffer, generation,
                   exchangeVars, streamVars, restVars>>

\* push_delta.
DiscardDelta ==
    /\ state = "Pending"
    /\ UNCHANGED syncVars

\* Mutant: the capacity is checked one delta late.
BufferIsOverfull == Len(buffer) > MaxBufferCapacity

BufferIsFull == Len(buffer) >= MaxBufferCapacity

BufferDelta(update) ==
    /\ state = "Buffering"
    /\ IF BufferIsFull
       THEN Reset
       ELSE /\ buffer' = Append(buffer, update)
            /\ UNCHANGED <<state, snapshotSeq, book, generation>>

ApplyDelta(update) ==
    /\ state = "Live"
    /\ book' = Apply(book, update)
    /\ UNCHANGED <<state, snapshotSeq, buffer, generation>>

PushDelta ==
    /\ ws = "Open"
    /\ wsNext <= Len(deltas)
    /\ \/ DiscardDelta
       \/ BufferDelta(Delta(wsNext))
       \/ ApplyDelta(Delta(wsNext))
    /\ wsNext' = wsNext + 1
    /\ UNCHANGED <<ws, exchangeVars, restVars>>

\* on_snapshot_received: its guards in the order of the code.
\* Mutant: any generation is accepted.
NeverStale(r) == FALSE

IsStale(r) == r.generation # generation

SnapshotDiscarded(r) ==
    /\ IsStale(r) \/ state # "Buffering"
    /\ UNCHANGED syncVars

BehindBuffer(r) == buffer # <<>> /\ r.sequence < Head(buffer).sequence

SnapshotTooOld(r) ==
    /\ ~IsStale(r) /\ state = "Buffering"
    /\ BehindBuffer(r)
    /\ Reset

\* Mutant: the feed is announced Live before the buffer is drained.
SnapshotAppliedLive(r) ==
    /\ ~IsStale(r) /\ state = "Buffering"
    /\ ~BehindBuffer(r)
    /\ book' = Apply(book, Snapshot(r.sequence))
    /\ state' = "Live"
    /\ UNCHANGED <<snapshotSeq, buffer, generation>>

SnapshotApplied(r) ==
    /\ ~IsStale(r) /\ state = "Buffering"
    /\ ~BehindBuffer(r)
    /\ book' = Apply(book, Snapshot(r.sequence))
    /\ state' = "Syncing"
    /\ snapshotSeq' = r.sequence
    /\ UNCHANGED <<buffer, generation>>

OnSnapshotReceived(r) ==
    /\ state # "Syncing"
    /\ SnapshotDiscarded(r) \/ SnapshotTooOld(r) \/ SnapshotApplied(r)
    /\ responses' = responses \ {r}
    /\ UNCHANGED <<requested, exchangeVars, streamVars>>

\* Mutant: the delta just after the snapshot is dropped too.
CoveredAndNext(update) == update.sequence <= snapshotSeq + 1

CoveredBySnapshot(update) == update.sequence <= snapshotSeq

\* Mutant: the drain looks at the front delta without popping it.
DrainWithoutPop ==
    /\ state = "Syncing"
    /\ buffer # <<>>
    /\ book' = IF CoveredBySnapshot(Head(buffer))
               THEN book
               ELSE Apply(book, Head(buffer))
    /\ UNCHANGED <<state, snapshotSeq, buffer, generation,
                   exchangeVars, streamVars, restVars>>

\* One iteration of the drain loop, and its end.
DrainDelta ==
    /\ state = "Syncing"
    /\ buffer # <<>>
    /\ buffer' = Tail(buffer)
    /\ book' = IF CoveredBySnapshot(Head(buffer))
               THEN book
               ELSE Apply(book, Head(buffer))
    /\ UNCHANGED <<state, snapshotSeq, generation,
                   exchangeVars, streamVars, restVars>>

FinishDrain ==
    /\ state = "Syncing"
    /\ buffer = <<>>
    /\ state' = "Live"
    /\ snapshotSeq' = 0
    /\ UNCHANGED <<book, buffer, generation,
                   exchangeVars, streamVars, restVars>>

\* on_ws_disconnected.
OnWsDisconnected ==
    /\ state # "Syncing"
    /\ ws = "Lost"
    /\ ws' = "Down"
    /\ Reset
    /\ UNCHANGED <<wsNext, exchangeVars, restVars>>

------------------------------------------------------------------------------
(* The environment.                                                        *)

\* The exchange numbers its updates consecutively.
Publish ==
    /\ Len(deltas) < MaxSequence
    /\ \E u \in Updates :
        /\ deltas' = Append(deltas, u)
        /\ truth' = Append(truth, ApplyBatch(truth[Len(truth)], u))
    /\ UNCHANGED <<syncVars, streamVars, restVars>>

\* A new stream delivers what is published from now on.
StreamOpens ==
    /\ ws = "Down"
    /\ generation < MaxGeneration
    /\ ws' = "Open"
    /\ wsNext' = Len(deltas) + 1
    /\ UNCHANGED <<syncVars, exchangeVars, restVars>>

\* The stream dies with whatever it had not yet delivered.
StreamDrops ==
    /\ ws = "Open"
    /\ ws' = "Lost"
    /\ UNCHANGED <<syncVars, exchangeVars, wsNext, restVars>>

\* The driver captures generation() and spawns a REST task.
RequestSnapshot ==
    /\ state = "Buffering"
    /\ generation \notin requested
    /\ Cardinality(requested) + Cardinality(responses) < MaxTasks
    /\ requested' = requested \cup {generation}
    /\ UNCHANGED <<syncVars, exchangeVars, streamVars, responses>>

\* The exchange answers with its book of now, or of RestLag updates ago.
Respond(g) ==
    /\ requested' = requested \ {g}
    /\ \E k \in 0 .. Len(deltas) :
        /\ k + RestLag >= Len(deltas)
        /\ responses' = responses \cup {[generation |-> g, sequence |-> k]}
    /\ UNCHANGED <<syncVars, exchangeVars, streamVars>>

RestFails(g) ==
    /\ requested' = requested \ {g}
    /\ UNCHANGED <<syncVars, exchangeVars, streamVars, responses>>

------------------------------------------------------------------------------
Next == \/ OnWsConnected
        \/ PushDelta
        \/ \E r \in responses : OnSnapshotReceived(r)
        \/ DrainDelta
        \/ FinishDrain
        \/ OnWsDisconnected
        \/ Publish
        \/ StreamOpens
        \/ StreamDrops
        \/ RequestSnapshot
        \/ \E g \in requested : Respond(g) \/ RestFails(g)

Spec == Init /\ [][Next]_vars

\* The runtime keeps polling the tasks, so an enabled handler, drain
\* iteration or delivery is not put off for ever; the driver keeps asking for
\* a snapshot while the feed buffers, and an exchange asked again and again
\* answers at last.  Nothing obliges the exchange to publish, the stream to
\* open or drop, or a REST task to fail.
Fairness ==
    /\ WF_vars(OnWsConnected)
    /\ WF_vars(PushDelta)
    /\ WF_vars(\E r \in responses : OnSnapshotReceived(r))
    /\ WF_vars(DrainDelta)
    /\ WF_vars(FinishDrain)
    /\ WF_vars(OnWsDisconnected)
    /\ WF_vars(RequestSnapshot)
    /\ SF_vars(\E g \in requested : Respond(g))

FairSpec == Spec /\ Fairness

------------------------------------------------------------------------------
(* Properties.                                                             *)

\* Type invariant; the delta buffer never outgrows MAX_BUFFER_CAPACITY.
TypeOK ==
    /\ state \in FeedState
    /\ snapshotSeq \in Nat
    /\ book \in Book
    /\ buffer \in Seq(Update)
    /\ Len(buffer) <= MaxBufferCapacity
    /\ generation \in Nat
    /\ deltas \in Seq(Updates)
    /\ truth \in Seq(LevelMap)
    /\ Len(truth) = Len(deltas) + 1
    /\ ws \in {"Down", "Open", "Lost"}
    /\ wsNext \in Nat \ {0}
    /\ requested \in SUBSET Nat
    /\ responses \in SUBSET Response

\* While the feed is Live the book is, level by level, the book the exchange
\* had at the sequence number the book carries: whatever the race between the
\* stream, the snapshot and a reconnect, snapshot and deltas were put together
\* without a hole (on_snapshot_received, push_delta).
LiveBookIsExact ==
    state = "Live" =>
        /\ book.sequence <= Len(deltas)
        /\ book.levels = truth[book.sequence + 1]

\* While the feed is Live nothing the stream has delivered is missing from
\* the book, wherever the delivery met the synchronizer: before the snapshot,
\* during the buffering or after the drain (push_delta).
NothingDeliveredIsLost ==
    state = "Live" => book.sequence + 1 >= wsNext

\* Data of an earlier connection never reaches a new baseline: the book is
\* new until a snapshot of this generation is accepted, and no delta is kept
\* outside the synchronisation (reset, on_snapshot_received).
BaselineIsClean ==
    /\ state \in {"Pending", "Buffering"} => book = NewBook
    /\ state \in {"Pending", "Live"} => buffer = <<>>

\* A book strategies are trading on takes the exchange's updates one by one:
\* from one Live state to the next its sequence stays or grows by one
\* (push_delta, on_snapshot_received, reset).
LiveBookIsContiguous ==
    [][state = "Live" /\ state' = "Live"
        => book'.sequence \in {book.sequence, book.sequence + 1}]_vars

\* The synchronizer keeps the promise of BookFeed.
Feed == INSTANCE BookFeed WITH
    live  <- (state = "Live"),
    shown <- IF state = "Live" THEN book ELSE NewBook

ImplementsBookFeed == Feed!Spec

\* Once a stream stays open the feed gets back to Live whatever was left over
\* from earlier connections: late snapshots, a full buffer, failed requests,
\* a drain in progress.  (Every behaviour of the model ends in a quiet market,
\* by MaxSequence: in a market that is never quiet the gap guard can fire at
\* every attempt.)
OpenStreamGoesLive == <>[](ws = "Open") => []<>(state = "Live")
==============================================================================
