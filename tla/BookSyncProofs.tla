--------------------------- MODULE BookSyncProofs ----------------------------
(***************************************************************************)
(* Proofs about BookSync, for any levels, updates, buffer capacity and     *)
(* bounds.  Type correctness holds in every environment; the exactness of  *)
(* a live book needs REST responses that do not lag and an exchange whose  *)
(* book is empty at sequence 0.  It is false without either: the run       *)
(* booksync_lagging_rest shows it for the first, and a first snapshot      *)
(* numbered 0, which a new book discards, for the second.                  *)
(***************************************************************************)
EXTENDS BookSync, TLAPS

------------------------------------------------------------------------------
(* The inductive invariant.                                                *)

\* A snapshot on its way is of a sequence that was published.
ResponsesExist == \A r \in responses : r.sequence <= Len(deltas)

TypeInv == TypeOK /\ ResponsesExist

\* The exchange's books are its history replayed.
HistoryInv ==
    /\ truth[1] = InitialLevels
    /\ \A k \in 1 .. Len(deltas) : truth[k + 1] = ApplyBatch(truth[k], deltas[k])

\* The first sequence the buffer holds, or would hold.
Oldest == wsNext - Len(buffer)

\* The buffer is the run of the exchange's updates just before wsNext.
BufferInv ==
    /\ wsNext <= Len(deltas) + 1
    /\ Len(buffer) < wsNext
    /\ \A i \in 1 .. Len(buffer) : buffer[i] = Delta(Oldest + i - 1)

\* No REST task is ahead of the synchronizer, and none is of the current
\* generation before the feed has started to buffer.
GenerationInv ==
    /\ ws = "Down" => state = "Pending"
    /\ \A g \in requested : g <= generation /\ (state = "Pending" => g # generation)
    /\ \A r \in responses :
        r.generation <= generation /\ (state = "Pending" => r.generation # generation)

\* What holds in every environment.
CoreInv == TypeInv /\ HistoryInv /\ BufferInv /\ GenerationInv /\ BaselineIsClean

\* A snapshot that will be accepted reaches up to the buffer.
FreshInv ==
    state = "Buffering" =>
        \A r \in responses : r.generation = generation => r.sequence + 1 >= Oldest

\* A book the exchange has had.
OnHistory(b) ==
    /\ b.sequence <= Len(deltas)
    /\ b.levels = truth[b.sequence + 1]

\* The book is the exchange's, and reaches up to what is left to drain.
BookInv ==
    state \in {"Syncing", "Live"} =>
        /\ OnHistory(book)
        /\ book.sequence + 1 >= Oldest
        /\ snapshotSeq <= book.sequence

IInv == CoreInv /\ FreshInv /\ BookInv

------------------------------------------------------------------------------
(* Lemmas about the book.                                                  *)

\* Applying an update to a book gives a book (apply).
LEMMA ApplyType ==
    ASSUME NEW b \in Book, NEW n \in Nat, NEW c, IsChange(c)
    PROVE  Apply(b, [sequence |-> n, levels |-> c]) \in Book
<1>1. PICK S \in SUBSET Levels : c \in [S -> Nat]  BY DEF IsChange
<1>2. ApplyBatch(b.levels, c) \in LevelMap
    BY <1>1 DEF ApplyBatch, LevelMap, Book
<1>. QED BY <1>2 DEF Apply, Book

\* Replaying one more change on an exchange book gives an exchange book.
LEMMA ApplyBatchType ==
    ASSUME NEW m \in LevelMap, NEW c, IsChange(c)
    PROVE  ApplyBatch(m, c) \in LevelMap
BY DEF ApplyBatch, LevelMap, IsChange

\* A full book is a change of all levels.
LEMMA LevelMapIsChange == ASSUME NEW m \in LevelMap PROVE IsChange(m)
BY DEF LevelMap, IsChange

LEMMA NewBookType == NewBook \in Book
BY DEF NewBook, Book, NoLevels, LevelMap

------------------------------------------------------------------------------
(* Type correctness.                                                       *)

LEMMA InitTypeInv == Init => TypeInv
BY ConstantsAssumption, NewBookType
DEF Init, TypeInv, TypeOK, ResponsesExist, FeedState

LEMMA DeltaType ==
    ASSUME TypeInv, NEW k \in 1 .. Len(deltas)
    PROVE  Delta(k) \in Update /\ IsChange(Delta(k).levels)
BY ConstantsAssumption DEF TypeInv, TypeOK, Delta, Update

LEMMA SnapshotType ==
    ASSUME TypeInv, NEW k \in 0 .. Len(deltas)
    PROVE  Apply(book, Snapshot(k)) \in Book
<1>1. truth[k + 1] \in LevelMap  BY DEF TypeInv, TypeOK
<1>. QED BY <1>1, ApplyType, LevelMapIsChange DEF Snapshot, TypeInv, TypeOK

LEMMA ResetType ==
    ASSUME TypeInv, Reset
    PROVE  /\ state' \in FeedState
           /\ snapshotSeq' \in Nat
           /\ book' \in Book
           /\ buffer' \in Seq(Update)
           /\ Len(buffer') <= MaxBufferCapacity
           /\ generation' \in Nat
BY ConstantsAssumption, NewBookType DEF Reset, TypeInv, TypeOK, FeedState

LEMMA NextTypeInv == TypeInv /\ [Next]_vars => TypeInv'
<1>. SUFFICES ASSUME TypeInv, [Next]_vars PROVE TypeInv'
    OBVIOUS
<1>. USE DEF TypeInv, TypeOK, ResponsesExist
<1>1. CASE OnWsConnected
    BY <1>1 DEF OnWsConnected, FeedState, exchangeVars, streamVars, restVars
<1>2. CASE PushDelta
    <2>. /\ wsNext \in 1 .. Len(deltas)
         /\ wsNext' = wsNext + 1
         /\ UNCHANGED <<ws, deltas, truth, requested, responses>>
        BY <1>2 DEF PushDelta, exchangeVars, restVars
    <2>1. CASE DiscardDelta
        BY <2>1 DEF DiscardDelta, syncVars
    <2>2. CASE BufferDelta(Delta(wsNext))
        <3>1. CASE Len(buffer) >= MaxBufferCapacity
            BY <2>2, <3>1, ResetType DEF BufferDelta, BufferIsFull
        <3>2. CASE ~(Len(buffer) >= MaxBufferCapacity)
            <4>1. Append(buffer, Delta(wsNext)) \in Seq(Update)
                BY DeltaType
            <4>2. Len(Append(buffer, Delta(wsNext))) = Len(buffer) + 1
                OBVIOUS
            <4>3. /\ buffer' = Append(buffer, Delta(wsNext))
                  /\ UNCHANGED <<state, snapshotSeq, book, generation>>
                BY <2>2, <3>2 DEF BufferDelta, BufferIsFull
            <4>4. Len(buffer') <= MaxBufferCapacity
                BY <3>2, <4>2, <4>3, ConstantsAssumption
            <4>. QED BY <4>1, <4>3, <4>4
        <3>. QED BY <3>1, <3>2
    <2>3. CASE ApplyDelta(Delta(wsNext))
        <3>1. book' \in Book
            BY <2>3, DeltaType, ApplyType DEF ApplyDelta, Delta, Update
        <3>. QED BY <2>3, <3>1 DEF ApplyDelta
    <2>. QED BY <1>2, <2>1, <2>2, <2>3 DEF PushDelta
<1>3. ASSUME NEW r \in responses, OnSnapshotReceived(r) PROVE TypeInv'
    <2>. /\ r.sequence \in 0 .. Len(deltas)
         /\ responses' \subseteq responses
         /\ UNCHANGED <<requested, deltas, truth, ws, wsNext>>
        BY <1>3 DEF OnSnapshotReceived, exchangeVars, streamVars, Response
    <2>1. CASE SnapshotDiscarded(r)
        BY <2>1 DEF SnapshotDiscarded, syncVars
    <2>2. CASE SnapshotTooOld(r)
        BY <2>2, ResetType DEF SnapshotTooOld
    <2>3. CASE SnapshotApplied(r)
        BY <2>3, SnapshotType DEF SnapshotApplied, FeedState
    <2>. QED BY <1>3, <2>1, <2>2, <2>3 DEF OnSnapshotReceived
<1>4. CASE DrainDelta
    <2>1. /\ Head(buffer) \in Update
          /\ Tail(buffer) \in Seq(Update)
          /\ Len(Tail(buffer)) = Len(buffer) - 1
        BY <1>4 DEF DrainDelta
    <2>2. Apply(book, Head(buffer)) \in Book
        BY <2>1, ApplyType, ConstantsAssumption DEF Update
    <2>. QED BY <1>4, <2>1, <2>2, ConstantsAssumption
             DEF DrainDelta, exchangeVars, streamVars, restVars
<1>5. CASE FinishDrain
    BY <1>5 DEF FinishDrain, FeedState, exchangeVars, streamVars, restVars
<1>6. CASE OnWsDisconnected
    BY <1>6, ResetType DEF OnWsDisconnected, exchangeVars, restVars
<1>7. CASE Publish
    <2>1. PICK u \in Updates :
              /\ deltas' = Append(deltas, u)
              /\ truth' = Append(truth, ApplyBatch(truth[Len(truth)], u))
        BY <1>7 DEF Publish
    <2>2. ApplyBatch(truth[Len(truth)], u) \in LevelMap
        BY ApplyBatchType, ConstantsAssumption
    <2>3. /\ deltas' \in Seq(Updates) /\ Len(deltas') = Len(deltas) + 1
          /\ truth' \in Seq(LevelMap) /\ Len(truth') = Len(truth) + 1
        BY <2>1, <2>2
    <2>4. \A r \in responses : r.sequence \in Nat /\ r.sequence <= Len(deltas)
        BY DEF Response
    <2>. QED BY <1>7, <2>3, <2>4 DEF Publish, syncVars, streamVars, restVars
<1>8. CASE StreamOpens
    BY <1>8 DEF StreamOpens, syncVars, exchangeVars, restVars
<1>9. CASE StreamDrops
    BY <1>9 DEF StreamDrops, syncVars, exchangeVars, restVars
<1>10. CASE RequestSnapshot
    BY <1>10 DEF RequestSnapshot, syncVars, exchangeVars, streamVars
<1>11. ASSUME NEW g \in requested, Respond(g) PROVE TypeInv'
    BY <1>11 DEF Respond, syncVars, exchangeVars, streamVars, Response
<1>12. ASSUME NEW g \in requested, RestFails(g) PROVE TypeInv'
    BY <1>12 DEF RestFails, syncVars, exchangeVars, streamVars
<1>13. CASE UNCHANGED vars
    BY <1>13 DEF vars, syncVars, exchangeVars, streamVars, restVars
<1>. QED
    BY <1>1, <1>2, <1>3, <1>4, <1>5, <1>6, <1>7, <1>8, <1>9, <1>10, <1>11,
       <1>12, <1>13 DEF Next

\* Every variable keeps its type and the delta buffer never outgrows
\* MAX_BUFFER_CAPACITY (push_delta), in every environment.
THEOREM TypeCorrect == Spec => []TypeOK
<1>1. TypeInv => TypeOK  BY DEF TypeInv
<1>. QED BY InitTypeInv, NextTypeInv, <1>1, PTL DEF Spec

------------------------------------------------------------------------------
(* What holds in every environment.                                        *)

LEMMA InitCoreInv == Init => CoreInv
BY InitTypeInv
DEF Init, CoreInv, HistoryInv, BufferInv, GenerationInv, BaselineIsClean

\* A history that grows keeps the numbers it has given.
LEMMA DeltasGrow ==
    ASSUME TypeInv, NEW u \in Updates, deltas' = Append(deltas, u)
    PROVE  \A k \in 1 .. Len(deltas) : Delta(k)' = Delta(k)
BY DEF TypeInv, TypeOK, Delta

LEMMA NextHistoryInv == CoreInv /\ [Next]_vars => HistoryInv'
<1>. SUFFICES ASSUME CoreInv, [Next]_vars PROVE HistoryInv'
    OBVIOUS
<1>. USE DEF CoreInv, TypeInv, TypeOK, HistoryInv
<1>1. CASE Publish
    <2>1. PICK u \in Updates :
              /\ deltas' = Append(deltas, u)
              /\ truth' = Append(truth, ApplyBatch(truth[Len(truth)], u))
        BY <1>1 DEF Publish
    <2>2. \A k \in 1 .. Len(truth) : truth'[k] = truth[k]
        BY <2>1
    <2>3. \A k \in 1 .. Len(deltas) : deltas'[k] = deltas[k]
        BY <2>1
    <2>4. /\ Len(deltas') = Len(deltas) + 1
          /\ deltas'[Len(deltas) + 1] = u
          /\ truth'[Len(truth) + 1] = ApplyBatch(truth[Len(truth)], u)
        BY <2>1
    <2>5. ASSUME NEW k \in 1 .. Len(deltas')
          PROVE  truth'[k + 1] = ApplyBatch(truth'[k], deltas'[k])
        <3>1. CASE k \in 1 .. Len(deltas)
            BY <3>1, <2>2, <2>3
        <3>2. CASE k = Len(deltas) + 1
            BY <3>2, <2>2, <2>4
        <3>. QED BY <2>4, <3>1, <3>2
    <2>6. truth'[1] = InitialLevels
        BY <2>2
    <2>. QED BY <2>5, <2>6 DEF HistoryInv
<1>2. CASE UNCHANGED exchangeVars
    BY <1>2 DEF exchangeVars
<1>3. Publish \/ UNCHANGED exchangeVars
    BY DEF Next, vars, OnWsConnected, PushDelta, OnSnapshotReceived, DrainDelta,
           FinishDrain, OnWsDisconnected, StreamOpens, StreamDrops,
           RequestSnapshot, Respond, RestFails
<1>. QED BY <1>1, <1>2, <1>3

LEMMA NextBufferInv == CoreInv /\ [Next]_vars => BufferInv'
<1>. SUFFICES ASSUME CoreInv, [Next]_vars PROVE BufferInv'
    OBVIOUS
<1>. USE DEF CoreInv, TypeInv, TypeOK, BufferInv, Oldest
<1>1. CASE OnWsConnected
    BY <1>1 DEF OnWsConnected, exchangeVars, streamVars, Delta
<1>2. CASE PushDelta
    <2>. /\ wsNext <= Len(deltas)
         /\ wsNext' = wsNext + 1
         /\ deltas' = deltas
        BY <1>2 DEF PushDelta, exchangeVars
    <2>1. CASE buffer' = <<>>
        BY <2>1
    <2>2. CASE state = "Buffering" /\ buffer' = Append(buffer, Delta(wsNext))
        <3>1. Len(buffer') = Len(buffer) + 1
            BY <2>2
        <3>2. ASSUME NEW i \in 1 .. Len(buffer')
              PROVE  buffer'[i] = Delta(wsNext - Len(buffer) + i - 1)
            <4>1. CASE i \in 1 .. Len(buffer)
                BY <2>2, <4>1
            <4>2. CASE i = Len(buffer) + 1
                BY <2>2, <4>2
            <4>. QED BY <3>1, <4>1, <4>2
        <3>3. wsNext' - Len(buffer') = wsNext - Len(buffer)
            BY <3>1
        <3>. QED BY <3>1, <3>2, <3>3 DEF Delta
    <2>3. \/ buffer' = <<>>
          \/ state = "Buffering" /\ buffer' = Append(buffer, Delta(wsNext))
        BY <1>2 DEF PushDelta, DiscardDelta, BufferDelta, ApplyDelta, Reset,
                    syncVars, BaselineIsClean
    <2>. QED BY <2>1, <2>2, <2>3
<1>3. ASSUME NEW r \in responses, OnSnapshotReceived(r) PROVE BufferInv'
    <2>1. UNCHANGED <<wsNext, deltas>> /\ (buffer' = buffer \/ buffer' = <<>>)
        BY <1>3 DEF OnSnapshotReceived, SnapshotDiscarded, SnapshotTooOld,
                    SnapshotApplied, Reset, syncVars, exchangeVars, streamVars
    <2>2. CASE buffer' = buffer
        BY <2>1, <2>2 DEF Delta
    <2>3. CASE buffer' = <<>>
        BY <2>1, <2>3
    <2>. QED BY <2>1, <2>2, <2>3
<1>4. CASE DrainDelta
    <2>. /\ buffer # <<>>
         /\ buffer' = Tail(buffer)
         /\ UNCHANGED <<wsNext, deltas>>
        BY <1>4 DEF DrainDelta, exchangeVars, streamVars
    <2>1. Len(buffer') = Len(buffer) - 1
        OBVIOUS
    <2>2. ASSUME NEW i \in 1 .. Len(buffer')
          PROVE  buffer'[i] = Delta(wsNext - Len(buffer') + i - 1)
        <3>1. buffer'[i] = buffer[i + 1] /\ i + 1 \in 1 .. Len(buffer)
            BY <2>1
        <3>2. wsNext - Len(buffer) + (i + 1) - 1 = wsNext - Len(buffer') + i - 1
            BY <2>1
        <3>. QED BY <3>1, <3>2
    <2>. QED BY <2>1, <2>2 DEF Delta
<1>5. CASE FinishDrain
    BY <1>5 DEF FinishDrain, exchangeVars, streamVars, Delta
<1>6. CASE OnWsDisconnected
    BY <1>6 DEF OnWsDisconnected, Reset, exchangeVars
<1>7. CASE Publish
    <2>1. PICK u \in Updates : deltas' = Append(deltas, u)
        BY <1>7 DEF Publish
    <2>2. UNCHANGED <<buffer, wsNext>>
        BY <1>7 DEF Publish, syncVars, streamVars
    <2>3. Len(deltas') = Len(deltas) + 1
        BY <2>1
    <2>4. \A i \in 1 .. Len(buffer) : Oldest + i - 1 \in 1 .. Len(deltas)
        OBVIOUS
    <2>. QED BY <2>1, <2>2, <2>3, <2>4, DeltasGrow
<1>8. CASE StreamOpens
    <2>1. buffer = <<>>
        BY <1>8 DEF StreamOpens, GenerationInv, BaselineIsClean
    <2>. QED BY <1>8, <2>1 DEF StreamOpens, syncVars, exchangeVars
<1>9. CASE StreamDrops
    BY <1>9 DEF StreamDrops, syncVars, exchangeVars, Delta
<1>10. CASE RequestSnapshot
    BY <1>10 DEF RequestSnapshot, syncVars, exchangeVars, streamVars, Delta
<1>11. ASSUME NEW g \in requested, Respond(g) \/ RestFails(g) PROVE BufferInv'
    BY <1>11 DEF Respond, RestFails, syncVars, exchangeVars, streamVars, Delta
<1>12. CASE UNCHANGED vars
    BY <1>12 DEF vars, syncVars, exchangeVars, streamVars, Delta
<1>. QED
    BY <1>1, <1>2, <1>3, <1>4, <1>5, <1>6, <1>7, <1>8, <1>9, <1>10, <1>11,
       <1>12 DEF Next

LEMMA NextGenerationInv == CoreInv /\ [Next]_vars => GenerationInv'
<1>. SUFFICES ASSUME CoreInv, [Next]_vars PROVE GenerationInv'
    OBVIOUS
<1>. USE DEF CoreInv, TypeInv, TypeOK, GenerationInv, Response
<1>1. CASE OnWsConnected
    BY <1>1 DEF OnWsConnected, streamVars, restVars
<1>2. CASE PushDelta
    BY <1>2 DEF PushDelta, DiscardDelta, BufferDelta, ApplyDelta, Reset,
                syncVars, restVars
<1>3. ASSUME NEW r \in responses, OnSnapshotReceived(r) PROVE GenerationInv'
    BY <1>3 DEF OnSnapshotReceived, SnapshotDiscarded, SnapshotTooOld,
                SnapshotApplied, Reset, syncVars, streamVars
<1>4. CASE DrainDelta
    BY <1>4 DEF DrainDelta, streamVars, restVars
<1>5. CASE FinishDrain
    BY <1>5 DEF FinishDrain, streamVars, restVars
<1>6. CASE OnWsDisconnected
    BY <1>6 DEF OnWsDisconnected, Reset, restVars
<1>7. CASE Publish
    BY <1>7 DEF Publish, syncVars, streamVars, restVars
<1>8. CASE StreamOpens
    BY <1>8 DEF StreamOpens, syncVars, restVars
<1>9. CASE StreamDrops
    BY <1>9 DEF StreamDrops, syncVars, restVars
<1>10. CASE RequestSnapshot
    BY <1>10 DEF RequestSnapshot, syncVars, streamVars
<1>11. ASSUME NEW g \in requested, Respond(g) \/ RestFails(g) PROVE GenerationInv'
    <2>1. /\ UNCHANGED <<state, generation, ws>>
          /\ requested' \subseteq requested
          /\ \A r \in responses' : r \in responses \/ r.generation = g
        BY <1>11 DEF Respond, RestFails, syncVars, streamVars
    <2>. QED BY <2>1
<1>12. CASE UNCHANGED vars
    BY <1>12 DEF vars, syncVars, streamVars, restVars
<1>. QED
    BY <1>1, <1>2, <1>3, <1>4, <1>5, <1>6, <1>7, <1>8, <1>9, <1>10, <1>11,
       <1>12 DEF Next

LEMMA NextBaselineIsClean == CoreInv /\ [Next]_vars => BaselineIsClean'
<1>. SUFFICES ASSUME CoreInv, [Next]_vars PROVE BaselineIsClean'
    OBVIOUS
<1>. USE DEF CoreInv, BaselineIsClean
<1>1. CASE PushDelta
    BY <1>1 DEF PushDelta, DiscardDelta, BufferDelta, ApplyDelta, Reset, syncVars
<1>2. ASSUME NEW r \in responses, OnSnapshotReceived(r) PROVE BaselineIsClean'
    BY <1>2 DEF OnSnapshotReceived, SnapshotDiscarded, SnapshotTooOld,
                SnapshotApplied, Reset, syncVars
<1>3. CASE OnWsConnected \/ DrainDelta \/ FinishDrain \/ OnWsDisconnected
    BY <1>3 DEF OnWsConnected, DrainDelta, FinishDrain, OnWsDisconnected, Reset
<1>4. CASE UNCHANGED syncVars
    BY <1>4 DEF syncVars
<1>. QED
    BY <1>1, <1>2, <1>3, <1>4 DEF Next, vars, Publish, StreamOpens, StreamDrops,
                                  RequestSnapshot, Respond, RestFails

LEMMA NextCoreInv == CoreInv /\ [Next]_vars => CoreInv'
BY NextTypeInv, NextHistoryInv, NextBufferInv, NextGenerationInv,
   NextBaselineIsClean DEF CoreInv

\* Whatever the exchange, the stream and the REST tasks do, data of an earlier
\* connection never reaches a new baseline (reset, on_snapshot_received).
THEOREM BaselineAlwaysClean == Spec => []BaselineIsClean
<1>1. CoreInv => BaselineIsClean  BY DEF CoreInv
<1>. QED BY InitCoreInv, NextCoreInv, <1>1, PTL DEF Spec

------------------------------------------------------------------------------
(* What needs a REST endpoint that does not lag and an empty first book.   *)

\* On a new book a snapshot is the exchange's book of its sequence; at
\* sequence 0 only because both are empty (apply, on_snapshot_received).
LEMMA SnapshotIsBaseline ==
    ASSUME InitialLevels = NoLevels, CoreInv, state = "Buffering",
           NEW k \in 0 .. Len(deltas)
    PROVE  /\ Apply(book, Snapshot(k)).sequence = k
           /\ OnHistory(Apply(book, Snapshot(k)))
<1>1. book = NewBook
    BY DEF CoreInv, BaselineIsClean
<1>2. truth[k + 1] \in LevelMap
    BY DEF CoreInv, TypeInv, TypeOK
<1>3. CASE k = 0
    BY <1>1, <1>3
    DEF CoreInv, HistoryInv, Apply, Snapshot, NewBook, OnHistory
<1>4. CASE k > 0
    <2>1. ApplyBatch(NoLevels, truth[k + 1]) = truth[k + 1]
        BY <1>2 DEF ApplyBatch, LevelMap, NoLevels
    <2>. QED BY <1>1, <1>4, <2>1 DEF Apply, Snapshot, NewBook, OnHistory
<1>. QED BY <1>3, <1>4

\* A book on the exchange's history stays on it when it takes an update that
\* is at most one ahead, and reaches that update (apply).
LEMMA DeltaAdvances ==
    ASSUME CoreInv, OnHistory(book),
           NEW n \in 1 .. Len(deltas), n <= book.sequence + 1
    PROVE  LET b == Apply(book, Delta(n))
           IN  /\ OnHistory(b)
               /\ b.sequence \in {book.sequence, book.sequence + 1}
               /\ b.sequence >= n
<1>1. book.sequence \in Nat
    BY DEF CoreInv, TypeInv, TypeOK, Book
<1>2. CASE n <= book.sequence
    BY <1>1, <1>2 DEF Apply, Delta
<1>3. CASE n = book.sequence + 1
    <2>1. Apply(book, Delta(n)) =
              [sequence |-> n, levels |-> ApplyBatch(truth[n], deltas[n])]
        BY <1>1, <1>3 DEF Apply, Delta, OnHistory
    <2>2. truth[n + 1] = ApplyBatch(truth[n], deltas[n])
        BY DEF CoreInv, HistoryInv
    <2>. QED BY <1>1, <1>3, <2>1, <2>2 DEF OnHistory
<1>. QED BY <1>1, <1>2, <1>3

LEMMA InitIInv == Init => IInv
BY InitCoreInv DEF IInv, FreshInv, BookInv, Init

LEMMA NextFreshInv ==
    ASSUME RestLag = 0, CoreInv, FreshInv, [Next]_vars
    PROVE  FreshInv'
<1>. USE DEF CoreInv, TypeInv, TypeOK, FreshInv, Oldest, Response
<1>1. CASE OnWsConnected
    BY <1>1 DEF OnWsConnected, GenerationInv, restVars
<1>2. CASE PushDelta
    <2>1. UNCHANGED responses /\ wsNext' = wsNext + 1
        BY <1>2 DEF PushDelta, restVars
    <2>2. \/ state' # "Buffering"
          \/ /\ UNCHANGED <<state, generation>>
             /\ state = "Buffering"
             /\ buffer' = Append(buffer, Delta(wsNext))
        BY <1>2 DEF PushDelta, DiscardDelta, BufferDelta, ApplyDelta, Reset,
                    syncVars
    <2>3. CASE state' # "Buffering"
        BY <2>3
    <2>4. CASE /\ UNCHANGED <<state, generation>>
               /\ state = "Buffering"
               /\ buffer' = Append(buffer, Delta(wsNext))
        <3>1. Len(buffer') = Len(buffer) + 1
            BY <2>4
        <3>2. wsNext' - Len(buffer') = wsNext - Len(buffer)
            BY <2>1, <3>1
        <3>. QED BY <2>1, <2>4, <3>2
    <2>. QED BY <2>2, <2>3, <2>4
<1>3. ASSUME NEW r \in responses, OnSnapshotReceived(r) PROVE FreshInv'
    <2>1. /\ responses' \subseteq responses /\ UNCHANGED wsNext
          /\ \/ state' # "Buffering"
             \/ UNCHANGED <<state, generation, buffer>>
        BY <1>3 DEF OnSnapshotReceived, SnapshotDiscarded, SnapshotTooOld,
                    SnapshotApplied, Reset, syncVars, streamVars
    <2>. QED BY <2>1
<1>4. CASE DrainDelta \/ FinishDrain \/ OnWsDisconnected \/ StreamOpens
    BY <1>4 DEF DrainDelta, FinishDrain, OnWsDisconnected, StreamOpens, Reset,
                GenerationInv, syncVars
<1>5. ASSUME NEW g \in requested, Respond(g) PROVE FreshInv'
    <2>1. UNCHANGED <<state, generation, buffer, wsNext>>
        BY <1>5 DEF Respond, syncVars, streamVars
    <2>2. \A r \in responses' : r \in responses \/ r.sequence = Len(deltas)
        BY <1>5 DEF Respond
    <2>3. Len(deltas) + 1 >= Oldest
        BY DEF BufferInv
    <2>. QED BY <2>1, <2>2, <2>3
<1>6. CASE UNCHANGED <<state, generation, buffer, wsNext, responses>>
    BY <1>6
<1>. QED
    BY <1>1, <1>2, <1>3, <1>4, <1>5, <1>6
    DEF Next, vars, Publish, StreamDrops, RequestSnapshot, RestFails,
        syncVars, streamVars, restVars

LEMMA NextBookInv ==
    ASSUME RestLag = 0, InitialLevels = NoLevels, IInv, [Next]_vars
    PROVE  BookInv'
<1>. USE DEF IInv, CoreInv, TypeInv, TypeOK, BookInv
<1>0. \A b : UNCHANGED exchangeVars => (OnHistory(b) <=> OnHistory(b)')
    BY DEF exchangeVars, OnHistory
<1>1. CASE PushDelta
    <2>. /\ wsNext \in 1 .. Len(deltas)
         /\ wsNext' = wsNext + 1
         /\ UNCHANGED <<deltas, truth>>
        BY <1>1 DEF PushDelta, exchangeVars
    <2>1. CASE state' \notin {"Syncing", "Live"}
        BY <2>1
    <2>2. CASE ApplyDelta(Delta(wsNext))
        <3>1. buffer = <<>> /\ Oldest = wsNext
            BY <2>2 DEF ApplyDelta, BaselineIsClean, Oldest
        <3>2. /\ OnHistory(book)
              /\ wsNext <= book.sequence + 1
            BY <2>2, <3>1 DEF ApplyDelta
        <3>3. /\ OnHistory(book')
              /\ book'.sequence >= wsNext
              /\ book'.sequence >= book.sequence
            BY <2>2, <3>2, DeltaAdvances DEF ApplyDelta, Book
        <3>4. Oldest' = wsNext + 1 /\ UNCHANGED <<state, snapshotSeq>>
            BY <2>2, <3>1 DEF ApplyDelta, Oldest
        <3>5. snapshotSeq <= book.sequence
            BY <2>2 DEF ApplyDelta
        <3>6. book'.sequence \in Nat /\ book.sequence \in Nat
            BY NextTypeInv DEF Book
        <3>. QED BY <3>3, <3>4, <3>5, <3>6 DEF OnHistory
    <2>. QED BY <1>1, <2>1, <2>2 DEF PushDelta, DiscardDelta, BufferDelta, Reset,
                                     syncVars
<1>2. ASSUME NEW r \in responses, OnSnapshotReceived(r) PROVE BookInv'
    <2>. /\ r.sequence \in 0 .. Len(deltas)
         /\ UNCHANGED <<deltas, truth, wsNext>>
        BY <1>2 DEF OnSnapshotReceived, exchangeVars, streamVars,
                    ResponsesExist, Response
    <2>1. CASE SnapshotDiscarded(r)
        BY <2>1 DEF SnapshotDiscarded, syncVars, OnHistory, Oldest
    <2>2. CASE SnapshotTooOld(r)
        BY <2>2 DEF SnapshotTooOld, Reset
    <2>3. CASE SnapshotApplied(r)
        <3>1. /\ book'.sequence = r.sequence
              /\ OnHistory(book')
            BY <2>3, SnapshotIsBaseline DEF SnapshotApplied
        <3>2. r.sequence + 1 >= Oldest
            BY <2>3 DEF SnapshotApplied, FreshInv, IsStale
        <3>. QED BY <2>3, <3>1, <3>2 DEF SnapshotApplied, OnHistory, Oldest
    <2>. QED BY <1>2, <2>1, <2>2, <2>3 DEF OnSnapshotReceived
<1>3. CASE DrainDelta
    <2>. /\ state = "Syncing" /\ buffer # <<>>
         /\ buffer' = Tail(buffer)
         /\ UNCHANGED <<state, snapshotSeq, deltas, truth, wsNext>>
        BY <1>3 DEF DrainDelta, exchangeVars, streamVars
    <2>1. Len(buffer') = Len(buffer) - 1
        OBVIOUS
    <2>2. /\ Oldest \in 1 .. Len(deltas)
          /\ Head(buffer) = Delta(Oldest)
          /\ Oldest <= book.sequence + 1
        BY DEF BufferInv, Oldest
    <2>3. /\ OnHistory(book')
          /\ book'.sequence >= Oldest
          /\ book'.sequence >= snapshotSeq
        <3>1. CASE CoveredBySnapshot(Head(buffer))
            BY <1>3, <2>2, <3>1 DEF DrainDelta, CoveredBySnapshot, Delta, Book,
                                    Oldest
        <3>2. CASE ~CoveredBySnapshot(Head(buffer))
            <4>1. book' = Apply(book, Delta(Oldest))
                BY <1>3, <2>2, <3>2 DEF DrainDelta
            <4>2. /\ OnHistory(book')
                  /\ book'.sequence \in {book.sequence, book.sequence + 1}
                  /\ book'.sequence >= Oldest
                BY <2>2, <4>1, DeltaAdvances
            <4>. QED BY <4>2 DEF Book
        <3>. QED BY <3>1, <3>2
    <2>4. Oldest' = Oldest + 1
        BY <2>1 DEF Oldest
    <2>. QED BY <2>3, <2>4, NextTypeInv DEF OnHistory, Oldest, Book
<1>4. CASE FinishDrain
    BY <1>4 DEF FinishDrain, exchangeVars, streamVars, OnHistory, Oldest, Book
<1>5. CASE OnWsConnected \/ OnWsDisconnected
    BY <1>5 DEF OnWsConnected, OnWsDisconnected, Reset
<1>6. CASE Publish
    <2>1. PICK u \in Updates :
              /\ deltas' = Append(deltas, u)
              /\ truth' = Append(truth, ApplyBatch(truth[Len(truth)], u))
        BY <1>6 DEF Publish
    <2>2. /\ Len(deltas') = Len(deltas) + 1
          /\ \A k \in 1 .. Len(truth) : truth'[k] = truth[k]
        BY <2>1
    <2>3. UNCHANGED <<state, snapshotSeq, book, buffer, wsNext>>
        BY <1>6 DEF Publish, syncVars, streamVars
    <2>. QED BY <2>2, <2>3 DEF OnHistory, Oldest, Book
<1>7. CASE StreamOpens
    BY <1>7 DEF StreamOpens, syncVars, GenerationInv
<1>8. CASE UNCHANGED <<syncVars, exchangeVars, wsNext>>
    BY <1>8 DEF syncVars, exchangeVars, OnHistory, Oldest
<1>. QED
    BY <1>1, <1>2, <1>3, <1>4, <1>5, <1>6, <1>7, <1>8
    DEF Next, vars, StreamDrops, RequestSnapshot, Respond, RestFails, streamVars

LEMMA NextIInv ==
    ASSUME RestLag = 0, InitialLevels = NoLevels
    PROVE  IInv /\ [Next]_vars => IInv'
BY NextCoreInv, NextFreshInv, NextBookInv DEF IInv

\* A live book is the exchange's book of its sequence number, when no REST
\* response lags behind and the exchange's first book is empty
\* (on_snapshot_received, push_delta).
THEOREM LiveBookAlwaysExact ==
    ASSUME RestLag = 0, InitialLevels = NoLevels
    PROVE  Spec => []LiveBookIsExact
<1>1. IInv => LiveBookIsExact
    BY DEF IInv, BookInv, OnHistory, LiveBookIsExact
<1>. QED BY InitIInv, NextIInv, <1>1, PTL DEF Spec

\* Under the same assumptions a live book has everything the stream has
\* delivered (push_delta).
THEOREM NothingDeliveredEverLost ==
    ASSUME RestLag = 0, InitialLevels = NoLevels
    PROVE  Spec => []NothingDeliveredIsLost
<1>1. IInv => NothingDeliveredIsLost
    BY DEF IInv, CoreInv, TypeInv, TypeOK, BookInv, BaselineIsClean, Oldest,
           NothingDeliveredIsLost
<1>. QED BY InitIInv, NextIInv, <1>1, PTL DEF Spec

\* A delta taken by a live book moves it by at most one sequence number.
LEMMA LiveDelta ==
    ASSUME IInv, PushDelta, state = "Live"
    PROVE  /\ state' = "Live"
           /\ book'.sequence \in {book.sequence, book.sequence + 1}
<1>. USE DEF IInv, CoreInv, TypeInv, TypeOK
<1>1. /\ wsNext \in 1 .. Len(deltas)
      /\ ApplyDelta(Delta(wsNext))
    BY DEF PushDelta, DiscardDelta, BufferDelta
<1>2. OnHistory(book) /\ wsNext <= book.sequence + 1
    BY DEF BookInv, BaselineIsClean, Oldest
<1>. QED BY <1>1, <1>2, DeltaAdvances DEF ApplyDelta

\* Nothing else changes the book of a feed that stays live.
LEMMA LiveSteps ==
    ASSUME [Next]_vars, state = "Live", state' = "Live"
    PROVE  PushDelta \/ book' = book
BY DEF Next, vars, syncVars, OnWsConnected, OnSnapshotReceived,
       SnapshotDiscarded, SnapshotTooOld, SnapshotApplied, Reset, DrainDelta,
       FinishDrain, OnWsDisconnected, Publish, StreamOpens, StreamDrops,
       RequestSnapshot, Respond, RestFails

\* Under the same assumptions a book strategies are trading on takes the
\* exchange's updates one by one (push_delta).
THEOREM LiveBookAlwaysContiguous ==
    ASSUME RestLag = 0, InitialLevels = NoLevels
    PROVE  Spec => LiveBookIsContiguous
<1>1. IInv /\ [Next]_vars
      => [state = "Live" /\ state' = "Live"
            => book'.sequence \in {book.sequence, book.sequence + 1}]_vars
    BY LiveDelta, LiveSteps
<1>. QED BY InitIInv, NextIInv, <1>1, PTL DEF Spec, LiveBookIsContiguous

------------------------------------------------------------------------------
(* The refinement.                                                         *)

LEMMA FeedInit == Init => Feed!Init
BY DEF Init, Feed!Init, Feed!NewBook, Feed!NoLevels, NewBook, NoLevels

\* A live book is an entry of the abstract history.
LiveBookIsEntry ==
    state = "Live" => /\ book = Feed!BookAt(book.sequence)
                      /\ book.sequence \in 0 .. Len(truth) - 1

LEMMA LiveBookAt == IInv => LiveBookIsEntry
BY DEF IInv, CoreInv, TypeInv, TypeOK, BookInv, OnHistory, Book, Feed!BookAt,
       LiveBookIsEntry

LEMMA FeedNext ==
    ASSUME IInv, IInv', [Next]_vars
    PROVE  [Feed!Next]_(Feed!vars)
<1>. USE DEF Feed!vars
<1>0. LiveBookIsEntry /\ LiveBookIsEntry'
    <2>1. LiveBookIsEntry
        BY LiveBookAt
    <2>2. IInv' => LiveBookIsEntry'
        BY LiveBookAt, PTL
    <2>. QED BY <2>1, <2>2
<1>1. CASE Publish
    <2>1. PICK u \in Updates : truth' = Append(truth, ApplyBatch(truth[Len(truth)], u))
        BY <1>1 DEF Publish
    <2>2. UNCHANGED <<state, book>>
        BY <1>1 DEF Publish, syncVars
    <2>3. Feed!Publish
        BY <2>1, <2>2 DEF Feed!Publish, Feed!ApplyBatch, ApplyBatch, Feed!NewBook,
                          NewBook, Feed!NoLevels, NoLevels
    <2>. QED BY <2>3 DEF Feed!Next
<1>2. CASE ~Publish
    <2>1. UNCHANGED truth
        BY <1>2 DEF Next, vars, exchangeVars, OnWsConnected, PushDelta,
                    OnSnapshotReceived, DrainDelta, FinishDrain, OnWsDisconnected,
                    StreamOpens, StreamDrops, RequestSnapshot, Respond, RestFails
    <2>2. CASE state # "Live" /\ state' # "Live"
        BY <2>1, <2>2 DEF NewBook, NoLevels
    <2>3. CASE state # "Live" /\ state' = "Live"
        <3>1. /\ book' = Feed!BookAt(book'.sequence)
              /\ book'.sequence \in 0 .. Len(truth) - 1
            BY <1>0, <2>1, <2>3 DEF LiveBookIsEntry, Feed!BookAt
        <3>2. Feed!GoLive
            BY <2>1, <2>3, <3>1 DEF Feed!GoLive
        <3>. QED BY <3>2 DEF Feed!Next
    <2>4. CASE state = "Live" /\ state' # "Live"
        BY <2>1, <2>4 DEF Feed!Next, Feed!Halt, Feed!NewBook, Feed!NoLevels,
                          NewBook, NoLevels
    <2>5. CASE state = "Live" /\ state' = "Live" /\ book' = book
        BY <2>1, <2>5
    <2>6. CASE state = "Live" /\ state' = "Live" /\ PushDelta
        <3>1. book'.sequence \in {book.sequence, book.sequence + 1}
            BY <2>6, LiveDelta
        <3>2. /\ book = Feed!BookAt(book.sequence)
              /\ book' = Feed!BookAt(book'.sequence)
              /\ book.sequence \in Nat
              /\ book'.sequence < Len(truth)
            BY <1>0, <2>1, <2>6 DEF LiveBookIsEntry, Feed!BookAt, IInv, CoreInv,
                                    TypeInv, TypeOK
        <3>3. CASE book'.sequence = book.sequence
            BY <2>1, <2>6, <3>2, <3>3
        <3>4. CASE book'.sequence = book.sequence + 1
            <4>1. Feed!Advance
                BY <2>1, <2>6, <3>2, <3>4 DEF Feed!Advance
            <4>. QED BY <4>1 DEF Feed!Next
        <3>. QED BY <3>1, <3>3, <3>4
    <2>. QED BY <2>2, <2>3, <2>4, <2>5, <2>6, LiveSteps
<1>. QED BY <1>1, <1>2

\* Under the same assumptions the synchronizer implements BookFeed: strategies
\* see an entry of the exchange's history, and move through it without a hole.
THEOREM BookSyncImplementsBookFeed ==
    ASSUME RestLag = 0, InitialLevels = NoLevels
    PROVE  Spec => ImplementsBookFeed
<1>. QED BY InitIInv, NextIInv, FeedInit, FeedNext, PTL
         DEF Spec, ImplementsBookFeed, Feed!Spec
==============================================================================
