---------------------------- MODULE InFlightProofs ----------------------------
(***************************************************************************)
(* Proofs about InFlight, for any set of orders, quantity and timeout, and *)
(* about Inventory, in which the tracker's specification is contained.     *)
(***************************************************************************)
EXTENDS Inventory, FiniteSetTheorems, WellFoundedInduction, TLAPS

\* An order that was never sent has left no trace, and a tracked order's entry
\* holds what was counted of it.
OrderInv ==
    \A o \in Orders :
        /\ status[o] = "New" =>
              o \notin Tracked \cup ghosts /\ counted[o] = 0 /\ filled[o] = 0
        /\ status[o] = "Pending" => filled[o] = 0
        /\ o \in Tracked => pending[o].cumulative = counted[o]
        /\ counted[o] <= filled[o]

\* A report is between what is counted and what is executed; one that settles
\* its order is the last word on it.
ReportIsSound(r) ==
    /\ status[r.order] # "New"
    /\ counted[r.order] <= r.executed
    /\ r.executed <= filled[r.order]
    /\ Settles(r) => status[r.order] = r.status /\ r.executed = filled[r.order]

\* Reports are sound and, order by order, do not go back.
StreamInv ==
    /\ \A i \in 1 .. Len(stream) : ReportIsSound(stream[i])
    /\ \A i, j \in 1 .. Len(stream) :
          i < j /\ stream[i].order = stream[j].order
              => stream[i].executed <= stream[j].executed

\* Orders about to be removed are settled or too old.
RemovalInv ==
    /\ \A o \in closing :
          counted[o] = filled[o] /\ status[o] \in {"Filled", "Cancelled"}
    /\ \A o \in Tracked : o \in ghosts <=> pending[o].age > Timeout

InFlightInv == TypeOK /\ OrderInv /\ StreamInv /\ RemovalInv

-------------------------------------------------------------------------------
(* Lemmas about the stream.                                                *)

LEMMA TailStream ==
    ASSUME stream \in Seq(Report), stream # <<>>, stream' = Tail(stream)
    PROVE  /\ stream' \in Seq(Report)
           /\ Len(stream) \in Nat /\ 1 \in 1 .. Len(stream)
           /\ Head(stream) = stream[1]
           /\ Head(stream) \in Report
           /\ \A i \in 1 .. Len(stream') :
                 /\ i + 1 \in 1 .. Len(stream)
                 /\ stream'[i] = stream[i + 1]
    OBVIOUS

LEMMA AppendStream ==
    ASSUME stream \in Seq(Report), NEW r \in Report, stream' = Append(stream, r)
    PROVE  /\ stream' \in Seq(Report)
           /\ \A i \in 1 .. Len(stream') :
                 \/ i \in 1 .. Len(stream) /\ stream'[i] = stream[i]
                 \/ i = Len(stream) + 1 /\ stream'[i] = r
<1>1. /\ stream' \in Seq(Report)
      /\ Len(stream) \in Nat
      /\ Len(stream') = Len(stream) + 1
      /\ stream'[Len(stream) + 1] = r
      /\ \A i \in 1 .. Len(stream) : stream'[i] = stream[i]
    OBVIOUS
<1>. QED BY <1>1

\* A report of an order's new state, appended, keeps the stream sound, if the
\* order was not settled before in another state.
LEMMA AppendSound ==
    ASSUME InFlightInv, NEW r \in Report, stream' = Append(stream, r),
           counted' = counted,
           status' \in [Orders -> Status], filled' \in [Orders -> 0 .. Quantity],
           \A u \in Orders \ {r.order} : status'[u] = status[u] /\ filled'[u] = filled[u],
           status'[r.order] = r.status, r.status # "New",
           filled'[r.order] = r.executed, filled[r.order] <= r.executed,
           \/ status[r.order] \notin {"Filled", "Cancelled"}
           \/ status[r.order] = r.status /\ filled[r.order] = r.executed
    PROVE  stream' \in Seq(Report) /\ StreamInv'
<1>. stream \in Seq(Report)
    BY DEF InFlightInv, TypeOK
<1>. DEFINE n == Len(stream) + 1
<1>1. /\ \A i \in 1 .. Len(stream) : stream[i] \in Report
      /\ r.order \in Orders /\ r.executed \in 0 .. Quantity
      /\ Len(stream) \in Nat
    <2>1. r.order \in Orders /\ r.executed \in 0 .. Quantity
        BY DEF Report
    <2>. QED BY <2>1
<1>. USE DEF InFlightInv, TypeOK, OrderInv, StreamInv
<1>2. /\ stream' \in Seq(Report)
      /\ \A i \in 1 .. Len(stream') :
            \/ i \in 1 .. Len(stream) /\ stream'[i] = stream[i]
            \/ i = n /\ stream'[i] = r
    BY AppendStream
<1>3. counted[r.order] <= r.executed
    <2>1. counted[r.order] <= filled[r.order]
        BY <1>1
    <2>2. counted[r.order] \in Int /\ filled[r.order] \in Int
        BY <1>1
    <2>. QED BY <1>1, <2>1, <2>2
<1>4. ReportIsSound(r)'
    <2>1. counted'[r.order] <= r.executed /\ r.executed <= filled'[r.order]
        BY <1>1, <1>3
    <2>2. status'[r.order] = r.status /\ r.status # "New"
        OBVIOUS
    <2>. QED BY <2>1, <2>2 DEF ReportIsSound, Settles
<1>5. ASSUME NEW s \in Report, ReportIsSound(s) PROVE ReportIsSound(s)'
    <2>1. s.order \in Orders /\ s.executed \in 0 .. Quantity /\ counted[s.order] \in Int
        BY <1>5 DEF Report
    <2>2. CASE s.order # r.order
        BY <1>5, <2>1, <2>2 DEF ReportIsSound, Settles
    <2>3. CASE s.order = r.order
        <3>1. s.executed <= r.executed
            BY <1>1, <1>5, <2>1, <2>3 DEF ReportIsSound
        <3>2. Settles(s) => s.status = r.status /\ s.executed = r.executed
            BY <1>5, <2>3 DEF ReportIsSound, Settles
        <3>. QED BY <1>5, <2>1, <2>3, <3>1, <3>2 DEF ReportIsSound, Settles
    <2>. QED BY <2>2, <2>3
<1>6. ASSUME NEW i \in 1 .. Len(stream') PROVE ReportIsSound(stream[i])'
    <2>1. stream'[i] = r \/ (stream'[i] \in Report /\ ReportIsSound(stream'[i]))
        BY <1>2, <1>1
    <2>2. PICK s \in Report : s = stream'[i] /\ (s = r \/ ReportIsSound(s))
        BY <2>1
    <2>3. ReportIsSound(s)'
        BY <1>4, <1>5, <2>2
    <2>. QED BY <2>2, <2>3 DEF ReportIsSound, Settles
<1>7. ASSUME NEW i \in 1 .. Len(stream), stream[i].order = r.order
      PROVE  stream[i].executed <= r.executed
    <2>1. PICK s \in Report : s = stream[i]
        BY <1>1
    <2>2. s.executed <= filled[r.order] /\ s.executed \in 0 .. Quantity
        BY <1>7, <2>1 DEF ReportIsSound, Report
    <2>3. filled[r.order] \in 0 .. Quantity
        BY <1>1
    <2>. QED BY <1>1, <2>1, <2>2, <2>3
<1>8. \A i, j \in 1 .. Len(stream') :
         i < j /\ stream'[i].order = stream'[j].order
             => stream'[i].executed <= stream'[j].executed
    <2>1. SUFFICES ASSUME NEW i \in 1 .. Len(stream'), NEW j \in 1 .. Len(stream'),
                          i < j, stream'[i].order = stream'[j].order
                   PROVE  stream'[i].executed <= stream'[j].executed
        OBVIOUS
    <2>2. i \in 1 .. Len(stream) /\ stream'[i] = stream[i]
        BY <1>2, <1>1, <2>1
    <2>3. CASE j \in 1 .. Len(stream) /\ stream'[j] = stream[j]
        BY <2>1, <2>2, <2>3
    <2>4. CASE stream'[j] = r
        BY <1>7, <2>1, <2>2, <2>4
    <2>. QED BY <1>2, <2>3, <2>4
<1>. QED BY <1>2, <1>6, <1>8

-------------------------------------------------------------------------------
(* The inductive invariant.                                                *)

LEMMA InitInFlightInv == Init => InFlightInv
<1>. SUFFICES ASSUME Init PROVE InFlightInv
    OBVIOUS
<1>1. Tracked = {}
    BY DEF Init, Tracked
<1>2. TypeOK
    BY <1>1, InFlightAssumption DEF Init, TypeOK, Status
<1>3. OrderInv /\ StreamInv /\ RemovalInv
    BY <1>1 DEF Init, OrderInv, StreamInv, RemovalInv
<1>. QED BY <1>2, <1>3 DEF InFlightInv

\* The exchange moves an order, and reports it.
LEMMA BecomesInFlightInv ==
    ASSUME InFlightInv, NEW o \in Orders, NEW s \in Status, NEW q \in 0 .. Quantity,
           s \notin {"New", "Pending"}, Becomes(o, s, q), filled[o] <= q,
           status[o] \notin {"New", "Filled", "Cancelled"}
    PROVE  InFlightInv'
<1>. DEFINE r == [order |-> o, status |-> s, executed |-> q]
<1>1. /\ status' = [status EXCEPT ![o] = s]
      /\ filled' = [filled EXCEPT ![o] = q]
      /\ stream' = Append(stream, r)
      /\ UNCHANGED <<pending, closing, ghosts, counted, losses>>
    BY DEF Becomes, Send, trackerVars
<1>2. r \in Report /\ r.order = o /\ r.status = s /\ r.executed = q
    BY DEF Report
<1>. HIDE DEF r
<1>3. /\ status' \in [Orders -> Status] /\ filled' \in [Orders -> 0 .. Quantity]
      /\ status'[o] = s /\ filled'[o] = q
      /\ \A u \in Orders \ {o} : status'[u] = status[u] /\ filled'[u] = filled[u]
    BY <1>1 DEF InFlightInv, TypeOK
<1>4. stream' \in Seq(Report) /\ StreamInv'
    BY <1>1, <1>2, <1>3, AppendSound
<1>5. Tracked' = Tracked
    BY <1>1 DEF Tracked
<1>6. TypeOK'
    BY <1>1, <1>3, <1>4, <1>5 DEF InFlightInv, TypeOK
<1>7. counted[o] <= q
    BY DEF InFlightInv, TypeOK, OrderInv
<1>8. OrderInv'
    <2>. SUFFICES ASSUME NEW u \in Orders
                  PROVE  /\ status'[u] = "New" =>
                               /\ u \notin Tracked' \cup ghosts'
                               /\ counted'[u] = 0 /\ filled'[u] = 0
                         /\ status'[u] = "Pending" => filled'[u] = 0
                         /\ u \in Tracked' => pending'[u].cumulative = counted'[u]
                         /\ counted'[u] <= filled'[u]
        BY DEF OrderInv
    <2>1. CASE u = o
        BY <1>1, <1>3, <1>5, <1>7, <2>1 DEF InFlightInv, OrderInv
    <2>2. CASE u # o
        BY <1>1, <1>3, <1>5, <2>2 DEF InFlightInv, OrderInv
    <2>. QED BY <2>1, <2>2
<1>9. RemovalInv'
    <2>1. o \notin closing
        BY DEF InFlightInv, RemovalInv
    <2>2. closing \subseteq Orders
        BY DEF InFlightInv, TypeOK
    <2>. QED BY <1>1, <1>3, <1>5, <2>1, <2>2 DEF InFlightInv, RemovalInv
<1>. QED BY <1>4, <1>6, <1>8, <1>9 DEF InFlightInv

\* The first report leaves the stream, and what is counted does not pass the
\* reports behind it.
LEMMA TailSound ==
    ASSUME InFlightInv, stream # <<>>, stream' = Tail(stream),
           UNCHANGED exchangeVars, counted' \in [Orders -> Int],
           \A u \in Orders \ {Head(stream).order} : counted'[u] = counted[u],
           counted'[Head(stream).order] \in
               {counted[Head(stream).order], Head(stream).executed}
    PROVE  stream' \in Seq(Report) /\ StreamInv'
<1>. stream \in Seq(Report)
    BY DEF InFlightInv, TypeOK
<1>1. /\ stream' \in Seq(Report)
      /\ Len(stream) \in Nat /\ 1 \in 1 .. Len(stream)
      /\ Head(stream) = stream[1]
      /\ \A i \in 1 .. Len(stream') :
            i + 1 \in 1 .. Len(stream) /\ stream'[i] = stream[i + 1]
    BY TailStream
<1>2. UNCHANGED <<status, filled>>
    BY DEF exchangeVars
<1>3. ASSUME NEW i \in 1 .. Len(stream') PROVE ReportIsSound(stream[i])'
    <2>1. stream'[i] = stream[i + 1] /\ i + 1 \in 1 .. Len(stream) /\ 1 < i + 1
        BY <1>1
    <2>2. PICK s \in Report : s = stream'[i] /\ s = stream[i + 1]
        BY <1>1, <2>1
    <2>3. ReportIsSound(s)
        BY <2>1, <2>2 DEF InFlightInv, StreamInv
    <2>4. s.order = Head(stream).order => Head(stream).executed <= s.executed
        BY <1>1, <2>1, <2>2 DEF InFlightInv, StreamInv
    <2>5. counted'[s.order] <= s.executed
        <3>1. s.order \in Orders
            BY DEF Report
        <3>2. CASE s.order = Head(stream).order
            BY <2>3, <2>4, <3>2 DEF ReportIsSound
        <3>3. CASE s.order # Head(stream).order
            BY <2>3, <3>1, <3>3 DEF ReportIsSound
        <3>. QED BY <3>2, <3>3
    <2>. QED BY <1>2, <2>2, <2>3, <2>5 DEF ReportIsSound, Settles
<1>4. ASSUME NEW i \in 1 .. Len(stream'), NEW j \in 1 .. Len(stream'),
             i < j, stream'[i].order = stream'[j].order
      PROVE  stream'[i].executed <= stream'[j].executed
    <2>1. /\ i + 1 \in 1 .. Len(stream) /\ j + 1 \in 1 .. Len(stream)
          /\ stream'[i] = stream[i + 1] /\ stream'[j] = stream[j + 1]
          /\ i + 1 < j + 1
        BY <1>1, <1>4
    <2>. QED BY <1>4, <2>1 DEF InFlightInv, StreamInv
<1>. QED BY <1>1, <1>3, <1>4 DEF StreamInv

\* Entries leave the map.
LEMMA Untracked ==
    ASSUME InFlightInv, NEW o \in Orders, pending' = Restrict(pending, Tracked \ {o})
    PROVE  /\ Tracked' = Tracked \ {o}
           /\ \A u \in Tracked' : pending'[u] = pending[u]
    BY DEF Tracked, Restrict

\* When neither the exchange nor the stream moves and nothing is counted, the
\* entries that stay as they are stay correct.
LEMMA StreamUntouched ==
    ASSUME InFlightInv, UNCHANGED <<counted, exchangeVars, stream>>
    PROVE  StreamInv'
    BY DEF InFlightInv, StreamInv, ReportIsSound, Settles, exchangeVars

LEMMA NextInFlightInv == InFlightInv /\ [Next]_vars => InFlightInv'
<1>. SUFFICES ASSUME InFlightInv, [Next]_vars PROVE InFlightInv'
    OBVIOUS
<1>. Tracked \subseteq Orders /\ stream \in Seq(Report)
    BY DEF InFlightInv, TypeOK
<1>. USE InFlightAssumption DEF InFlightInv
<1>1. ASSUME NEW o \in Orders, RegisterOrder(o) PROVE InFlightInv'
    <2>. DEFINE fresh == [age |-> 0, cumulative |-> 0]
    <2>1. /\ status[o] = "New" /\ status' = [status EXCEPT ![o] = "Pending"]
          /\ pending' = [u \in Tracked \cup {o} |->
                             IF u = o THEN fresh ELSE pending[u]]
          /\ UNCHANGED <<closing, ghosts, counted, filled, stream, losses>>
        BY <1>1 DEF RegisterOrder, streamVars
    <2>2. /\ Tracked' = Tracked \cup {o}
          /\ \A u \in Tracked' : pending'[u] = IF u = o THEN fresh ELSE pending[u]
        BY <2>1 DEF Tracked
    <2>3. fresh \in Entry /\ fresh.age = 0 /\ fresh.cumulative = 0
        BY DEF Entry
    <2>. HIDE DEF fresh
    <2>4. status' \in [Orders -> Status] /\ status'[o] = "Pending"
          /\ \A u \in Orders \ {o} : status'[u] = status[u]
        BY <2>1 DEF TypeOK, Status
    <2>5. TypeOK'
        BY <2>1, <2>2, <2>3, <2>4 DEF TypeOK
    <2>6. o \notin Tracked /\ o \notin ghosts /\ counted[o] = 0 /\ filled[o] = 0
        BY <2>1 DEF OrderInv
    <2>7. OrderInv'
        BY <2>1, <2>2, <2>3, <2>4, <2>6 DEF OrderInv
    <2>8. StreamInv'
        <3>1. ASSUME NEW r \in Report, ReportIsSound(r) PROVE ReportIsSound(r)'
            <4>1. r.order \in Orders /\ r.order # o
                BY <2>1, <3>1 DEF ReportIsSound, Report
            <4>. QED BY <2>1, <2>4, <3>1, <4>1 DEF ReportIsSound, Settles
        <3>2. \A i \in 1 .. Len(stream) : stream[i] \in Report
            OBVIOUS
        <3>3. ASSUME NEW i \in 1 .. Len(stream) PROVE ReportIsSound(stream[i])'
            <4>1. PICK r \in Report : r = stream[i] /\ ReportIsSound(r)
                BY <3>2 DEF StreamInv
            <4>. QED BY <2>1, <3>1, <4>1 DEF ReportIsSound, Settles
        <3>. QED BY <2>1, <3>3 DEF StreamInv
    <2>9. RemovalInv'
        <3>1. \A u \in closing : u \in Orders /\ u # o
            BY <2>1 DEF TypeOK, RemovalInv
        <3>2. \A u \in closing :
                 counted'[u] = filled'[u] /\ status'[u] \in {"Filled", "Cancelled"}
            BY <2>1, <2>4, <3>1 DEF RemovalInv
        <3>3. \A u \in Tracked' : u \in ghosts <=> pending'[u].age > Timeout
            BY <2>2, <2>3, <2>6 DEF RemovalInv
        <3>. QED BY <2>1, <3>2, <3>3 DEF RemovalInv
    <2>. QED BY <2>5, <2>7, <2>8, <2>9
<1>2. CASE ProcessExecution
    <2>. DEFINE r == Head(stream)
                o == r.order
    <2>1. /\ closing = {} /\ stream # <<>> /\ o \in Tracked
          /\ pending' = [pending EXCEPT ![o].cumulative = r.executed]
          /\ counted' = [counted EXCEPT ![o] = @ + (r.executed - pending[o].cumulative)]
          /\ closing' = IF Settles(r) THEN {o} ELSE {}
          /\ stream' = Tail(stream)
          /\ UNCHANGED <<ghosts, status, filled, losses>>
        BY <1>2 DEF ProcessExecution, Delta, exchangeVars
    <2>2. r \in Report /\ ReportIsSound(r)
        BY <2>1, TailStream DEF StreamInv
    <2>3. o \in Orders /\ r.executed \in 0 .. Quantity
        BY <2>2 DEF Report
    <2>. HIDE DEF o, r
    <2>4. pending[o].cumulative = counted[o] /\ counted[o] \in Int
        BY <2>1, <2>3 DEF OrderInv, TypeOK
    <2>5. /\ counted' \in [Orders -> Int]
          /\ counted'[o] = r.executed
          /\ \A u \in Orders \ {o} : counted'[u] = counted[u]
        BY <2>1, <2>3, <2>4 DEF TypeOK
    <2>6. /\ Tracked' = Tracked
          /\ \A u \in Tracked : pending'[u] \in Entry /\ pending'[u].age = pending[u].age
          /\ pending'[o].cumulative = r.executed
          /\ \A u \in Tracked \ {o} : pending'[u] = pending[u]
        <3>1. /\ DOMAIN pending' = DOMAIN pending
              /\ pending'[o] = [pending[o] EXCEPT !.cumulative = r.executed]
              /\ \A u \in Tracked \ {o} : pending'[u] = pending[u]
            BY <2>1 DEF Tracked
        <3>2. pending[o] \in Entry
            BY <2>1 DEF TypeOK
        <3>3. /\ pending'[o] \in Entry /\ pending'[o].age = pending[o].age
              /\ pending'[o].cumulative = r.executed
            BY <2>3, <3>1, <3>2 DEF Entry
        <3>. QED BY <3>1, <3>3 DEF TypeOK, Tracked
    <2>7. stream' \in Seq(Report) /\ StreamInv'
        BY <2>1, <2>5, TailSound DEF exchangeVars, r, o
    <2>8. closing' \subseteq Orders
        BY <2>1, <2>3
    <2>9. TypeOK'
        BY <2>1, <2>5, <2>6, <2>7, <2>8 DEF TypeOK
    <2>10. r.executed <= filled[o] /\ status[o] # "New"
        BY <2>2 DEF ReportIsSound, o
    <2>11. OrderInv'
        BY <2>1, <2>5, <2>6, <2>10 DEF OrderInv
    <2>12. RemovalInv'
        <3>1. ASSUME NEW u \in closing'
              PROVE  counted'[u] = filled'[u] /\ status'[u] \in {"Filled", "Cancelled"}
            <4>1. Settles(r) /\ u = o
                BY <2>1
            <4>. QED BY <2>1, <2>2, <2>5, <4>1 DEF ReportIsSound, Settles, o
        <3>2. \A u \in Tracked' : u \in ghosts' <=> pending'[u].age > Timeout
            BY <2>1, <2>6 DEF RemovalInv
        <3>. QED BY <3>1, <3>2 DEF RemovalInv
    <2>. QED BY <2>7, <2>9, <2>11, <2>12
<1>3. CASE ReportOfUnknown
    <2>1. /\ stream # <<>> /\ stream' = Tail(stream)
          /\ UNCHANGED <<pending, closing, ghosts, counted, status, filled, losses>>
        BY <1>3 DEF ReportOfUnknown, trackerVars, exchangeVars
    <2>2. counted' \in [Orders -> Int]
        BY <2>1 DEF TypeOK
    <2>3. stream' \in Seq(Report) /\ StreamInv'
        BY <2>1, <2>2, TailSound DEF exchangeVars
    <2>4. Tracked' = Tracked
        BY <2>1 DEF Tracked
    <2>. QED BY <2>1, <2>3, <2>4 DEF TypeOK, OrderInv, RemovalInv
<1>4. ASSUME NEW o \in Orders, pending' = Restrict(pending, Tracked \ {o}),
             closing' \subseteq closing, ghosts' \subseteq ghosts,
             \A u \in ghosts \ ghosts' : u = o,
             UNCHANGED <<counted, exchangeVars, streamVars>>
      PROVE  InFlightInv'
    <2>1. /\ Tracked' = Tracked \ {o}
          /\ \A u \in Tracked' : pending'[u] = pending[u]
        BY <1>4, Untracked
    <2>2. StreamInv'
        BY <1>4, StreamUntouched DEF streamVars
    <2>3. TypeOK'
        BY <1>4, <2>1 DEF TypeOK, exchangeVars, streamVars
    <2>4. OrderInv'
        BY <1>4, <2>1 DEF OrderInv, exchangeVars
    <2>5. RemovalInv'
        BY <1>4, <2>1 DEF RemovalInv, exchangeVars
    <2>. QED BY <2>2, <2>3, <2>4, <2>5
<1>5. ASSUME NEW o \in Orders, RemoveSettled(o) \/ PurgeGhost(o) PROVE InFlightInv'
    BY <1>4, <1>5 DEF RemoveSettled, PurgeGhost
<1>6. CASE WakeReaper
    <2>1. /\ ghosts = {}
          /\ pending' = [o \in Tracked |-> [pending[o] EXCEPT !.age = @ + 1]]
          /\ ghosts' = {o \in Tracked : pending'[o].age > Timeout}
          /\ UNCHANGED <<closing, counted, status, filled, stream, losses>>
        BY <1>6 DEF WakeReaper, IsGhost, exchangeVars, streamVars
    <2>2. Tracked' = Tracked
        BY <2>1 DEF Tracked
    <2>3. ASSUME NEW o \in Tracked
          PROVE  /\ pending'[o] \in Entry /\ pending'[o].age <= Timeout + 1
                 /\ pending'[o].cumulative = pending[o].cumulative
        <3>1. pending[o] \in Entry /\ pending[o].age <= Timeout
            BY <2>1 DEF TypeOK, RemovalInv, Entry
        <3>2. pending'[o] = [pending[o] EXCEPT !.age = @ + 1]
            BY <2>1
        <3>. QED BY <3>1, <3>2 DEF Entry
    <2>4. TypeOK'
        BY <2>1, <2>2, <2>3 DEF TypeOK
    <2>5. OrderInv'
        BY <2>1, <2>2, <2>3 DEF OrderInv
    <2>6. StreamInv'
        BY <2>1, StreamUntouched DEF exchangeVars
    <2>7. RemovalInv'
        BY <2>1, <2>2 DEF RemovalInv
    <2>. QED BY <2>4, <2>5, <2>6, <2>7
<1>7. ASSUME NEW o \in Orders, Accept(o) \/ Reject(o) PROVE InFlightInv'
    <2>1. filled[o] = 0 /\ status[o] = "Pending" /\ 0 \in 0 .. Quantity
        BY <1>7 DEF Accept, Reject, OrderInv
    <2>. QED
        BY <1>7, <2>1, BecomesInFlightInv DEF Accept, Reject, Status
<1>8. ASSUME NEW o \in Orders, Fill(o) PROVE InFlightInv'
    <2>1. PICK q \in filled[o] + 1 .. Quantity :
             Becomes(o, IF q = Quantity THEN "Filled" ELSE "PartiallyFilled", q)
        BY <1>8 DEF Fill
    <2>2. filled[o] \in Nat /\ status[o] \in {"Open", "PartiallyFilled"}
        BY <1>8 DEF Fill, TypeOK
    <2>3. q \in 0 .. Quantity /\ filled[o] <= q
        BY <2>1, <2>2
    <2>. QED BY <2>1, <2>2, <2>3, BecomesInFlightInv DEF Status
<1>9. ASSUME NEW o \in Orders, Cancel(o) PROVE InFlightInv'
    <2>1. filled[o] \in 0 .. Quantity
        BY DEF TypeOK
    <2>. QED BY <1>9, <2>1, BecomesInFlightInv DEF Cancel, Status
<1>10. ASSUME NEW o \in Orders, Resend(o) PROVE InFlightInv'
    <2>. DEFINE r == [order |-> o, status |-> status[o], executed |-> filled[o]]
    <2>1. /\ status[o] \notin {"New", "Pending"} /\ stream' = Append(stream, r)
          /\ UNCHANGED <<pending, closing, ghosts, counted, status, filled, losses>>
        BY <1>10 DEF Resend, Send, trackerVars, exchangeVars
    <2>2. /\ r \in Report /\ r.order = o
          /\ r.status = status[o] /\ r.executed = filled[o]
        BY DEF TypeOK, Report
    <2>. HIDE DEF r
    <2>3. status' \in [Orders -> Status] /\ filled' \in [Orders -> 0 .. Quantity]
        BY <2>1 DEF TypeOK
    <2>4. filled[o] <= r.executed
        BY <2>2 DEF TypeOK
    <2>5. stream' \in Seq(Report) /\ StreamInv'
        BY <2>1, <2>2, <2>3, <2>4, AppendSound
    <2>6. Tracked' = Tracked
        BY <2>1 DEF Tracked
    <2>. QED BY <2>1, <2>5, <2>6 DEF TypeOK, OrderInv, RemovalInv
<1>11. CASE StreamDrops
    <2>1. /\ stream' = <<>> /\ losses < MaxLosses /\ losses' = losses + 1
          /\ UNCHANGED <<pending, closing, ghosts, counted, status, filled>>
        BY <1>11 DEF StreamDrops, trackerVars, exchangeVars
    <2>2. Tracked' = Tracked
        BY <2>1 DEF Tracked
    <2>. QED BY <2>1, <2>2 DEF TypeOK, OrderInv, StreamInv, RemovalInv
<1>12. CASE UNCHANGED vars
    <2>1. UNCHANGED <<pending, closing, ghosts, counted, status, filled, stream, losses>>
        BY <1>12 DEF vars, trackerVars, exchangeVars, streamVars
    <2>2. Tracked' = Tracked
        BY <2>1 DEF Tracked
    <2>3. StreamInv'
        BY <2>1, StreamUntouched DEF exchangeVars
    <2>. QED BY <2>1, <2>2, <2>3 DEF TypeOK, OrderInv, RemovalInv
<1>. QED
    BY <1>1, <1>2, <1>3, <1>5, <1>6, <1>7, <1>8, <1>9, <1>10, <1>11, <1>12
    DEF Next

-------------------------------------------------------------------------------
(* Theorems.                                                               *)

LEMMA InFlightInvariant == Spec => []InFlightInv
    BY InitInFlightInv, NextInFlightInv, PTL DEF Spec

\* Types are right for every set of orders, and no entry outlives the wake that
\* finds it too old (start_reaper).
THEOREM InFlightTypeCorrect == Spec => []TypeOK
<1>1. InFlightInv => TypeOK
    BY DEF InFlightInv
<1>. QED BY InFlightInvariant, <1>1, PTL

\* No fill is counted twice, however often reports are repeated and however
\* many are lost (process_execution).
THEOREM NothingEverCountedTwice == Spec => []NothingIsCountedTwice
<1>1. InFlightInv => NothingIsCountedTwice
    BY DEF InFlightInv, OrderInv, NothingIsCountedTwice
<1>. QED BY InFlightInvariant, <1>1, PTL

\* A settled order has been counted in full, whatever reports of it were lost
\* (process_execution).
THEOREM SettledOrdersAlwaysExact == Spec => []SettledOrdersAreExact
<1>1. InFlightInv => SettledOrdersAreExact
    BY DEF InFlightInv, RemovalInv, SettledOrdersAreExact
<1>. QED BY InFlightInvariant, <1>1, PTL

LEMMA CountedNeverFalls ==
    InFlightInv /\ [Next]_vars => \A o \in Orders : counted'[o] >= counted[o]
<1>. SUFFICES ASSUME InFlightInv, [Next]_vars, NEW o \in Orders
              PROVE  counted'[o] >= counted[o]
    OBVIOUS
<1>1. counted[o] \in Int /\ stream \in Seq(Report) /\ counted \in [Orders -> Int]
    BY DEF InFlightInv, TypeOK
<1>2. CASE UNCHANGED counted
    BY <1>1, <1>2
<1>3. CASE ProcessExecution
    <2>. DEFINE r == Head(stream)
    <2>1. /\ stream # <<>> /\ r.order \in Tracked
          /\ counted' = [counted EXCEPT ![r.order] =
                           @ + (r.executed - pending[r.order].cumulative)]
        BY <1>3 DEF ProcessExecution, Delta
    <2>2. r \in Report /\ ReportIsSound(r)
        BY <1>1, <2>1, TailStream DEF InFlightInv, StreamInv
    <2>. HIDE DEF r
    <2>3. r.order \in Orders /\ r.executed \in Int
        BY <2>2 DEF Report
    <2>4. /\ pending[r.order].cumulative = counted[r.order]
          /\ counted[r.order] \in Int /\ counted[r.order] <= r.executed
        BY <1>1, <2>1, <2>2, <2>3 DEF InFlightInv, OrderInv, ReportIsSound
    <2>5. CASE o = r.order
        BY <1>1, <2>1, <2>3, <2>4, <2>5
    <2>6. CASE o # r.order
        BY <1>1, <2>1, <2>6
    <2>. QED BY <2>5, <2>6
<1>. QED
    BY <1>2, <1>3
    DEF Next, vars, trackerVars, RegisterOrder, RemoveSettled, PurgeGhost,
        Accept, Reject, Fill, Cancel, Becomes, Resend, ReportOfUnknown,
        WakeReaper, StreamDrops

\* process_execution never returns a negative delta (process_execution).
THEOREM DeltasNeverNegative == Spec => DeltasAreNotNegative
    BY InFlightInvariant, CountedNeverFalls, PTL DEF Spec, DeltasAreNotNegative

\* Only a settled order, or one older than the timeout, leaves the map
\* (process_execution, start_reaper).
THEOREM LiveOrdersNeverDroppedEarly == Spec => LiveOrdersAreNotDroppedEarly
<1>1. InFlightInv /\ [Next]_vars
        => \A o \in Tracked \ DOMAIN pending' :
              status[o] \in {"Filled", "Cancelled"} \/ pending[o].age > Timeout
    <2>. SUFFICES ASSUME InFlightInv, [Next]_vars, NEW o \in Tracked \ DOMAIN pending'
                  PROVE  status[o] \in {"Filled", "Cancelled"} \/ pending[o].age > Timeout
        OBVIOUS
    <2>1. \/ \E u \in Orders : RemoveSettled(u) \/ PurgeGhost(u)
          \/ Tracked \subseteq DOMAIN pending'
        BY DEF Next, vars, trackerVars, Tracked, RegisterOrder, Accept, Reject, Fill,
               Cancel, Becomes, Resend, ProcessExecution, ReportOfUnknown,
               WakeReaper, StreamDrops
    <2>2. PICK u \in Orders : RemoveSettled(u) \/ PurgeGhost(u)
        BY <2>1
    <2>3. pending' = Restrict(pending, Tracked \ {u})
        BY <2>2 DEF RemoveSettled, PurgeGhost
    <2>4. o = u
        BY <2>3, Untracked DEF Tracked
    <2>. QED BY <2>2, <2>4 DEF RemoveSettled, PurgeGhost, InFlightInv, RemovalInv
<1>. QED
    BY InFlightInvariant, <1>1, PTL DEF Spec, LiveOrdersAreNotDroppedEarly

-------------------------------------------------------------------------------
(* Inventory.                                                              *)

LEMMA InventoryStepIsInFlightStep == [InventoryNext]_allVars => [Next]_vars
<1>. SUFFICES ASSUME [InventoryNext]_allVars PROVE [Next]_vars
    OBVIOUS
<1>1. CASE InventoryNext
    BY <1>1 DEF InventoryNext, SetPosition, EndBoot, Register, Remove, Purge,
                ConsumeReport, SkipReport, ApplyExecution, Wake, ExchangeReports,
                Drop, Next
<1>2. CASE UNCHANGED allVars
    BY <1>2 DEF allVars
<1>. QED BY <1>1, <1>2

\* The position tracker only looks on: each step of the composition is one of
\* the in-flight tracker and its exchange, or none (apply_execution).
THEOREM InventoryContainsInFlight == InventorySpec => Spec
<1>1. InventoryInit => Init
    BY DEF InventoryInit
<1>. QED BY <1>1, InventoryStepIsInFlightStep, PTL DEF InventorySpec, Spec

\* What the proof of the types needs besides: no order has been counted below zero,
\* and what is counted of it is what the furthest report taken says.
InventoryInv ==
    /\ InFlightInv
    /\ \A o \in Orders : counted[o] >= 0
    /\ reported = counted
    /\ InventoryTypeOK

\* What a report adds is between nothing and the order's quantity.
LEMMA DeltaIsAQuantity ==
    ASSUME InventoryInv, stream # <<>>, Head(stream).order \in Tracked
    PROVE  /\ Head(stream).order \in Orders
           /\ Delta(Head(stream)) \in 0 .. Quantity
           /\ Head(stream).executed \in 0 .. Quantity
           /\ counted[Head(stream).order] <= Head(stream).executed
           /\ Head(stream).executed <= filled[Head(stream).order]
           /\ counted[Head(stream).order] + Delta(Head(stream)) = Head(stream).executed
<1>. DEFINE r == Head(stream)
<1>1. r \in Report /\ ReportIsSound(r)
    <2>1. stream \in Seq(Report) /\ StreamInv
        BY DEF InventoryInv, InFlightInv, TypeOK
    <2>2. r = stream[1] /\ 1 \in 1 .. Len(stream) /\ r \in Report
        BY <2>1
    <2>. QED BY <2>1, <2>2 DEF StreamInv
<1>2. r.order \in Orders /\ r.executed \in 0 .. Quantity
    BY <1>1 DEF Report
<1>3. /\ pending[r.order].cumulative = counted[r.order]
      /\ counted[r.order] \in Int
      /\ 0 <= counted[r.order]
      /\ counted[r.order] <= r.executed
      /\ r.executed <= filled[r.order]
    BY <1>1, <1>2 DEF InventoryInv, InFlightInv, TypeOK, OrderInv, ReportIsSound
<1>. QED BY <1>2, <1>3, InFlightAssumption DEF Delta

\* A report taken that is at least what is counted becomes what is counted.
LEMMA ReportedStep ==
    ASSUME InventoryInv, [InventoryNext]_allVars
    PROVE  reported' = counted'
<1>1. CASE ConsumeReport
    <2>. DEFINE r == Head(stream)
                o == r.order
                delta == Delta(r)
    <2>1. /\ stream # <<>> /\ o \in Tracked
          /\ counted' = [counted EXCEPT ![o] = counted[o] + delta]
          /\ reported' = [reported EXCEPT ![o] =
                             IF r.executed > reported[o] THEN r.executed ELSE reported[o]]
        BY <1>1 DEF ConsumeReport, ProcessExecution
    <2>2. /\ r.executed \in Int /\ counted[o] \in Int
          /\ counted[o] <= r.executed /\ counted[o] + delta = r.executed
        <3>1. o \in Orders
            BY <2>1, DeltaIsAQuantity
        <3>. QED BY <2>1, <3>1, DeltaIsAQuantity, InFlightAssumption
                 DEF InventoryInv, InFlightInv, TypeOK
    <2>3. reported = counted
        BY DEF InventoryInv
    <2>. HIDE DEF r, o, delta
    <2>4. (IF r.executed > counted[o] THEN r.executed ELSE counted[o]) = r.executed
        BY <2>2
    <2>. QED BY <2>1, <2>2, <2>3, <2>4
<1>2. CASE UNCHANGED <<reported, counted>>
    BY <1>2 DEF InventoryInv
<1>. QED
    BY <1>1, <1>2
    DEF InventoryNext, SetPosition, EndBoot, Register, Remove, Purge, SkipReport,
        ApplyExecution, Wake, ExchangeReports, Drop, allVars, vars, inventoryVars,
        trackerVars, RegisterOrder, RemoveSettled, PurgeGhost, ReportOfUnknown,
        WakeReaper, Accept, Reject, Fill, Cancel, Becomes, Resend, StreamDrops

\* A position set to a whole number keeps the positions' type.
LEMMA WithType ==
    ASSUME NEW s \in Symbols, NEW q \in Int, DOMAIN positions \subseteq Symbols,
           \A t \in DOMAIN positions : positions[t] \in Int, positions' = With(s, q)
    PROVE  /\ DOMAIN positions' \subseteq Symbols
           /\ \A t \in DOMAIN positions' : positions'[t] \in Int
    BY DEF With

LEMMA InitInventoryInv == InventoryInit => InventoryInv
<1>. SUFFICES ASSUME InventoryInit PROVE InventoryInv
    OBVIOUS
<1>1. InFlightInv
    BY InitInFlightInv DEF InventoryInit
<1>2. \A o \in Orders : counted[o] >= 0
    BY DEF InventoryInit, Init
<1>3. start \in [Symbols -> Int]
    BY InventoryAssumption DEF InventoryInit
<1>4. reported = counted /\ reported \in [Orders -> 0 .. Quantity]
    BY InFlightAssumption DEF InventoryInit, Init
<1>. QED BY <1>1, <1>2, <1>3, <1>4
         DEF InventoryInit, InventoryInv, InventoryTypeOK, InFlightInv

LEMMA NextInventoryInv == InventoryInv /\ [InventoryNext]_allVars => InventoryInv'
<1>. SUFFICES ASSUME InventoryInv, [InventoryNext]_allVars PROVE InventoryInv'
    OBVIOUS
<1>1. InFlightInv' /\ \A o \in Orders : counted'[o] >= 0
    <2>1. [Next]_vars
        BY InventoryStepIsInFlightStep
    <2>2. InFlightInv' /\ TypeOK' /\ \A o \in Orders : counted'[o] >= counted[o]
        BY <2>1, NextInFlightInv, CountedNeverFalls DEF InventoryInv, InFlightInv
    <2>3. \A o \in Orders : counted[o] \in Int /\ counted'[o] \in Int /\ counted[o] >= 0
        BY <2>2 DEF InventoryInv, InFlightInv, TypeOK
    <2>. QED BY <2>2, <2>3
<1>2. TypeOK'
    BY <1>1 DEF InFlightInv
<1>3. /\ booted' \in BOOLEAN
      /\ start' = start
      /\ unheard' \subseteq Orders
      /\ reported' = counted' /\ reported' \in [Orders -> 0 .. Quantity]
    <2>1. booted' \in BOOLEAN /\ start' = start
        BY DEF InventoryInv, InventoryTypeOK, InventoryNext, allVars, inventoryVars,
               bookVars, SetPosition, EndBoot, Register, Remove, Purge, ConsumeReport,
               SkipReport, ApplyExecution, Wake, ExchangeReports, Drop
    <2>2. Tracked \subseteq Orders
        BY DEF InventoryInv, InFlightInv, TypeOK
    <2>3. unheard' \subseteq Orders
        BY <2>2 DEF InventoryInv, InventoryTypeOK, InventoryNext, allVars, inventoryVars,
               SetPosition, EndBoot, Register, Remove, Purge, ConsumeReport,
               SkipReport, ApplyExecution, Wake, ExchangeReports, Drop
    <2>4. reported' = counted'
        BY ReportedStep
    <2>5. \A o \in Orders : counted'[o] \in 0 .. Quantity
        <3>1. /\ counted' \in [Orders -> Int] /\ filled' \in [Orders -> 0 .. Quantity]
              /\ \A o \in Orders : 0 <= counted'[o] /\ counted'[o] <= filled'[o]
            BY <1>1, <1>2 DEF TypeOK, InFlightInv, OrderInv
        <3>. QED BY <3>1, InFlightAssumption
    <2>6. counted' \in [Orders -> 0 .. Quantity]
        BY <1>2, <2>5 DEF TypeOK
    <2>. QED BY <2>1, <2>3, <2>4, <2>6
<1>4. CASE UNCHANGED <<positions, applying>>
    BY <1>1, <1>2, <1>3, <1>4 DEF InventoryInv, InventoryTypeOK
<1>5. ASSUME NEW s \in Symbols, SetPosition(s) PROVE InventoryInv'
    <2>1. start[s] \in Int
        BY DEF InventoryInv, InventoryTypeOK
    <2>2. /\ DOMAIN positions' \subseteq Symbols
          /\ \A t \in DOMAIN positions' : positions'[t] \in Int
        BY <1>5, <2>1, WithType DEF SetPosition, InventoryInv, InventoryTypeOK
    <2>. QED BY <1>1, <1>2, <1>3, <1>5, <2>2
             DEF SetPosition, InventoryInv, InventoryTypeOK
<1>6. ASSUME ConsumeReport PROVE InventoryInv'
    <2>. DEFINE r == Head(stream)
                handed == [order |-> r.order, executed |-> Delta(r)]
    <2>1. stream # <<>> /\ r.order \in Tracked
        BY <1>6 DEF ConsumeReport, ProcessExecution
    <2>2. handed \in [order : Orders, executed : 0 .. Quantity]
        BY <2>1, DeltaIsAQuantity
    <2>3. applying' = <<handed>> /\ positions' = positions
        BY <1>6 DEF ConsumeReport
    <2>. QED BY <1>1, <1>2, <1>3, <2>2, <2>3 DEF InventoryInv, InventoryTypeOK
<1>7. ASSUME ApplyExecution PROVE InventoryInv'
    <2>. DEFINE r == applying[1]
                s == SymbolOf[r.order]
                q == GetPosition(s) + Signed(r.order, r.executed)
    <2>1. r \in [order : Orders, executed : 0 .. Quantity] /\ applying' = <<>>
        BY <1>7 DEF ApplyExecution, InventoryInv, InventoryTypeOK
    <2>2. s \in Symbols
        BY <2>1, InventoryAssumption
    <2>3. q \in Int
        <3>1. GetPosition(s) \in Int
            BY <2>2 DEF GetPosition, InventoryInv, InventoryTypeOK
        <3>2. r.executed \in 0 .. Quantity
            BY <2>1
        <3>3. Signed(r.order, r.executed) \in Int
            BY <3>2, InFlightAssumption DEF Signed
        <3>. QED BY <3>1, <3>3
    <2>4. positions' = positions \/ positions' = With(s, q)
        BY <1>7 DEF ApplyExecution
    <2>. HIDE DEF r, s, q
    <2>5. /\ DOMAIN positions' \subseteq Symbols
          /\ \A t \in DOMAIN positions' : positions'[t] \in Int
        BY <2>2, <2>3, <2>4, WithType DEF InventoryInv, InventoryTypeOK
    <2>. QED BY <1>1, <1>2, <1>3, <2>1, <2>5 DEF InventoryInv, InventoryTypeOK
<1>. QED
    BY <1>4, <1>5, <1>6, <1>7
    DEF InventoryNext, allVars, inventoryVars, bookVars, EndBoot, Register, Remove,
        Purge, SkipReport, Wake, ExchangeReports, Drop

\* Types are right for every set of orders and symbols: only quantities of the
\* order's size or less are handed to apply_execution (apply_execution).
THEOREM InventoryTypeCorrect == InventorySpec => []InventoryTypeOK
<1>1. InventoryInv => InventoryTypeOK
    BY DEF InventoryInv
<1>. QED BY InitInventoryInv, NextInventoryInv, <1>1, PTL DEF InventorySpec

-------------------------------------------------------------------------------
(* Sums over a finite set: SumFunction, a fold, is unfolded here once.     *)

Pick(s) == CHOOSE x \in s : TRUE

\* h gives the sum of f over each subset of S.
SumsTo(h, f, S) ==
    \A s \in SUBSET S : h[s] = IF s = {} THEN 0 ELSE f[Pick(s)] + h[s \ {Pick(s)}]

LEMMA LeastElement ==
    ASSUME NEW T \in SUBSET Nat, T # {}
    PROVE  \E x \in T : \A y \in T : x <= y
<1>1. PICK x \in T : \A y \in T : ~ (<<y, x>> \in OpToRel(<, Nat))
    BY NatLessThanWellFounded, WFMin
<1>2. \A y \in T : ~ (y < x)
    BY <1>1 DEF OpToRel
<1>. QED BY <1>2

\* Of the subsets of a finite set that are wanted, one has no wanted one below it.
LEMMA LeastSubset ==
    ASSUME NEW S, IsFiniteSet(S), NEW W \in SUBSET (SUBSET S), W # {}
    PROVE  \E s \in W : \A x \in s : s \ {x} \notin W
<1>. DEFINE T == {Cardinality(s) : s \in W}
<1>1. \A s \in W : IsFiniteSet(s) /\ Cardinality(s) \in Nat
    BY FS_Subset, FS_CardinalityType
<1>2. T \in SUBSET Nat /\ T # {}
    BY <1>1
<1>3. PICK n \in T : \A m \in T : n <= m
    BY <1>2, LeastElement
<1>4. PICK s \in W : Cardinality(s) = n
    BY <1>3
<1>5. ASSUME NEW x \in s, s \ {x} \in W PROVE FALSE
    <2>1. Cardinality(s \ {x}) = n - 1
        BY <1>1, <1>4, FS_RemoveElement
    <2>2. n - 1 \in T
        BY <1>5, <2>1
    <2>3. n \in Nat
        BY <1>1, <1>4
    <2>4. n <= n - 1
        BY <1>3, <2>2
    <2>. QED BY <2>3, <2>4
<1>. QED BY <1>5

LEMMA PickIsIn == ASSUME NEW s, s # {} PROVE Pick(s) \in s
    BY DEF Pick

\* sums exist
LEMMA SumsExist ==
    ASSUME NEW S, IsFiniteSet(S), NEW f \in [S -> Int]
    PROVE  \E h \in [SUBSET S -> Int] : SumsTo(h, f, S)
<1>. DEFINE Upto(h, n) == \A s \in SUBSET S : Cardinality(s) <= n =>
                    h[s] = IF s = {} THEN 0 ELSE f[Pick(s)] + h[s \ {Pick(s)}]
            T == {n \in Nat : ~ \E h \in [SUBSET S -> Int] : Upto(h, n)}
<1>1. \A s \in SUBSET S : /\ Cardinality(s) \in Nat /\ IsFiniteSet(s)
                          /\ Cardinality(s) <= Cardinality(S)
    BY FS_Subset, FS_CardinalityType
<1>2. \A s \in SUBSET S : s # {} =>
          /\ Pick(s) \in S
          /\ s \ {Pick(s)} \in SUBSET S
          /\ Cardinality(s \ {Pick(s)}) = Cardinality(s) - 1
    BY <1>1, PickIsIn, FS_RemoveElement
<1>3. \A s \in SUBSET S : Cardinality(s) = 0 <=> s = {}
    BY <1>1, FS_EmptySet
<1>4. T = {}
    <2>1. SUFFICES ASSUME T # {} PROVE FALSE
        OBVIOUS
    <2>2. PICK n \in T : \A m \in T : n <= m
        BY <2>1, LeastElement
    <2>3. n # 0
        <3>1. SUFFICES ASSUME n = 0 PROVE FALSE
            OBVIOUS
        <3>. DEFINE z == [s \in SUBSET S |-> 0]
        <3>2. z \in [SUBSET S -> Int] /\ Upto(z, 0)
            BY <1>1, <1>3
        <3>. QED BY <3>1, <3>2
    <2>4. n \in Nat /\ n - 1 \in Nat /\ n - 1 \notin T
        <3>1. n \in Nat /\ n - 1 \in Nat
            BY <2>3
        <3>. HIDE DEF T
        <3>2. n - 1 \in T => n <= n - 1
            BY <2>2
        <3>. QED BY <3>1, <3>2
    <2>5. PICK h \in [SUBSET S -> Int] : Upto(h, n - 1)
        BY <2>4
    <2>. DEFINE k == [s \in SUBSET S |-> IF Cardinality(s) <= n - 1 THEN h[s]
                          ELSE f[Pick(s)] + h[s \ {Pick(s)}]]
    <2>6. k \in [SUBSET S -> Int]
        <3>1. ASSUME NEW s \in SUBSET S, ~ (Cardinality(s) <= n - 1)
              PROVE f[Pick(s)] + h[s \ {Pick(s)}] \in Int
            <4>1. s # {}
               BY <1>1, <1>3, <2>4, <3>1
            <4>2. Pick(s) \in S /\ s \ {Pick(s)} \in SUBSET S
                BY <1>2, <4>1
            <4>3. f[Pick(s)] \in Int /\ h[s \ {Pick(s)}] \in Int
                BY <2>5, <4>2
            <4>. QED BY <4>3
        <3>. QED BY <2>5, <3>1
    <2>7. ASSUME NEW s \in SUBSET S, Cardinality(s) <= n
          PROVE  k[s] = IF s = {} THEN 0 ELSE f[Pick(s)] + k[s \ {Pick(s)}]
        <3>1. CASE s = {}
            <4>1. Cardinality(s) <= n - 1
                BY <1>3, <3>1, <2>4
            <4>. QED BY <2>5, <3>1, <4>1
        <3>2. CASE s # {}
            <4>. DEFINE u == s \ {Pick(s)}
            <4>1. u \in SUBSET S /\ Cardinality(u) <= n - 1
                BY <1>1, <1>2, <2>2, <2>7, <3>2
            <4>2. k[u] = h[u]
                BY <4>1
            <4>3. k[s] = f[Pick(s)] + h[u]
                BY <2>5, <3>2
            <4>. QED BY <3>2, <4>2, <4>3
        <3>. QED BY <3>1, <3>2
    <2>8. Upto(k, n)
        BY <2>7
    <2>. QED BY <2>2, <2>6, <2>8
<1>5. Cardinality(S) \in Nat
    BY FS_CardinalityType
<1>6. PICK h \in [SUBSET S -> Int] : Upto(h, Cardinality(S))
    BY <1>4, <1>5
<1>. QED BY <1>1, <1>6 DEF SumsTo

\* uniqueness
LEMMA SumsAgree ==
    ASSUME NEW S, IsFiniteSet(S), NEW f, NEW h, NEW k, SumsTo(h, f, S), SumsTo(k, f, S)
    PROVE  \A s \in SUBSET S : h[s] = k[s]
<1>. DEFINE W == {s \in SUBSET S : h[s] # k[s]}
<1>1. SUFFICES ASSUME W # {} PROVE FALSE
    OBVIOUS
<1>2. PICK s \in W : \A x \in s : s \ {x} \notin W
    BY <1>1, LeastSubset
<1>3. s # {}
    BY <1>2 DEF SumsTo
<1>4. Pick(s) \in s /\ s \ {Pick(s)} \in SUBSET S
    BY <1>3, PickIsIn
<1>5. h[s \ {Pick(s)}] = k[s \ {Pick(s)}]
    BY <1>2, <1>4
<1>. QED BY <1>2, <1>3, <1>5 DEF SumsTo

LEMMA SumIs ==
    ASSUME NEW S, IsFiniteSet(S), NEW f \in [S -> Int], NEW h, SumsTo(h, f, S)
    PROVE  SumFunction(f) = h[S] /\ SumFunction(f) \in Int
<1>. DEFINE Body(g) == [s \in SUBSET S |->
                IF s = {} THEN 0 ELSE f[CHOOSE x \in s : TRUE]
                                        + g[s \ {CHOOSE x \in s : TRUE}]]
            iter == CHOOSE g : g = Body(g)
<1>1. DOMAIN f = S
    OBVIOUS
<1>2. SumFunction(f) = iter[S]
    BY <1>1 DEF SumFunction, SumFunctionOnSet, FoldFunctionOnSet, MapThenFoldSet
<1>. HIDE DEF Body
<1>3. PICK k \in [SUBSET S -> Int] : SumsTo(k, f, S)
    BY SumsExist
<1>4. k = Body(k)
    BY <1>3 DEF SumsTo, Pick, Body
<1>5. iter = Body(iter)
    BY <1>4
<1>. HIDE DEF iter
<1>6. SumsTo(iter, f, S)
    BY <1>5 DEF SumsTo, Pick, Body
<1>7. iter[S] = h[S] /\ iter[S] = k[S]
    BY <1>3, <1>6, SumsAgree
<1>. QED BY <1>2, <1>7
LEMMA SumType ==
    ASSUME NEW S, IsFiniteSet(S), NEW f \in [S -> Int]
    PROVE  SumFunction(f) \in Int
    BY SumsExist, SumIs

\* The sum of two functions, point by point, has the sum of their sums.
LEMMA SumPlus ==
    ASSUME NEW S, IsFiniteSet(S), NEW f \in [S -> Int], NEW g \in [S -> Int],
           NEW e, e = [x \in S |-> f[x] + g[x]]
    PROVE  SumFunction(e) = SumFunction(f) + SumFunction(g)
<1>. e \in [S -> Int] /\ \A x \in S : e[x] = f[x] + g[x]
    OBVIOUS
<1>1. PICK h \in [SUBSET S -> Int] : SumsTo(h, f, S)
    BY SumsExist
<1>2. PICK k \in [SUBSET S -> Int] : SumsTo(k, g, S)
    BY SumsExist
<1>. DEFINE l == [s \in SUBSET S |-> h[s] + k[s]]
<1>3. ASSUME NEW s \in SUBSET S
      PROVE  l[s] = IF s = {} THEN 0 ELSE e[Pick(s)] + l[s \ {Pick(s)}]
    <2>1. CASE s = {}
        <3>1. h[s] = 0 /\ k[s] = 0
            BY <1>1, <1>2, <2>1 DEF SumsTo
        <3>2. l[s] = h[s] + k[s]
            OBVIOUS
        <3>. QED BY <2>1, <3>1, <3>2
    <2>2. CASE s # {}
        <3>. DEFINE x == Pick(s)
                    u == s \ {Pick(s)}
        <3>1. x \in S /\ u \in SUBSET S
            BY <2>2, PickIsIn
        <3>2. h[s] = f[x] + h[u] /\ k[s] = g[x] + k[u]
            BY <1>1, <1>2, <2>2 DEF SumsTo
        <3>3. l[s] = h[s] + k[s] /\ l[u] = h[u] + k[u]
            BY <3>1
        <3>4. f[x] \in Int /\ g[x] \in Int /\ h[u] \in Int /\ k[u] \in Int
            BY <1>1, <1>2, <3>1
        <3>5. e[x] = f[x] + g[x]
            BY <3>1
        <3>. HIDE DEF x, u, l
        <3>6. l[s] = e[x] + l[u]
            BY <3>2, <3>3, <3>4, <3>5
        <3>. QED BY <2>2, <3>6 DEF x, u
    <2>. QED BY <2>1, <2>2
<1>4. SumsTo(l, e, S)
    BY <1>3 DEF SumsTo
<1>5. l[S] = h[S] + k[S]
    OBVIOUS
<1>. HIDE DEF l
<1>. QED BY <1>1, <1>2, <1>4, <1>5, SumIs

\* A function that is zero but at one point sums to its value there.
LEMMA SumSingle ==
    ASSUME NEW S, IsFiniteSet(S), NEW f \in [S -> Int], NEW o \in S,
           \A x \in S \ {o} : f[x] = 0
    PROVE  SumFunction(f) = f[o]
<1>. DEFINE l == [s \in SUBSET S |-> IF o \in s THEN f[o] ELSE 0]
<1>1. f[o] \in Int
    OBVIOUS
<1>2. ASSUME NEW s \in SUBSET S
      PROVE  l[s] = IF s = {} THEN 0 ELSE f[Pick(s)] + l[s \ {Pick(s)}]
    <2>1. CASE s = {}
        BY <2>1
    <2>2. CASE s # {}
        <3>1. Pick(s) \in s /\ s \ {Pick(s)} \in SUBSET S
            BY <2>2, PickIsIn
        <3>2. CASE Pick(s) = o
            BY <1>1, <2>2, <3>1, <3>2
        <3>3. CASE Pick(s) # o
            BY <1>1, <2>2, <3>1, <3>3
        <3>. QED BY <3>2, <3>3
    <2>. QED BY <2>1, <2>2
<1>3. SumsTo(l, f, S) /\ l[S] = f[o]
    BY <1>2 DEF SumsTo
<1>. HIDE DEF l
<1>. QED BY <1>3, SumIs

\* A function that is zero everywhere sums to zero.
LEMMA SumZero ==
    ASSUME NEW S, IsFiniteSet(S), NEW f \in [S -> Int], \A x \in S : f[x] = 0
    PROVE  SumFunction(f) = 0
<1>. DEFINE l == [s \in SUBSET S |-> 0]
<1>2. ASSUME NEW s \in SUBSET S
      PROVE  l[s] = IF s = {} THEN 0 ELSE f[Pick(s)] + l[s \ {Pick(s)}]
    BY PickIsIn
<1>3. SumsTo(l, f, S) /\ l[S] = 0
    BY <1>2 DEF SumsTo
<1>. HIDE DEF l
<1>. QED BY <1>3, SumIs

\* What an update of one point does to the sum.
LEMMA SumUpdate ==
    ASSUME NEW S, IsFiniteSet(S), NEW f \in [S -> Int], NEW g \in [S -> Int], NEW o \in S,
           \A x \in S \ {o} : g[x] = f[x]
    PROVE  SumFunction(g) = SumFunction(f) + (g[o] - f[o])
<1>. DEFINE d == [x \in S |-> g[x] - f[x]]
<1>1. d \in [S -> Int] /\ d[o] = g[o] - f[o]
    OBVIOUS
<1>2. \A x \in S \ {o} : d[x] = 0
    OBVIOUS
<1>3. g = [x \in S |-> f[x] + d[x]]
    OBVIOUS
<1>. HIDE DEF d
<1>4. SumFunction(d) = d[o]
    BY <1>1, <1>2, SumSingle
<1>5. SumFunction(g) = SumFunction(f) + SumFunction(d)
    BY <1>1, <1>3, SumPlus
<1>. QED BY <1>1, <1>4, <1>5

-------------------------------------------------------------------------------
(* The positions.                                                          *)

Share(s, o, quantity) == IF SymbolOf[o] = s THEN Signed(o, quantity) ELSE 0

\* What apply_execution has yet to add to the position in s.
InHand(s) ==
    IF applying # <<>> THEN Share(s, applying[1].order, applying[1].executed) ELSE 0

\* Until the boot is over no order was sent and every entry is the account's; from
\* then on a position and what is about to be added to it is what was counted.
PositionInv ==
    /\ ~booted => /\ applying = <<>>
                  /\ \A o \in Orders : status[o] = "New" /\ counted[o] = 0
                  /\ \A s \in DOMAIN positions : positions[s] = start[s]
    /\ booted => \A s \in Symbols : GetPosition(s) + InHand(s) = start[s] + Adds(s, counted)


\* The shares of the orders, as the function that Adds sums up.
LEMMA Shares ==
    ASSUME NEW s, NEW f \in [Orders -> Int]
    PROVE  /\ Adds(s, f) = SumFunction([o \in Orders |-> Share(s, o, f[o])])
           /\ [o \in Orders |-> Share(s, o, f[o])] \in [Orders -> Int]
           /\ Adds(s, f) \in Int
<1>1. Adds(s, f) = SumFunction([o \in Orders |-> Share(s, o, f[o])])
    BY DEF Adds, Share
<1>2. \A o \in Orders : Share(s, o, f[o]) \in Int
    BY DEF Share, Signed
<1>3. [o \in Orders |-> Share(s, o, f[o])] \in [Orders -> Int]
    BY <1>2
<1>. QED BY <1>1, <1>3, SumType, InFlightAssumption

\* Shares are added and subtracted as quantities are.
LEMMA ShareMinus ==
    ASSUME NEW s, NEW o \in Orders, NEW a \in Int, NEW b \in Int
    PROVE  /\ Share(s, o, a - b) = Share(s, o, a) - Share(s, o, b)
           /\ Share(s, o, a) \in Int
    BY DEF Share, Signed

LEMMA ShareZero ==
    ASSUME NEW s, NEW o \in Orders, NEW a \in Int, a = 0
    PROVE  Share(s, o, a) = 0
<1>1. /\ Share(s, o, a - a) = Share(s, o, a) - Share(s, o, a)
      /\ Share(s, o, a) \in Int
    BY ShareMinus
<1>2. a - a = a
    OBVIOUS
<1>. QED BY <1>1, <1>2

\* One more counted for an order adds its share.
LEMMA AddsUpdate ==
    ASSUME NEW s, NEW f \in [Orders -> Int], NEW g \in [Orders -> Int],
           NEW o \in Orders, \A u \in Orders \ {o} : g[u] = f[u]
    PROVE  Adds(s, g) = Adds(s, f) + Share(s, o, g[o] - f[o])
<1>. DEFINE F == [u \in Orders |-> Share(s, u, f[u])]
            G == [u \in Orders |-> Share(s, u, g[u])]
<1>1. F \in [Orders -> Int] /\ G \in [Orders -> Int]
    BY Shares
<1>2. \A u \in Orders \ {o} : G[u] = F[u]
    OBVIOUS
<1>3. G[o] - F[o] = Share(s, o, g[o] - f[o])
    BY ShareMinus
<1>4. Adds(s, f) = SumFunction(F) /\ Adds(s, g) = SumFunction(G)
    BY Shares
<1>. HIDE DEF F, G
<1>5. SumFunction(G) = SumFunction(F) + (G[o] - F[o])
    BY <1>1, <1>2, SumUpdate, InFlightAssumption
<1>. QED BY <1>3, <1>4, <1>5

\* Nothing counted adds nothing.
LEMMA AddsZero ==
    ASSUME NEW s, NEW f \in [Orders -> Int], \A o \in Orders : f[o] = 0
    PROVE  Adds(s, f) = 0
<1>. DEFINE F == [u \in Orders |-> Share(s, u, f[u])]
<1>1. F \in [Orders -> Int] /\ Adds(s, f) = SumFunction(F)
    BY Shares
<1>2. \A u \in Orders : F[u] = 0
    BY DEF Share, Signed
<1>. HIDE DEF F
<1>. QED BY <1>1, <1>2, SumZero, InFlightAssumption

LEMMA InitPositionInv == InventoryInit => PositionInv
    BY DEF InventoryInit, Init, PositionInv

\* A position set for one symbol.
LEMMA WithPosition ==
    ASSUME NEW s, NEW q, positions' = With(s, q)
    PROVE  \A t : GetPosition(t)' = IF t = s THEN q ELSE GetPosition(t)
    BY DEF With, GetPosition

\* Nothing that PositionInv speaks of changes but what is filled and reported.
LEMMA PositionsUntouched ==
    ASSUME PositionInv, UNCHANGED <<positions, applying, booted, start, counted>>,
           ~booted => UNCHANGED status
    PROVE  PositionInv'
<1>1. \A s : /\ GetPosition(s)' = GetPosition(s)
             /\ InHand(s)' = InHand(s)
             /\ Adds(s, counted)' = Adds(s, counted)
    BY DEF GetPosition, InHand, Share, Adds, Signed
<1>. QED BY <1>1 DEF PositionInv


LEMMA NextPositionInv ==
    InventoryInv /\ PositionInv /\ [InventoryNext]_allVars => PositionInv'
<1>. SUFFICES ASSUME InventoryInv, PositionInv, [InventoryNext]_allVars
              PROVE  PositionInv'
    OBVIOUS
<1>1. /\ counted \in [Orders -> Int]
      /\ start \in [Symbols -> Int]
      /\ booted \in BOOLEAN
      /\ \A s \in Symbols : GetPosition(s) \in Int
    BY DEF InventoryInv, InFlightInv, TypeOK, InventoryTypeOK, GetPosition
<1>2. ASSUME NEW s \in Symbols, SetPosition(s) PROVE PositionInv'
    <2>1. /\ ~booted /\ ~booted' /\ positions' = With(s, start[s])
          /\ UNCHANGED <<applying, status, counted, start>>
        BY <1>2 DEF SetPosition, vars, trackerVars, exchangeVars
    <2>2. \A t \in DOMAIN positions' : positions'[t] = start[t]
        BY <2>1 DEF With, PositionInv
    <2>. QED BY <2>1, <2>2 DEF PositionInv
<1>3. CASE EndBoot
    <2>1. /\ ~booted /\ booted' = TRUE
          /\ \A s \in Symbols : start[s] # 0 => s \in DOMAIN positions
          /\ UNCHANGED <<positions, applying, counted, start>>
        BY <1>3 DEF EndBoot, vars, trackerVars
    <2>2. ASSUME NEW s \in Symbols
          PROVE  /\ GetPosition(s)' = start[s] /\ InHand(s)' = 0
                 /\ Adds(s, counted)' = 0
        <3>1. GetPosition(s)' = start[s]
            BY <2>1 DEF GetPosition, PositionInv
        <3>2. InHand(s)' = 0
            BY <2>1 DEF InHand, PositionInv
        <3>3. Adds(s, counted) = 0
            BY <1>1, <2>1, AddsZero DEF PositionInv
        <3>4. Adds(s, counted)' = Adds(s, counted)
            BY <2>1 DEF Adds, Signed
        <3>. QED BY <3>1, <3>2, <3>3, <3>4
    <2>3. ASSUME NEW s \in Symbols
          PROVE  (GetPosition(s) + InHand(s) = start[s] + Adds(s, counted))'
        BY <1>1, <2>1, <2>2
    <2>. QED BY <2>1, <2>3 DEF PositionInv
<1>4. CASE ConsumeReport
    <2>. DEFINE r == Head(stream)
                o == r.order
                delta == Delta(r)
    <2>1. /\ applying = <<>> /\ stream # <<>> /\ o \in Tracked
          /\ applying' = <<[order |-> o, executed |-> delta]>>
          /\ counted' = [counted EXCEPT ![o] = @ + delta]
          /\ UNCHANGED <<positions, booted, start, status>>
        BY <1>4 DEF ConsumeReport, ProcessExecution, exchangeVars
    <2>2. o \in Orders /\ delta \in Int
        BY <2>1, DeltaIsAQuantity, InFlightAssumption
    <2>3. booted
        BY <2>1, <2>2 DEF PositionInv, InventoryInv, InFlightInv, OrderInv
    <2>. HIDE DEF r, o, delta
    <2>4. /\ counted' \in [Orders -> Int]
          /\ \A u \in Orders \ {o} : counted'[u] = counted[u]
          /\ counted'[o] - counted[o] = delta
        <3>1. counted[o] \in Int /\ counted'[o] = counted[o] + delta
            BY <1>1, <2>1, <2>2
        <3>2. counted'[o] - counted[o] = delta
            BY <2>2, <3>1
        <3>. QED BY <1>1, <2>1, <2>2, <3>2
    <2>5. ASSUME NEW s \in Symbols
          PROVE  (GetPosition(s) + InHand(s) = start[s] + Adds(s, counted))'
        <3>1. GetPosition(s)' = GetPosition(s) /\ InHand(s) = 0
            BY <2>1 DEF GetPosition, InHand
        <3>2. InHand(s)' = Share(s, o, delta)
            <4>1. applying'[1].order = o /\ applying'[1].executed = delta
                  /\ applying' # <<>>
                BY <2>1
            <4>. QED BY <4>1 DEF InHand, Share, Signed
        <3>3. Adds(s, counted') = Adds(s, counted) + Share(s, o, delta)
            BY <1>1, <2>2, <2>4, AddsUpdate
        <3>4. Adds(s, counted)' = Adds(s, counted')
            BY DEF Adds, Signed
        <3>5. /\ GetPosition(s) \in Int /\ Share(s, o, delta) \in Int
              /\ start[s] \in Int /\ Adds(s, counted) \in Int
            BY <1>1, <2>2, ShareMinus, Shares
        <3>6. GetPosition(s) + 0 = start[s] + Adds(s, counted)
            BY <2>3, <3>1 DEF PositionInv
        <3>. QED BY <2>1, <3>1, <3>2, <3>3, <3>4, <3>5, <3>6
    <2>. QED BY <2>1, <2>3, <2>5 DEF PositionInv
<1>5. CASE ApplyExecution
    <2>. DEFINE o == applying[1].order
                q == applying[1].executed
                u == SymbolOf[o]
    <2>1. /\ applying # <<>> /\ applying' = <<>>
          /\ positions' = IF q = 0 THEN positions
                          ELSE With(u, GetPosition(u) + Signed(o, q))
          /\ UNCHANGED <<booted, start, counted>>
        BY <1>5 DEF ApplyExecution, vars, trackerVars
    <2>2. o \in Orders /\ q \in Int
        BY <2>1, InFlightAssumption DEF InventoryInv, InventoryTypeOK
    <2>3. booted
        BY <2>1 DEF PositionInv
    <2>4. ASSUME NEW s \in Symbols
          PROVE  (GetPosition(s) + InHand(s) = start[s] + Adds(s, counted))'
        <3>. DEFINE share == Share(s, o, q)
        <3>1. InHand(s) = share /\ InHand(s)' = 0
            BY <2>1 DEF InHand
        <3>2. GetPosition(s)' = GetPosition(s) + share
            <4>1. CASE q = 0
                <5>1. GetPosition(s)' = GetPosition(s)
                    BY <2>1, <4>1 DEF GetPosition
                <5>2. share = 0
                    BY <2>2, <4>1, ShareZero
                <5>. QED BY <1>1, <5>1, <5>2
            <4>2. CASE q # 0 /\ s = u
                <5>1. GetPosition(s)' = GetPosition(u) + Signed(o, q)
                    BY <2>1, <4>2, WithPosition
                <5>. QED BY <4>2, <5>1 DEF Share
            <4>3. CASE q # 0 /\ s # u
                <5>1. GetPosition(s)' = GetPosition(s)
                    BY <2>1, <4>3, WithPosition
                <5>2. share = 0
                    BY <4>3 DEF Share
                <5>. QED BY <1>1, <5>1, <5>2
            <4>. QED BY <4>1, <4>2, <4>3
        <3>3. Adds(s, counted)' = Adds(s, counted)
            BY <2>1 DEF Adds, Signed
        <3>4. GetPosition(s) \in Int /\ share \in Int
            BY <1>1, <2>2, ShareMinus
        <3>5. GetPosition(s) + share = start[s] + Adds(s, counted)
            BY <2>3, <3>1 DEF PositionInv
        <3>. HIDE DEF share
        <3>. QED BY <2>1, <3>1, <3>2, <3>3, <3>4, <3>5
    <2>. QED BY <2>1, <2>3, <2>4 DEF PositionInv
<1>6. ASSUME NEW o \in Orders, Register(o) PROVE PositionInv'
    <2>1. booted /\ UNCHANGED <<positions, applying, booted, start, counted>>
        BY <1>6 DEF Register, RegisterOrder, inventoryVars, bookVars
    <2>. QED BY <2>1, PositionsUntouched
<1>7. ASSUME UNCHANGED bookVars, UNCHANGED <<counted, status>> PROVE PositionInv'
    BY <1>7, PositionsUntouched DEF bookVars
<1>8. ASSUME NEW o \in Orders, Remove(o) \/ Purge(o) PROVE PositionInv'
    BY <1>7, <1>8 DEF Remove, Purge, RemoveSettled, PurgeGhost, exchangeVars,
                      inventoryVars
<1>9. CASE SkipReport \/ Wake
    BY <1>7, <1>9 DEF SkipReport, Wake, ReportOfUnknown, WakeReaper, exchangeVars,
                      trackerVars, inventoryVars
<1>10. ASSUME (\E o \in Orders : ExchangeReports(o)) \/ Drop PROVE PositionInv'
    <2>1. UNCHANGED <<bookVars, counted>>
        BY <1>10 DEF ExchangeReports, Drop, Accept, Reject, Fill, Cancel, Becomes, Resend,
                     StreamDrops, trackerVars
    <2>2. ~booted => UNCHANGED status
        <3>1. SUFFICES ASSUME ~booted, ~UNCHANGED status PROVE FALSE
            OBVIOUS
        <3>2. PICK o \in Orders : Accept(o) \/ Reject(o) \/ Fill(o) \/ Cancel(o)
            BY <1>10, <3>1 DEF ExchangeReports, Drop, Resend, StreamDrops, exchangeVars
        <3>3. status[o] # "New"
            BY <3>2 DEF Accept, Reject, Fill, Cancel
        <3>. QED BY <3>1, <3>3 DEF PositionInv
    <2>. QED BY <2>1, <2>2, PositionsUntouched DEF bookVars
<1>11. CASE UNCHANGED allVars
    BY <1>7, <1>11 DEF allVars, vars, trackerVars, exchangeVars, inventoryVars
<1>. QED
    BY <1>2, <1>3, <1>4, <1>5, <1>6, <1>8, <1>9, <1>10, <1>11 DEF InventoryNext

-------------------------------------------------------------------------------
(* What the newest reports say.                                            *)

\* Of an order of which no news is lost, all that is executed is counted or told in
\* a report on its way; and one that is not tracked is over, or not yet sent.
NewsInv ==
    \A o \in Orders \ unheard :
        /\ \/ counted[o] = filled[o]
           \/ \E i \in 1 .. Len(stream) :
                 stream[i].order = o /\ stream[i].executed = filled[o]
        /\ o \notin Tracked =>
              /\ counted[o] = filled[o]
              /\ status[o] \notin {"Pending", "Open", "PartiallyFilled"}

LEMMA InitNewsInv == InventoryInit => NewsInv
    BY DEF InventoryInit, Init, NewsInv

\* Taking the first report off the stream leaves the news of other orders in it.
LEMMA NewsMovesUp ==
    ASSUME stream \in Seq(Report), stream # <<>>, stream' = Tail(stream),
           NEW i \in 1 .. Len(stream), i # 1
    PROVE  i - 1 \in 1 .. Len(stream') /\ stream'[i - 1] = stream[i]
    OBVIOUS

\* The same steps of the exchange and its stream, seen by an order u.
LEMMA NewsUntouched ==
    ASSUME NewsInv, UNCHANGED <<counted, filled, stream, status>>,
           unheard \subseteq unheard',
           NEW u \in Orders \ unheard', u \in Tracked <=> u \in Tracked'
    PROVE  /\ \/ counted'[u] = filled'[u]
              \/ \E i \in 1 .. Len(stream') :
                    stream'[i].order = u /\ stream'[i].executed = filled'[u]
           /\ u \notin Tracked' =>
                 /\ counted'[u] = filled'[u]
                 /\ status'[u] \notin {"Pending", "Open", "PartiallyFilled"}
    BY DEF NewsInv

LEMMA NextNewsInv ==
    InventoryInv /\ NewsInv /\ [InventoryNext]_allVars => NewsInv'
<1>. SUFFICES ASSUME InventoryInv, NewsInv, [InventoryNext]_allVars,
                     NEW u \in Orders \ unheard'
              PROVE  /\ \/ counted'[u] = filled'[u]
                        \/ \E i \in 1 .. Len(stream') :
                              stream'[i].order = u /\ stream'[i].executed = filled'[u]
                     /\ u \notin Tracked' =>
                           /\ counted'[u] = filled'[u]
                           /\ status'[u] \notin {"Pending", "Open", "PartiallyFilled"}
    BY DEF NewsInv
<1>. DEFINE Goal == /\ \/ counted'[u] = filled'[u]
                       \/ \E i \in 1 .. Len(stream') :
                             stream'[i].order = u /\ stream'[i].executed = filled'[u]
                    /\ u \notin Tracked' =>
                          /\ counted'[u] = filled'[u]
                          /\ status'[u] \notin {"Pending", "Open", "PartiallyFilled"}
<1>0. stream \in Seq(Report) /\ Tracked \subseteq Orders /\ counted \in [Orders -> Int]
      /\ filled \in [Orders -> 0 .. Quantity]
    BY DEF InventoryInv, InFlightInv, TypeOK
<1>1. CASE ConsumeReport
    <2>. DEFINE r == Head(stream)
                o == r.order
    <2>1. /\ stream # <<>> /\ o \in Tracked
          /\ counted' = [counted EXCEPT ![o] = counted[o] + Delta(r)]
          /\ pending' = [pending EXCEPT ![o].cumulative = r.executed]
          /\ stream' = Tail(stream)
          /\ UNCHANGED <<status, filled, unheard>>
        BY <1>1 DEF ConsumeReport, ProcessExecution, exchangeVars
    <2>2. /\ o \in Orders /\ r.executed \in Int
          /\ counted[o] <= r.executed /\ r.executed <= filled[o]
          /\ counted'[o] = r.executed
        <3>1. /\ o \in Orders /\ r.executed \in 0 .. Quantity
              /\ counted[o] <= r.executed /\ r.executed <= filled[o]
              /\ counted[o] + Delta(r) = r.executed
            BY <2>1, DeltaIsAQuantity
        <3>. QED BY <1>0, <2>1, <3>1, InFlightAssumption
    <2>3. Tracked' = Tracked
        BY <2>1 DEF Tracked
    <2>4. r = stream[1]
        BY <1>0, <2>1
    <2>. HIDE DEF r
    <2>5. CASE counted'[u] = filled'[u]
        BY <2>1, <2>3, <2>5 DEF NewsInv
    <2>6. CASE counted'[u] # filled'[u]
        <3>1. counted[u] # filled[u]
            <4>1. CASE u = o
                <5>1. counted[o] \in Int /\ filled[o] \in Int
                    BY <1>0, <2>2, InFlightAssumption
                <5>. QED BY <2>1, <2>2, <2>6, <4>1, <5>1
            <4>2. CASE u # o
                BY <1>0, <2>1, <2>6, <4>2
            <4>. QED BY <4>1, <4>2
        <3>2. PICK i \in 1 .. Len(stream) :
                  stream[i].order = u /\ stream[i].executed = filled[u]
            BY <2>1, <3>1 DEF NewsInv
        <3>3. i # 1
            BY <2>1, <2>2, <2>4, <2>6, <3>2
        <3>4. i - 1 \in 1 .. Len(stream') /\ stream'[i - 1] = stream[i]
            BY <1>0, <2>1, <3>3, NewsMovesUp
        <3>5. u \in Tracked'
            BY <2>1, <2>3, <3>1 DEF NewsInv
        <3>. QED BY <2>1, <3>2, <3>4, <3>5
    <2>. QED BY <2>5, <2>6
<1>2. CASE SkipReport
    <2>1. /\ stream # <<>> /\ Head(stream).order \notin Tracked
          /\ stream' = Tail(stream)
          /\ UNCHANGED <<pending, counted, status, filled, unheard>>
        BY <1>2 DEF SkipReport, ReportOfUnknown, exchangeVars, trackerVars, inventoryVars
    <2>2. Tracked' = Tracked
        BY <2>1 DEF Tracked
    <2>3. CASE counted[u] = filled[u]
        BY <2>1, <2>2, <2>3 DEF NewsInv
    <2>4. CASE counted[u] # filled[u]
        <3>1. u \in Tracked
            BY <2>1, <2>4 DEF NewsInv
        <3>2. PICK i \in 1 .. Len(stream) :
                  stream[i].order = u /\ stream[i].executed = filled[u]
            BY <2>1, <2>4 DEF NewsInv
        <3>3. i # 1
            <4>1. Head(stream) = stream[1]
                BY <1>0, <2>1
            <4>. QED BY <2>1, <3>1, <3>2, <4>1
        <3>4. i - 1 \in 1 .. Len(stream') /\ stream'[i - 1] = stream[i]
            BY <1>0, <2>1, <3>3, NewsMovesUp
        <3>. QED BY <2>1, <2>2, <3>1, <3>2, <3>4
    <2>. QED BY <2>3, <2>4
<1>3. ASSUME NEW o \in Orders, ExchangeReports(o) PROVE Goal
    <2>1. /\ unheard' = IF o \in Tracked THEN unheard \ {o} ELSE unheard
          /\ Accept(o) \/ Reject(o) \/ Fill(o) \/ Cancel(o) \/ Resend(o)
        BY <1>3 DEF ExchangeReports
    <2>2. /\ UNCHANGED <<pending, counted>>
          /\ \A v \in Orders \ {o} : status'[v] = status[v] /\ filled'[v] = filled[v]
          /\ \E s \in Status, q \in 0 .. Quantity :
                /\ stream' = Append(stream, [order |-> o, status |-> s, executed |-> q])
                /\ filled'[o] = q
          /\ o \notin Tracked /\ o \notin unheard => UNCHANGED <<status, filled>>
        <3>1. status[o] \in Status /\ filled[o] \in 0 .. Quantity /\ 0 \in 0 .. Quantity
              /\ status \in [Orders -> Status]
            BY <1>0, InFlightAssumption DEF InventoryInv, InFlightInv, TypeOK
        <3>2. CASE Accept(o)
            BY <1>0, <3>1, <3>2
            DEF Accept, Becomes, Send, trackerVars, Status, NewsInv
        <3>3. CASE Reject(o)
            BY <1>0, <3>1, <3>3
            DEF Reject, Becomes, Send, trackerVars, Status, NewsInv
        <3>4. CASE Fill(o)
            <4>1. PICK q \in filled[o] + 1 .. Quantity :
                      Becomes(o, IF q = Quantity THEN "Filled" ELSE "PartiallyFilled", q)
                BY <3>4 DEF Fill
            <4>2. q \in 0 .. Quantity
                BY <3>1, <4>1, InFlightAssumption
            <4>. QED BY <1>0, <3>1, <3>4, <4>1, <4>2
                     DEF Fill, Becomes, Send, trackerVars, Status, NewsInv
        <3>5. CASE Cancel(o)
            BY <1>0, <3>1, <3>5
            DEF Cancel, Becomes, Send, trackerVars, Status, NewsInv
        <3>6. CASE Resend(o)
            BY <1>0, <3>1, <3>6
            DEF Resend, Send, trackerVars, exchangeVars
        <3>. QED BY <2>1, <3>2, <3>3, <3>4, <3>5, <3>6
    <2>3. PICK s \in Status, q \in 0 .. Quantity :
              /\ stream' = Append(stream, [order |-> o, status |-> s, executed |-> q])
              /\ filled'[o] = q
        BY <2>2
    <2>4. /\ \A i \in 1 .. Len(stream) : i \in 1 .. Len(stream') /\ stream'[i] = stream[i]
          /\ \E i \in 1 .. Len(stream') :
                stream'[i].order = o /\ stream'[i].executed = q
        <3>. DEFINE report == [order |-> o, status |-> s, executed |-> q]
        <3>1. report.order = o /\ report.executed = q
            OBVIOUS
        <3>. HIDE DEF report
        <3>2. /\ Len(stream) \in Nat /\ Len(stream') = Len(stream) + 1
              /\ stream'[Len(stream) + 1] = report
              /\ \A i \in 1 .. Len(stream) : stream'[i] = stream[i]
            BY <1>0, <2>3 DEF report
        <3>. QED BY <3>1, <3>2
    <2>5. Tracked' = Tracked
        BY <2>2 DEF Tracked
    <2>6. CASE u = o /\ o \in Tracked
        BY <2>3, <2>4, <2>5, <2>6
    <2>7. CASE u # o
        <3>1. u \in Orders \ unheard
            BY <2>1, <2>7
        <3>2. status'[u] = status[u] /\ filled'[u] = filled[u] /\ counted'[u] = counted[u]
            BY <2>2, <2>7
        <3>. QED BY <2>4, <2>5, <3>1, <3>2 DEF NewsInv
    <2>8. CASE u = o /\ o \notin Tracked
        <3>1. o \in Orders \ unheard
            BY <2>1, <2>8
        <3>2. UNCHANGED <<status, filled, counted>>
            BY <2>2, <2>8, <3>1
        <3>. QED BY <2>5, <2>8, <3>1, <3>2 DEF NewsInv
    <2>. QED BY <2>6, <2>7, <2>8
<1>4. CASE Drop
    <2>1. /\ unheard' = unheard \cup (InStream \cap Tracked)
          /\ UNCHANGED <<pending, counted, status, filled>>
        BY <1>4 DEF Drop, StreamDrops, trackerVars, exchangeVars
    <2>2. Tracked' = Tracked
        BY <2>1 DEF Tracked
    <2>3. counted[u] = filled[u]
        <3>1. CASE u \in Tracked
            <4>1. \A i \in 1 .. Len(stream) : stream[i].order # u
                BY <1>0, <2>1, <3>1 DEF InStream
            <4>. QED BY <2>1, <4>1 DEF NewsInv
        <3>. QED BY <2>1, <3>1 DEF NewsInv
    <2>. QED BY <2>1, <2>2, <2>3 DEF NewsInv
<1>5. ASSUME NEW o \in Orders, Register(o) PROVE Goal
    <2>1. /\ UNCHANGED <<counted, filled, stream, unheard>>
          /\ status' = [status EXCEPT ![o] = "Pending"]
          /\ Tracked' = Tracked \cup {o}
        BY <1>5 DEF Register, RegisterOrder, inventoryVars, streamVars, Tracked
    <2>2. status \in [Orders -> Status]
        BY DEF InventoryInv, InFlightInv, TypeOK
    <2>. QED BY <2>1, <2>2 DEF NewsInv
<1>6. ASSUME NEW o \in Orders, Remove(o) PROVE Goal
    <2>1. /\ o \in closing /\ pending' = Restrict(pending, Tracked \ {o})
          /\ UNCHANGED <<counted, filled, stream, status, unheard>>
        BY <1>6 DEF Remove, RemoveSettled, inventoryVars, streamVars, exchangeVars
    <2>2. Tracked' = Tracked \ {o}
        BY <2>1, Untracked DEF InventoryInv
    <2>3. counted[o] = filled[o] /\ status[o] \in {"Filled", "Cancelled"}
        BY <2>1 DEF InventoryInv, InFlightInv, RemovalInv
    <2>. QED BY <2>1, <2>2, <2>3 DEF NewsInv
<1>7. ASSUME NEW o \in Orders, Purge(o) PROVE Goal
    <2>1. /\ pending' = Restrict(pending, Tracked \ {o})
          /\ UNCHANGED <<counted, filled, stream, status>>
          /\ unheard' = unheard \cup {o}
        BY <1>7 DEF Purge, PurgeGhost, streamVars, exchangeVars
    <2>2. Tracked' = Tracked \ {o}
        BY <2>1, Untracked DEF InventoryInv
    <2>. QED BY <2>1, <2>2, NewsUntouched
<1>8. ASSUME UNCHANGED <<counted, filled, stream, status, unheard>>, Tracked' = Tracked
      PROVE  Goal
    BY <1>8, NewsUntouched
<1>9. CASE Wake
    <2>1. Tracked' = Tracked
        BY <1>9 DEF Wake, WakeReaper, Tracked
    <2>. QED BY <1>8, <1>9, <2>1
             DEF Wake, WakeReaper, inventoryVars, streamVars, exchangeVars
<1>10. CASE UNCHANGED <<vars, unheard>>
    BY <1>8, <1>10 DEF vars, trackerVars, streamVars, exchangeVars, Tracked
<1>11. CASE EndBoot \/ ApplyExecution \/ (\E s \in Symbols : SetPosition(s))
    BY <1>10, <1>11 DEF EndBoot, ApplyExecution, SetPosition
<1>. QED
    BY <1>1, <1>2, <1>3, <1>4, <1>5, <1>6, <1>7, <1>9, <1>10, <1>11
    DEF InventoryNext, allVars, inventoryVars

\* For every set of orders and symbols and every holdings: however reports are lost,
\* repeated or delayed, a position is what was held at the start and what the
\* furthest reports taken say, and it is the account's once the newest reports of
\* its orders are taken (apply_execution, set_position, process_execution).
THEOREM PositionsAlwaysMatchTheAccount == InventorySpec => []PositionsMatchTheAccount
<1>1. InventoryInv /\ PositionInv /\ NewsInv => PositionsMatchTheAccount
    <2>. SUFFICES ASSUME InventoryInv, PositionInv, NewsInv, booted, applying = <<>>,
                         NEW s \in Symbols
                  PROVE  /\ GetPosition(s) = start[s] + Adds(s, reported)
                         /\ (\A o \in Orders : SymbolOf[o] = s => Heard(o))
                                => GetPosition(s) = Account(s)
        BY DEF PositionsMatchTheAccount
    <2>1. /\ counted \in [Orders -> Int] /\ stream \in Seq(Report)
          /\ start[s] \in Int /\ GetPosition(s) \in Int
          /\ reported = counted
        BY InFlightAssumption
        DEF InventoryInv, InFlightInv, TypeOK, InventoryTypeOK, GetPosition
    <2>2. GetPosition(s) + 0 = start[s] + Adds(s, counted)
        BY DEF PositionInv, InHand
    <2>3. GetPosition(s) = start[s] + Adds(s, counted)
        BY <2>1, <2>2
    <2>4. ASSUME \A o \in Orders : SymbolOf[o] = s => Heard(o)
          PROVE  Adds(s, counted) = Adds(s, filled)
        <3>1. ASSUME NEW o \in Orders, SymbolOf[o] = s PROVE counted[o] = filled[o]
            <4>1. o \in Orders \ unheard /\ o \notin InStream
                BY <2>4, <3>1 DEF Heard
            <4>2. \A i \in 1 .. Len(stream) : stream[i].order # o
                BY <2>1, <4>1 DEF InStream
            <4>. QED BY <4>1, <4>2 DEF NewsInv
        <3>2. [o \in Orders |-> IF SymbolOf[o] = s THEN Signed(o, counted[o]) ELSE 0]
              = [o \in Orders |-> IF SymbolOf[o] = s THEN Signed(o, filled[o]) ELSE 0]
            BY <3>1
        <3>. QED BY <3>2, Zenon DEF Adds
    <2>. QED BY <2>1, <2>3, <2>4, Zenon DEF Account
<1>. QED
    BY InitInventoryInv, NextInventoryInv, InitPositionInv, NextPositionInv,
       InitNewsInv, NextNewsInv, <1>1, PTL
    DEF InventorySpec

===============================================================================
