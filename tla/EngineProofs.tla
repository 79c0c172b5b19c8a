----------------------------- MODULE EngineProofs -----------------------------
(***************************************************************************)
(* Proofs about the engine in its process (Startup), for any set of        *)
(* strategies, any capacity of the bus and of the channel, and any setting *)
(* that the operator may leave.                                            *)
(*                                                                         *)
(* The engine's own steps are those of Engine, and one more that Startup   *)
(* adds: the process is ended from outside, which moves the phase alone.   *)
(***************************************************************************)
EXTENDS Startup, FiniteSetTheorems, TLAPS

\* The process ends under the engine.
Ended ==
    /\ phase' = "returned"
    /\ UNCHANGED <<published, strategyVars, queue, workerVars, refused>>

EngineStep == [Next]_vars \/ Ended

LEMMA ProcessStepIsEngineStep == [ProcessNext]_processVars => EngineStep
<1>. SUFFICES ASSUME [ProcessNext]_processVars PROVE EngineStep
    OBVIOUS
<1>. USE DEF EngineStep, Ended
<1>1. CASE \E s \in Strategies : Strategy(s)
    BY <1>1 DEF Strategy, StrategyStep, Next
<1>2. CASE Feed \/ Worker \/ Shutdown
    BY <1>2 DEF Feed, Worker, Work, Shutdown, Next
<1>3. CASE InstallFails \/ Kill
    BY <1>3 DEF InstallFails, Kill
<1>4. CASE UNCHANGED vars
    BY <1>4
<1>. QED BY <1>1, <1>2, <1>3, <1>4
         DEF ProcessNext, processVars, LoadDotenv, LoadConfig, InitTelemetry,
             ExporterFails, StartExporter, StartEngine, InstallHandlers, Goodbye

-------------------------------------------------------------------------------
(* Types.                                                                  *)

LEMMA TailType ==
    ASSUME NEW S, NEW q \in Seq(S), q # <<>>
    PROVE  /\ Head(q) \in S /\ Head(q) = q[1] /\ 1 \in 1 .. Len(q)
           /\ Tail(q) \in Seq(S) /\ Len(Tail(q)) = Len(q) - 1
           /\ Len(q) \in Nat /\ Len(q) >= 1
           /\ \A i \in 1 .. Len(Tail(q)) : i + 1 \in 1 .. Len(q) /\ Tail(q)[i] = q[i + 1]
    OBVIOUS

LEMMA AppendType ==
    ASSUME NEW S, NEW q \in Seq(S), NEW x \in S
    PROVE  /\ Append(q, x) \in Seq(S) /\ Len(Append(q, x)) = Len(q) + 1
           /\ Len(q) \in Nat
           /\ Append(q, x)[Len(q) + 1] = x
           /\ \A i \in 1 .. Len(q) : Append(q, x)[i] = q[i]
    OBVIOUS

LEMMA FunctionIsSequence ==
    ASSUME NEW S, NEW n \in Nat, NEW f \in [1 .. n -> S]
    PROVE  f \in Seq(S) /\ Len(f) = n
    OBVIOUS

\* The orders that a strategy makes of an event, numbered from m on.
LEMMA BatchType ==
    ASSUME NEW s \in Strategies, NEW m \in Nat, NEW n \in Nat
    PROVE  /\ [i \in 1 .. n |-> [from |-> s, number |-> m + i]] \in Seq(Order)
           /\ Len([i \in 1 .. n |-> [from |-> s, number |-> m + i]]) = n
<1>1. \A i \in 1 .. n : [from |-> s, number |-> m + i] \in Order
    BY DEF Order
<1>. DEFINE f == [i \in 1 .. n |-> [from |-> s, number |-> m + i]]
<1>2. f \in [1 .. n -> Order]
    BY <1>1
<1>. HIDE DEF f
<1>3. f \in Seq(Order) /\ Len(f) = n
    BY <1>2, FunctionIsSequence
<1>. QED BY <1>3 DEF f

LEMMA InitTypeOK == Init => TypeOK
<1>. SUFFICES ASSUME Init PROVE TypeOK
    OBVIOUS
<1>1. <<>> \in Seq(Order) /\ Len(<<>>) = 0
    OBVIOUS
<1>2. unsent \in [Strategies -> Seq(Order)]
    <2>1. unsent = [s \in Strategies |-> <<>>]
        BY DEF Init
    <2>. QED BY <1>1, <2>1
<1>3. queue \in Seq(Order) /\ Len(queue) <= QueueCapacity
    BY <1>1, EngineAssumption DEF Init
<1>4. /\ seen \in [Strategies -> Nat] /\ made \in [Strategies -> Nat]
      /\ \A s \in Strategies : seen[s] <= published
    BY DEF Init
<1>. QED BY <1>2, <1>3, <1>4 DEF Init, TypeOK

LEMMA NextTypeOK == TypeOK /\ EngineStep => TypeOK'
<1>. SUFFICES ASSUME TypeOK, EngineStep PROVE TypeOK'
    OBVIOUS
<1>. USE EngineAssumption DEF TypeOK
<1>1. CASE Publish
    <2>1. published' = published + 1
          /\ UNCHANGED <<phase, seen, stopped, made, unsent, queue, signing, inFlight, refused>>
        BY <1>1 DEF Publish, strategyVars, workerVars
    <2>2. published' \in Nat /\ \A s \in Strategies : seen'[s] <= published'
        BY <2>1
    <2>. QED BY <2>1, <2>2 DEF Order
<1>2. ASSUME NEW s \in Strategies, OnEvent(s) PROVE TypeOK'
    <2>1. PICK n \in 0 .. MaxPerEvent :
             /\ made' = [made EXCEPT ![s] = @ + n]
             /\ unsent' = [unsent EXCEPT ![s] =
                   [i \in 1 .. n |-> [from |-> s, number |-> made[s] + i]]]
        BY <1>2 DEF OnEvent
    <2>. DEFINE batch == [i \in 1 .. n |-> [from |-> s, number |-> made[s] + i]]
    <2>2. batch \in Seq(Order)
        <3>1. made[s] \in Nat /\ n \in Nat
            OBVIOUS
        <3>. QED BY <3>1, BatchType
    <2>. HIDE DEF batch
    <2>3. unsent' = [unsent EXCEPT ![s] = batch]
        BY <2>1 DEF batch
    <2>4. unsent' \in [Strategies -> Seq(Order)] /\ made' \in [Strategies -> Nat]
        BY <2>1, <2>2, <2>3
    <2>5. seen' = [seen EXCEPT ![s] = @ + 1] /\ seen[s] < published
          /\ UNCHANGED <<phase, published, stopped, queue, workerVars, refused>>
        BY <1>2 DEF OnEvent
    <2>6. seen' \in [Strategies -> Nat] /\ \A t \in Strategies : seen'[t] <= published'
        BY <2>5
    <2>. QED BY <2>4, <2>5, <2>6 DEF workerVars
<1>3. ASSUME NEW s \in Strategies, StopLagging(s) PROVE TypeOK'
    BY <1>3 DEF StopLagging, workerVars
<1>4. ASSUME NEW s \in Strategies, TrySend(s) PROVE TypeOK'
    <2>1. unsent[s] \in Seq(Order) /\ unsent[s] # <<>>
        BY <1>4 DEF TrySend
    <2>2. Head(unsent[s]) \in Order /\ Tail(unsent[s]) \in Seq(Order)
        BY <2>1, TailType
    <2>3. unsent' = [unsent EXCEPT ![s] = Tail(@)]
          /\ UNCHANGED <<phase, published, seen, stopped, made, workerVars>>
        BY <1>4 DEF TrySend
    <2>4. unsent' \in [Strategies -> Seq(Order)]
        BY <2>2, <2>3
    <2>5. queue' \in Seq(Order) /\ Len(queue') <= QueueCapacity /\ refused' \subseteq Order
        <3>1. CASE QueueIsFull
            BY <1>4, <2>2, <3>1 DEF TrySend
        <3>2. CASE ~QueueIsFull
            <4>1. queue' = Append(queue, Head(unsent[s])) /\ refused' = refused
                BY <1>4, <3>2 DEF TrySend
            <4>. QED BY <2>2, <3>2, <4>1, AppendType DEF QueueIsFull
        <3>. QED BY <3>1, <3>2
    <2>. QED BY <2>3, <2>4, <2>5 DEF workerVars
<1>5. CASE Reject \/ Register
    <2>1. queue # <<>> /\ queue' = Tail(queue)
          /\ UNCHANGED <<phase, published, strategyVars>>
        BY <1>5 DEF Reject, Register, AtQueue
    <2>2. Head(queue) \in Order /\ queue' \in Seq(Order) /\ Len(queue') <= QueueCapacity
        BY <2>1, TailType
    <2>3. refused' \subseteq Order /\ inFlight' \subseteq Order /\ signing' \in BOOLEAN
        BY <1>5, <2>2 DEF Reject, Register, workerVars
    <2>. QED BY <2>1, <2>2, <2>3 DEF strategyVars
<1>6. CASE Signed \/ Signal \/ Return \/ Ended
    BY <1>6 DEF Signed, Signal, Return, Ended, strategyVars, workerVars
<1>7. CASE UNCHANGED vars
    BY <1>7 DEF vars, strategyVars, workerVars
<1>. QED BY <1>1, <1>2, <1>3, <1>4, <1>5, <1>6, <1>7 DEF EngineStep, Next

-------------------------------------------------------------------------------
(* Where the orders are.                                                   *)

\* How many of its orders a strategy has passed to try_send; o is one of those.
Passed(s) == made[s] - Len(unsent[s])
IsPassed(o) == 1 <= o.number /\ o.number <= Passed(o.from)

Done == refused \cup inFlight

\* The orders a strategy has yet to pass on are the last it made, in turn.
UnsentInv ==
    \A s \in Strategies :
        /\ Passed(s) \in Nat
        /\ \A i \in 1 .. Len(unsent[s]) :
              unsent[s][i] = [from |-> s, number |-> Passed(s) + i]

\* An order in the channel is there once, and not done with.
QueueInv ==
    /\ \A i, j \in 1 .. Len(queue) : queue[i] = queue[j] => i = j
    /\ \A i \in 1 .. Len(queue) : queue[i] \notin Done
    /\ refused \cap inFlight = {}

\* The orders passed on, and only those, are in the channel or done with.
PassedInv ==
    /\ \A i \in 1 .. Len(queue) : IsPassed(queue[i])
    /\ \A o \in Done : IsPassed(o)
    /\ \A o \in Order : IsPassed(o) => o \in Done \/ \E i \in 1 .. Len(queue) : queue[i] = o

EngineInv == TypeOK /\ UnsentInv /\ QueueInv /\ PassedInv

\* A strategy makes orders: none is passed on by that.
LEMMA OnEventInv ==
    ASSUME EngineInv, TypeOK', NEW s \in Strategies, OnEvent(s)
    PROVE  EngineInv'
<1>. USE DEF EngineInv
<1>1. PICK n \in 0 .. MaxPerEvent :
         /\ made' = [made EXCEPT ![s] = @ + n]
         /\ unsent' = [unsent EXCEPT ![s] =
               [i \in 1 .. n |-> [from |-> s, number |-> made[s] + i]]]
    BY DEF OnEvent
<1>. DEFINE batch == [i \in 1 .. n |-> [from |-> s, number |-> made[s] + i]]
<1>2. made[s] \in Nat /\ n \in Nat /\ unsent[s] = <<>> /\ Len(<<>>) = 0
    BY EngineAssumption DEF TypeOK, OnEvent, AtRecv
<1>3. Len(batch) = n /\ batch \in Seq(Order)
    BY <1>2, BatchType
<1>4. \A i \in 1 .. n : batch[i] = [from |-> s, number |-> made[s] + i]
    OBVIOUS
<1>. HIDE DEF batch
<1>5. unsent'[s] = batch /\ made'[s] = made[s] + n
      /\ \A t \in Strategies \ {s} : unsent'[t] = unsent[t] /\ made'[t] = made[t]
    BY <1>1 DEF TypeOK, batch
<1>6. \A t \in Strategies : Passed(t)' = Passed(t)
    <2>1. ASSUME NEW t \in Strategies \ {s} PROVE Passed(t)' = Passed(t)
        BY <1>5 DEF Passed
    <2>2. Passed(s)' = Passed(s)
        BY <1>2, <1>3, <1>5 DEF Passed
    <2>. QED BY <2>1, <2>2
<1>7. Passed(s) = made[s]
    BY <1>2 DEF Passed
<1>8. UnsentInv'
    <2>1. ASSUME NEW t \in Strategies
          PROVE  /\ Passed(t)' \in Nat
                 /\ \A i \in 1 .. Len(unsent'[t]) :
                       unsent'[t][i] = [from |-> t, number |-> Passed(t)' + i]
        <3>1. CASE t = s
            BY <1>2, <1>3, <1>4, <1>5, <1>6, <1>7, <3>1
        <3>2. CASE t # s
            BY <1>5, <1>6, <3>2 DEF UnsentInv
        <3>. QED BY <3>1, <3>2
    <2>. QED BY <2>1 DEF UnsentInv
<1>9. UNCHANGED <<queue, refused, inFlight>>
    BY DEF OnEvent, workerVars
<1>10. QueueInv'
    BY <1>9 DEF QueueInv, Done
<1>11. \A o \in Order : IsPassed(o)' <=> IsPassed(o)
    BY <1>6 DEF IsPassed, Order
<1>12. Done' = Done /\ Done \subseteq Order /\ \A i \in 1 .. Len(queue) : queue[i] \in Order
    BY <1>9 DEF Done, TypeOK
<1>13. PassedInv'
    BY <1>9, <1>11, <1>12 DEF PassedInv
<1>. QED BY <1>8, <1>10, <1>13

\* An order is passed on: it is new to the channel and to those done with.
LEMMA TrySendInv ==
    ASSUME EngineInv, TypeOK', NEW s \in Strategies, TrySend(s)
    PROVE  EngineInv'
<1>. USE DEF EngineInv
<1>. DEFINE o == Head(unsent[s])
<1>1. unsent[s] \in Seq(Order) /\ unsent[s] # <<>> /\ made[s] \in Nat
    BY DEF TrySend, TypeOK
<1>2. /\ o \in Order /\ o = unsent[s][1] /\ 1 \in 1 .. Len(unsent[s])
      /\ Len(Tail(unsent[s])) = Len(unsent[s]) - 1 /\ Len(unsent[s]) \in Nat
      /\ \A i \in 1 .. Len(Tail(unsent[s])) :
            i + 1 \in 1 .. Len(unsent[s]) /\ Tail(unsent[s])[i] = unsent[s][i + 1]
    BY <1>1, TailType
<1>3. o = [from |-> s, number |-> Passed(s) + 1] /\ Passed(s) \in Nat
    BY <1>2 DEF UnsentInv
<1>. HIDE DEF o
<1>4. /\ unsent'[s] = Tail(unsent[s]) /\ made' = made
      /\ \A t \in Strategies \ {s} : unsent'[t] = unsent[t]
    BY DEF TrySend, TypeOK
<1>5. Passed(s)' = Passed(s) + 1 /\ \A t \in Strategies \ {s} : Passed(t)' = Passed(t)
    BY <1>1, <1>2, <1>4 DEF Passed
<1>6. UnsentInv'
    <2>1. ASSUME NEW t \in Strategies
          PROVE  /\ Passed(t)' \in Nat
                 /\ \A i \in 1 .. Len(unsent'[t]) :
                       unsent'[t][i] = [from |-> t, number |-> Passed(t)' + i]
        <3>1. CASE t = s
            <4>1. ASSUME NEW i \in 1 .. Len(Tail(unsent[s]))
                  PROVE  Tail(unsent[s])[i] = [from |-> s, number |-> Passed(s)' + i]
                <5>1. i + 1 \in 1 .. Len(unsent[s])
                      /\ Tail(unsent[s])[i] = unsent[s][i + 1]
                    BY <1>2
                <5>2. unsent[s][i + 1] = [from |-> s, number |-> Passed(s) + (i + 1)]
                    BY <5>1 DEF UnsentInv
                <5>3. Passed(s) + (i + 1) = Passed(s)' + i
                    BY <1>2, <1>3, <1>5
                <5>. QED BY <5>1, <5>2, <5>3
            <4>2. Passed(s)' \in Nat
                BY <1>3, <1>5
            <4>. QED BY <1>4, <3>1, <4>1, <4>2
        <3>2. CASE t # s
            BY <1>4, <1>5, <3>2 DEF UnsentInv
        <3>. QED BY <3>1, <3>2
    <2>. QED BY <2>1 DEF UnsentInv
<1>7. \A p \in Order : IsPassed(p)' <=> (IsPassed(p) \/ p = o)
    <2>. SUFFICES ASSUME NEW p \in Order
                  PROVE  IsPassed(p)' <=> (IsPassed(p) \/ p = o)
        OBVIOUS
    <2>1. p.from \in Strategies /\ p.number \in Nat
          /\ p = [from |-> p.from, number |-> p.number]
        BY DEF Order
    <2>2. CASE p.from = s
        <3>1. p = o <=> p.number = Passed(s) + 1
            BY <1>3, <2>1, <2>2
        <3>. QED BY <1>3, <1>5, <2>1, <2>2, <3>1 DEF IsPassed
    <2>3. CASE p.from # s
        <3>1. p # o
            BY <1>3, <2>3
        <3>. QED BY <1>5, <2>1, <2>3, <3>1 DEF IsPassed
    <2>. QED BY <2>2, <2>3
<1>8. ~IsPassed(o)
    BY <1>3 DEF IsPassed
<1>9. /\ Done \subseteq Order /\ queue \in Seq(Order)
      /\ \A i \in 1 .. Len(queue) : queue[i] \in Order
      /\ inFlight' = inFlight
    BY DEF Done, TypeOK, TrySend, workerVars
<1>10. o \notin Done /\ \A i \in 1 .. Len(queue) : queue[i] # o
    BY <1>8 DEF PassedInv
<1>11. CASE QueueIsFull
    <2>1. refused' = refused \cup {o} /\ queue' = queue
        BY <1>11 DEF TrySend, o
    <2>2. Done' = Done \cup {o}
        BY <1>9, <2>1 DEF Done
    <2>3. QueueInv'
        BY <1>9, <1>10, <2>1, <2>2 DEF QueueInv, Done
    <2>4. PassedInv'
        BY <1>2, <1>7, <1>9, <2>1, <2>2 DEF PassedInv
    <2>. QED BY <1>6, <2>3, <2>4
<1>12. CASE ~QueueIsFull
    <2>1. queue' = Append(queue, o) /\ refused' = refused
        BY <1>12 DEF TrySend, o
    <2>. DEFINE k == Len(queue)
    <2>2. /\ k \in Nat /\ Len(queue') = k + 1 /\ queue'[k + 1] = o
          /\ \A i \in 1 .. k : queue'[i] = queue[i]
        BY <1>2, <1>9, <2>1, AppendType
    <2>. HIDE DEF k
    <2>3. Done' = Done
        BY <1>9, <2>1 DEF Done
    <2>4. \A i \in 1 .. k + 1 : i \in 1 .. k \/ i = k + 1
        BY <2>2
    <2>5. QueueInv'
        <3>1. \A i, j \in 1 .. k + 1 : queue'[i] = queue'[j] => i = j
            BY <1>10, <2>2, <2>4 DEF QueueInv, k
        <3>2. \A i \in 1 .. k + 1 : queue'[i] \notin Done'
            BY <1>10, <2>2, <2>3, <2>4 DEF QueueInv, k
        <3>. QED BY <1>9, <2>1, <2>2, <3>1, <3>2 DEF QueueInv
    <2>6. PassedInv'
        <3>1. (\A i \in 1 .. Len(queue) : IsPassed(queue[i]))'
            <4>1. ASSUME NEW i \in 1 .. k + 1
                  PROVE  \E p \in Order : queue'[i] = p /\ IsPassed(p)'
                <5>1. CASE i \in 1 .. k
                    <6>1. queue'[i] = queue[i] /\ queue[i] \in Order /\ IsPassed(queue[i])
                        BY <1>9, <2>2, <5>1 DEF PassedInv, k
                    <6>. QED BY <1>7, <6>1
                <5>2. CASE i = k + 1
                    BY <1>2, <1>7, <2>2, <5>2
                <5>. QED BY <2>4, <5>1, <5>2
            <4>. QED BY <2>2, <4>1 DEF IsPassed, Passed
        <3>2. \A p \in Done : IsPassed(p)'
            BY <1>7, <1>9 DEF PassedInv
        <3>3. ASSUME NEW p \in Order, IsPassed(p)'
              PROVE  p \in Done \/ \E i \in 1 .. k + 1 : queue'[i] = p
            <4>1. 1 .. k \subseteq 1 .. k + 1 /\ k + 1 \in 1 .. k + 1
                BY <2>2
            <4>2. CASE p = o
                BY <2>2, <4>1, <4>2
            <4>3. CASE p # o
                <5>1. p \in Done \/ \E i \in 1 .. k : queue[i] = p
                    BY <1>7, <3>3, <4>3 DEF PassedInv, k
                <5>. QED BY <2>2, <4>1, <5>1
            <4>. QED BY <4>2, <4>3
        <3>. QED BY <2>2, <2>3, <3>1, <3>2, <3>3 DEF PassedInv
    <2>. QED BY <1>6, <2>5, <2>6
<1>. QED BY <1>11, <1>12

\* The worker takes the first order of the channel, to refuse or to register it.
LEMMA TakeInv ==
    ASSUME EngineInv, TypeOK', Reject \/ Register
    PROVE  EngineInv'
<1>. USE DEF EngineInv
<1>. DEFINE o == Head(queue)
            k == Len(Tail(queue))
<1>1. /\ queue \in Seq(Order) /\ queue # <<>> /\ queue' = Tail(queue)
      /\ UNCHANGED <<made, unsent>>
    BY DEF Reject, Register, AtQueue, TypeOK, strategyVars
<1>2. /\ o \in Order /\ o = queue[1] /\ 1 \in 1 .. Len(queue)
      /\ k = Len(queue) - 1 /\ Len(queue) \in Nat /\ Len(queue) >= 1
      /\ \A i \in 1 .. k : i + 1 \in 1 .. Len(queue) /\ Tail(queue)[i] = queue[i + 1]
    BY <1>1, TailType
<1>3. \/ refused' = refused \cup {o} /\ inFlight' = inFlight
      \/ refused' = refused /\ inFlight' = inFlight \cup {o}
    BY DEF Reject, Register, workerVars
<1>. HIDE DEF o, k
<1>4. Len(queue') = k /\ \A i \in 1 .. k : queue'[i] = queue[i + 1]
    BY <1>1, <1>2 DEF k
<1>5. \A i \in 1 .. k : i + 1 # 1 /\ i + 1 \in 1 .. Len(queue)
    BY <1>2
<1>6. \A i \in 1 .. Len(queue) : i = 1 \/ (i - 1 \in 1 .. k /\ (i - 1) + 1 = i)
    BY <1>2
<1>7. Done' = Done \cup {o}
    BY <1>3 DEF Done
<1>8. UnsentInv'
    BY <1>1 DEF UnsentInv, Passed
<1>9. QueueInv'
    <2>1. ASSUME NEW i \in 1 .. k, NEW j \in 1 .. k, queue'[i] = queue'[j]
          PROVE  i = j
        <3>1. queue[i + 1] = queue[j + 1] /\ i + 1 \in 1 .. Len(queue)
              /\ j + 1 \in 1 .. Len(queue)
            BY <1>4, <1>5, <2>1
        <3>2. i + 1 = j + 1
            BY <3>1 DEF QueueInv
        <3>. QED BY <1>2, <3>2
    <2>2. ASSUME NEW i \in 1 .. k PROVE queue'[i] \notin Done'
        <3>1. queue'[i] = queue[i + 1] /\ i + 1 \in 1 .. Len(queue) /\ i + 1 # 1
            BY <1>4, <1>5
        <3>2. queue[i + 1] \notin Done /\ queue[i + 1] # o
            BY <1>2, <3>1 DEF QueueInv
        <3>. QED BY <1>7, <3>1, <3>2
    <2>3. o \notin Done
        BY <1>2 DEF QueueInv
    <2>4. refused' \cap inFlight' = {}
        BY <1>3, <2>3 DEF QueueInv, Done
    <2>. QED BY <1>4, <2>1, <2>2, <2>4 DEF QueueInv
<1>10. PassedInv'
    <2>1. \A p : IsPassed(p)' <=> IsPassed(p)
        BY <1>1 DEF IsPassed, Passed
    <2>2. (\A i \in 1 .. Len(queue) : IsPassed(queue[i]))'
        <3>1. \A i \in 1 .. k : IsPassed(queue[i + 1])
            BY <1>5 DEF PassedInv
        <3>. QED BY <1>1, <1>4, <3>1 DEF IsPassed, Passed
    <2>3. \A p \in Done' : IsPassed(p)'
        BY <1>2, <1>7, <2>1 DEF PassedInv
    <2>4. ASSUME NEW p \in Order, IsPassed(p)
          PROVE  p \in Done' \/ \E i \in 1 .. k : queue'[i] = p
        <3>1. p \in Done \/ \E i \in 1 .. Len(queue) : queue[i] = p
            BY <2>4 DEF PassedInv
        <3>2. ASSUME NEW i \in 1 .. Len(queue), queue[i] = p, i # 1
              PROVE  \E j \in 1 .. k : queue'[j] = p
            <4>1. i - 1 \in 1 .. k /\ (i - 1) + 1 = i
                BY <1>6, <3>2
            <4>2. queue'[i - 1] = queue[i]
                BY <1>4, <4>1
            <4>. QED BY <3>2, <4>1, <4>2
        <3>. QED BY <1>2, <1>7, <3>1, <3>2
    <2>. QED BY <1>4, <2>1, <2>2, <2>3, <2>4 DEF PassedInv
<1>. QED BY <1>8, <1>9, <1>10

LEMMA InitEngineInv == Init => EngineInv
<1>. SUFFICES ASSUME Init PROVE EngineInv
    OBVIOUS
<1>1. \A s \in Strategies : made[s] = 0 /\ unsent[s] = <<>> /\ Len(<<>>) = 0
    BY DEF Init
<1>2. queue = <<>> /\ Len(queue) = 0 /\ Done = {} /\ refused \cap inFlight = {}
    BY DEF Init, Done
<1>3. \A s \in Strategies : Passed(s) = 0 /\ Len(unsent[s]) = 0
    BY <1>1 DEF Passed
<1>4. \A o \in Order : ~IsPassed(o)
    BY <1>3 DEF IsPassed, Order
<1>5. UnsentInv
    BY <1>3 DEF UnsentInv
<1>. QED BY <1>2, <1>4, <1>5, InitTypeOK DEF EngineInv, QueueInv, PassedInv

LEMMA NextEngineInv == EngineInv /\ EngineStep => EngineInv'
<1>. SUFFICES ASSUME EngineInv, EngineStep PROVE EngineInv'
    OBVIOUS
<1>1. TypeOK'
    BY NextTypeOK DEF EngineInv
<1>2. CASE UNCHANGED <<made, unsent, queue, refused, inFlight>>
    <2>1. UnsentInv'
        BY <1>2 DEF EngineInv, UnsentInv, Passed
    <2>2. QueueInv' /\ PassedInv'
        BY <1>2 DEF EngineInv, QueueInv, PassedInv, Done, IsPassed, Passed
    <2>. QED BY <1>1, <2>1, <2>2 DEF EngineInv
<1>3. ASSUME NEW s \in Strategies, OnEvent(s) \/ TrySend(s) PROVE EngineInv'
    BY <1>1, <1>3, OnEventInv, TrySendInv
<1>4. CASE Reject \/ Register
    BY <1>1, <1>4, TakeInv
<1>. QED
    BY <1>2, <1>3, <1>4
    DEF EngineStep, Ended, Next, Publish, StopLagging, Signed, Signal, Return, vars,
        strategyVars, workerVars

-------------------------------------------------------------------------------
(* From the invariant to the count of places.                              *)

LEMMA CountOfAtMostOne ==
    ASSUME NEW X, \A x, y \in X : x = y
    PROVE  /\ X = {} => Cardinality(X) = 0
           /\ X # {} => Cardinality(X) = 1
<1>1. X = {} => Cardinality(X) = 0
    BY FS_EmptySet
<1>2. ASSUME X # {} PROVE Cardinality(X) = 1
    <2>1. PICK x \in X : X = {x}
        BY <1>2
    <2>. QED BY <2>1, FS_Singleton
<1>. QED BY <1>1, <1>2

LEMMA EngineInvAccounts == EngineInv => OrdersAreAccountedFor
<1>. SUFFICES ASSUME EngineInv, NEW s \in Strategies, NEW n \in 1 .. MaxEvents * MaxPerEvent
              PROVE  LET IsIt(o) == o.from = s /\ o.number = n
                         places == Cardinality({i \in DOMAIN unsent[s] : IsIt(unsent[s][i])})
                                   + Cardinality({i \in DOMAIN queue : IsIt(queue[i])})
                                   + Cardinality({o \in refused : IsIt(o)})
                                   + Cardinality({o \in inFlight : IsIt(o)})
                     IN  places = IF n <= made[s] THEN 1 ELSE 0
    BY DEF OrdersAreAccountedFor
<1>. USE DEF EngineInv
<1>. DEFINE order == [from |-> s, number |-> n]
            u == {i \in DOMAIN unsent[s] : unsent[s][i].from = s /\ unsent[s][i].number = n}
            q == {i \in DOMAIN queue : queue[i].from = s /\ queue[i].number = n}
            r == {o \in refused : o.from = s /\ o.number = n}
            f == {o \in inFlight : o.from = s /\ o.number = n}
<1>1. n \in Nat /\ n >= 1 /\ order \in Order
    BY EngineAssumption DEF Order
<1>2. \A o \in Order : o.from = s /\ o.number = n <=> o = order
    BY DEF Order
<1>3. /\ DOMAIN unsent[s] = 1 .. Len(unsent[s]) /\ DOMAIN queue = 1 .. Len(queue)
      /\ Len(unsent[s]) \in Nat /\ Passed(s) \in Nat /\ made[s] \in Nat
      /\ made[s] = Passed(s) + Len(unsent[s])
    BY DEF TypeOK, UnsentInv, Passed
<1>4. /\ \A i \in DOMAIN unsent[s] : i \in u <=> Passed(s) + i = n
      /\ \A i, j \in u : i = j
      /\ u # {} <=> Passed(s) < n /\ n <= made[s]
    <2>1. \A i \in 1 .. Len(unsent[s]) :
              unsent[s][i].from = s /\ unsent[s][i].number = Passed(s) + i
        <3>1. \A i \in 1 .. Len(unsent[s]) :
                  unsent[s][i] = [from |-> s, number |-> Passed(s) + i]
            BY DEF UnsentInv
        <3>2. ASSUME NEW x, NEW m, x = [from |-> s, number |-> m]
              PROVE  x.from = s /\ x.number = m
            BY <3>2
        <3>. QED BY <3>1, <3>2, Zenon
    <2>2. \A i \in DOMAIN unsent[s] : i \in u <=> Passed(s) + i = n
        BY <1>3, <2>1
    <2>3. \A i, j \in u : i = j
        BY <1>1, <1>3, <2>2
    <2>4. ASSUME Passed(s) < n, n <= made[s] PROVE n - Passed(s) \in u
        <3>1. n - Passed(s) \in 1 .. Len(unsent[s]) /\ Passed(s) + (n - Passed(s)) = n
            BY <1>1, <1>3, <2>4
        <3>. QED BY <1>3, <2>2, <3>1
    <2>5. ASSUME NEW i \in u PROVE Passed(s) < n /\ n <= made[s]
        <3>1. i \in 1 .. Len(unsent[s]) /\ Passed(s) + i = n
            BY <1>3, <2>2
        <3>. QED BY <1>3, <3>1
    <2>. HIDE DEF u
    <2>. QED BY <2>2, <2>3, <2>4, <2>5
<1>5. /\ \A i \in 1 .. Len(queue) : i \in q <=> queue[i] = order
      /\ \A i, j \in q : i = j
      /\ q \subseteq 1 .. Len(queue)
    <2>1. \A i \in 1 .. Len(queue) : queue[i] \in Order
        BY DEF TypeOK
    <2>2. \A i \in 1 .. Len(queue) : i \in q <=> queue[i] = order
        BY <1>2, <1>3, <2>1
    <2>3. q \subseteq 1 .. Len(queue)
        BY <1>3
    <2>. HIDE DEF q, order
    <2>. QED BY <2>2, <2>3 DEF QueueInv
<1>6. /\ r # {} <=> order \in refused
      /\ f # {} <=> order \in inFlight
      /\ \A x, y \in r : x = y
      /\ \A x, y \in f : x = y
    <2>1. refused \subseteq Order /\ inFlight \subseteq Order
        BY DEF TypeOK
    <2>2. \A x \in r : x = order
        BY <1>2, <2>1
    <2>3. \A x \in f : x = order
        BY <1>2, <2>1
    <2>4. (order \in refused => order \in r) /\ (order \in inFlight => order \in f)
        OBVIOUS
    <2>5. r \subseteq refused /\ f \subseteq inFlight
        OBVIOUS
    <2>. HIDE DEF r, f, order
    <2>. QED BY <2>2, <2>3, <2>4, <2>5
<1>7. IsPassed(order) <=> n <= Passed(s)
    BY <1>1 DEF IsPassed
<1>8. /\ ~(r # {} /\ f # {})
      /\ q # {} => r = {} /\ f = {}
      /\ (q # {} \/ r # {} \/ f # {}) <=> IsPassed(order)
    <2>. HIDE DEF q, r, f, order
    <2>1. ~(order \in refused /\ order \in inFlight)
        BY DEF QueueInv
    <2>2. q # {} => order \notin refused /\ order \notin inFlight
        <3>1. \A i \in 1 .. Len(queue) : queue[i] \notin refused /\ queue[i] \notin inFlight
            BY DEF QueueInv, Done
        <3>. QED BY <1>5, <3>1
    <2>3. IsPassed(order) <=>
              \/ order \in refused \/ order \in inFlight
              \/ \E i \in 1 .. Len(queue) : queue[i] = order
        BY <1>1 DEF PassedInv, Done
    <2>4. q # {} <=> \E i \in 1 .. Len(queue) : queue[i] = order
        BY <1>5
    <2>. QED BY <1>6, <2>1, <2>2, <2>3, <2>4
<1>9. /\ u = {} => Cardinality(u) = 0
      /\ u # {} => Cardinality(u) = 1
      /\ q = {} => Cardinality(q) = 0
      /\ q # {} => Cardinality(q) = 1
      /\ r = {} => Cardinality(r) = 0
      /\ r # {} => Cardinality(r) = 1
      /\ f = {} => Cardinality(f) = 0
      /\ f # {} => Cardinality(f) = 1
    <2>. HIDE DEF u, q, r, f
    <2>1. /\ u = {} => Cardinality(u) = 0
          /\ u # {} => Cardinality(u) = 1
        BY <1>4, CountOfAtMostOne
    <2>2. /\ q = {} => Cardinality(q) = 0
          /\ q # {} => Cardinality(q) = 1
        BY <1>5, CountOfAtMostOne
    <2>3. /\ r = {} => Cardinality(r) = 0
          /\ r # {} => Cardinality(r) = 1
        BY <1>6, CountOfAtMostOne
    <2>4. /\ f = {} => Cardinality(f) = 0
          /\ f # {} => Cardinality(f) = 1
        BY <1>6, CountOfAtMostOne
    <2>. QED BY <2>1, <2>2, <2>3, <2>4
<1>10. Cardinality(u) + Cardinality(q) + Cardinality(r) + Cardinality(f)
           = IF n <= made[s] THEN 1 ELSE 0
    <2>. HIDE DEF u, q, r, f, order
    <2>1. u # {} <=> Passed(s) < n /\ n <= made[s]
        BY <1>4
    <2>2. Passed(s) <= made[s]
        BY <1>3
    <2>. QED BY <1>1, <1>3, <1>7, <1>8, <1>9, <2>1, <2>2
<1>. QED BY <1>10

-------------------------------------------------------------------------------
(* The order in which the orders of a strategy are registered.             *)

\* In the channel, and from the registered ones to the channel, the orders of a
\* strategy are in the order it made them.
OrderlyInv ==
    /\ \A i, j \in 1 .. Len(queue) :
          i < j /\ queue[i].from = queue[j].from => queue[i].number < queue[j].number
    /\ \A i \in 1 .. Len(queue), o \in inFlight :
          o.from = queue[i].from => o.number < queue[i].number

\* The next order of a strategy comes after all that it has passed on.
LEMMA NextUnsent ==
    ASSUME EngineInv, NEW s \in Strategies, unsent[s] # <<>>
    PROVE  /\ Head(unsent[s]) = [from |-> s, number |-> Passed(s) + 1]
           /\ Head(unsent[s]) \in Order
           /\ Passed(s) \in Nat
           /\ Passed(s) + 1 <= made[s]
           /\ Head(unsent[s]) \notin Done
<1>. USE DEF EngineInv
<1>1. unsent[s] \in Seq(Order) /\ made[s] \in Nat
    BY DEF TypeOK
<1>2. /\ Head(unsent[s]) \in Order /\ Head(unsent[s]) = unsent[s][1]
      /\ 1 \in 1 .. Len(unsent[s]) /\ Len(unsent[s]) \in Nat /\ Len(unsent[s]) >= 1
    BY <1>1, TailType
<1>3. Head(unsent[s]) = [from |-> s, number |-> Passed(s) + 1] /\ Passed(s) \in Nat
    BY <1>2 DEF UnsentInv
<1>4. Passed(s) + 1 <= made[s]
    BY <1>1, <1>2, <1>3 DEF Passed
<1>5. ~IsPassed(Head(unsent[s]))
    BY <1>3 DEF IsPassed
<1>6. Head(unsent[s]) \notin Done
    BY <1>5 DEF PassedInv
<1>. QED BY <1>2, <1>3, <1>4, <1>6

\* An order in the channel is one that was made and has met no fate.
LEMMA NextQueued ==
    ASSUME EngineInv, queue # <<>>
    PROVE  /\ Head(queue) \in Order
           /\ Head(queue) = queue[1]
           /\ Head(queue) = [from |-> Head(queue).from, number |-> Head(queue).number]
           /\ Head(queue).from \in Strategies
           /\ Head(queue).number \in 1 .. made[Head(queue).from]
           /\ Head(queue) \notin Done
<1>. USE DEF EngineInv
<1>. DEFINE o == Head(queue)
<1>1. o \in Order /\ o = queue[1] /\ 1 \in 1 .. Len(queue)
    BY TailType DEF TypeOK
<1>2. IsPassed(o) /\ o \notin Done
    BY <1>1 DEF PassedInv, QueueInv
<1>. HIDE DEF o
<1>3. /\ o.from \in Strategies /\ o.number \in Nat
      /\ o = [from |-> o.from, number |-> o.number]
    BY <1>1 DEF Order
<1>4. made[o.from] \in Nat /\ Len(unsent[o.from]) \in Nat
    BY <1>3 DEF TypeOK
<1>5. o.number \in 1 .. made[o.from]
    BY <1>2, <1>3, <1>4 DEF IsPassed, Passed
<1>. QED BY <1>1, <1>2, <1>3, <1>5 DEF o

LEMMA NextOrderlyInv ==
    ASSUME EngineInv, TypeOK', OrderlyInv, EngineStep
    PROVE  OrderlyInv'
<1>1. /\ queue \in Seq(Order) /\ inFlight \subseteq Order /\ Len(queue) \in Nat
      /\ \A i \in 1 .. Len(queue) : queue[i] \in Order
    BY DEF EngineInv, TypeOK
<1>2. CASE UNCHANGED <<queue, inFlight>>
    BY <1>2 DEF OrderlyInv
<1>3. ASSUME NEW s \in Strategies, TrySend(s), ~QueueIsFull PROVE OrderlyInv'
    <2>. DEFINE o == Head(unsent[s])
                k == Len(queue)
    <2>1. /\ o = [from |-> s, number |-> Passed(s) + 1] /\ o \in Order /\ Passed(s) \in Nat
        BY <1>3, NextUnsent DEF TrySend
    <2>2. queue' = Append(queue, o) /\ inFlight' = inFlight
        BY <1>3 DEF TrySend, workerVars
    <2>. HIDE DEF o
    <2>3. /\ k \in Nat /\ Len(queue') = k + 1 /\ queue'[k + 1] = o
          /\ \A i \in 1 .. k : queue'[i] = queue[i]
        BY <1>1, <2>1, <2>2, AppendType
    <2>4. \A p \in Order : IsPassed(p) /\ p.from = o.from => p.number < o.number
        BY <2>1 DEF IsPassed, Order
    <2>5. /\ \A i \in 1 .. k : queue[i].from = o.from => queue[i].number < o.number
          /\ \A p \in inFlight : p.from = o.from => p.number < o.number
        BY <1>1, <2>4 DEF EngineInv, PassedInv, Done
    <2>. HIDE DEF k
    <2>6. ASSUME NEW i \in 1 .. k + 1, NEW j \in 1 .. k + 1, i < j,
                 queue'[i].from = queue'[j].from
          PROVE  queue'[i].number < queue'[j].number
        <3>1. i \in 1 .. k /\ queue'[i] = queue[i]
            BY <2>3, <2>6
        <3>2. CASE j = k + 1
            BY <2>3, <2>5, <2>6, <3>1, <3>2
        <3>3. CASE j # k + 1
            <4>1. j \in 1 .. k /\ queue'[j] = queue[j]
                BY <2>3, <3>3
            <4>. QED BY <2>6, <3>1, <4>1 DEF OrderlyInv, k
        <3>. QED BY <3>2, <3>3
    <2>7. ASSUME NEW i \in 1 .. k + 1, NEW p \in inFlight, p.from = queue'[i].from
          PROVE  p.number < queue'[i].number
        <3>1. CASE i = k + 1
            BY <2>3, <2>5, <2>7, <3>1
        <3>2. CASE i # k + 1
            <4>1. i \in 1 .. k /\ queue'[i] = queue[i]
                BY <2>3, <3>2
            <4>. QED BY <2>7, <4>1 DEF OrderlyInv, k
        <3>. QED BY <3>1, <3>2
    <2>. QED BY <2>2, <2>3, <2>6, <2>7 DEF OrderlyInv
<1>4. CASE Reject \/ Register
    <2>. DEFINE o == Head(queue)
                k == Len(Tail(queue))
    <2>1. queue # <<>> /\ queue' = Tail(queue) /\ inFlight' \subseteq inFlight \cup {o}
        BY <1>4 DEF Reject, Register, AtQueue, workerVars
    <2>2. /\ o = queue[1] /\ 1 \in 1 .. Len(queue)
          /\ \A i \in 1 .. k : i + 1 \in 1 .. Len(queue) /\ queue'[i] = queue[i + 1]
        BY <1>1, <2>1, TailType
    <2>. HIDE DEF o, k
    <2>3. ASSUME NEW i \in 1 .. k, NEW j \in 1 .. k, i < j,
                 queue'[i].from = queue'[j].from
          PROVE  queue'[i].number < queue'[j].number
        <3>1. /\ i + 1 \in 1 .. Len(queue) /\ j + 1 \in 1 .. Len(queue) /\ i + 1 < j + 1
              /\ queue'[i] = queue[i + 1] /\ queue'[j] = queue[j + 1]
            BY <2>2, <2>3
        <3>. QED BY <2>3, <3>1 DEF OrderlyInv
    <2>4. ASSUME NEW i \in 1 .. k, NEW p \in inFlight', p.from = queue'[i].from
          PROVE  p.number < queue'[i].number
        <3>1. i + 1 \in 1 .. Len(queue) /\ 1 < i + 1 /\ queue'[i] = queue[i + 1]
            BY <2>2
        <3>2. CASE p = o
            BY <2>2, <2>4, <3>1, <3>2 DEF OrderlyInv
        <3>3. CASE p # o
            <4>1. p \in inFlight
                BY <2>1, <3>3
            <4>. QED BY <2>4, <3>1, <4>1 DEF OrderlyInv
        <3>. QED BY <3>2, <3>3
    <2>. QED BY <2>1, <2>3, <2>4 DEF OrderlyInv, k
<1>5. ASSUME NEW s \in Strategies, TrySend(s), QueueIsFull PROVE OrderlyInv'
    <2>1. UNCHANGED <<queue, inFlight>>
        BY <1>5 DEF TrySend, workerVars
    <2>. QED BY <1>2, <2>1
<1>. QED
    BY <1>2, <1>3, <1>4, <1>5
    DEF EngineStep, Ended, Next, Publish, OnEvent, StopLagging, Signed, Signal, Return,
        vars, strategyVars, workerVars

\* Every step of the engine is one that OrderFates allows, or none.
LEMMA StepImplementsOrderFates ==
    ASSUME EngineInv, TypeOK', OrderlyInv, EngineStep
    PROVE  [Fates!Next]_(Fates!vars)
<1>. USE DEF Fates!Next, Fates!vars
<1>1. CASE UNCHANGED <<made, refused, inFlight>> /\ (phase = "returned" => phase' = "returned")
    BY <1>1 DEF Fates!End
<1>2. ASSUME NEW s \in Strategies, OnEvent(s) PROVE [Fates!Next]_(Fates!vars)
    <2>1. PICK n \in 0 .. MaxPerEvent : made' = [made EXCEPT ![s] = @ + n]
        BY <1>2 DEF OnEvent
    <2>2. /\ made \in [Strategies -> Nat] /\ n \in Nat
          /\ UNCHANGED <<phase, refused, inFlight>> /\ phase # "returned"
        BY <1>2, EngineAssumption DEF OnEvent, AtRecv, Running, EngineInv, TypeOK, workerVars
    <2>3. CASE n = 0
        <3>1. made' = made
            BY <2>1, <2>2, <2>3
        <3>. QED BY <1>1, <2>2, <3>1
    <2>4. CASE n # 0
        <3>1. made'[s] = made[s] + n /\ made[s] \in Nat
            BY <2>1, <2>2
        <3>2. Fates!Make(s)
            BY <2>1, <2>2, <2>4, <3>1 DEF Fates!Make
        <3>. QED BY <3>2
    <2>. QED BY <2>3, <2>4
<1>3. ASSUME NEW o, o \in Order, o = [from |-> o.from, number |-> o.number],
             o.number \in 1 .. made[o.from], o \notin Done, phase # "returned",
             UNCHANGED <<made, phase>>,
             \/ refused' = refused \cup {o} /\ inFlight' = inFlight
             \/ /\ refused' = refused /\ inFlight' = inFlight \cup {o}
                /\ \A p \in inFlight : p.from = o.from => p.number < o.number
      PROVE  [Fates!Next]_(Fates!vars)
    <2>1. o.from \in Strategies
        BY <1>3 DEF Order
    <2>2. Fates!Pending(o)
        BY <1>3 DEF Fates!Pending, Done
    <2>3. Fates!Refuse(o) \/ Fates!Register(o)
        BY <1>3, <2>2 DEF Fates!Refuse, Fates!Register
    <2>. QED BY <1>3, <2>1, <2>3
<1>4. ASSUME NEW s \in Strategies, TrySend(s) PROVE [Fates!Next]_(Fates!vars)
    <2>. DEFINE o == Head(unsent[s])
    <2>1. unsent[s] # <<>> /\ UNCHANGED <<phase, made, inFlight>> /\ phase # "returned"
        BY <1>4 DEF TrySend, Running, workerVars
    <2>2. CASE QueueIsFull
        <3>1. refused' = refused \cup {o}
            BY <1>4, <2>2 DEF TrySend
        <3>2. /\ o = [from |-> s, number |-> Passed(s) + 1] /\ o \in Order
              /\ Passed(s) \in Nat /\ Passed(s) + 1 <= made[s] /\ o \notin Done
              /\ made[s] \in Nat
            BY <2>1, NextUnsent DEF EngineInv, TypeOK
        <3>. HIDE DEF o
        <3>3. o.from = s /\ o.number = Passed(s) + 1
            BY <3>2
        <3>4. o.number \in 1 .. made[o.from] /\ o = [from |-> o.from, number |-> o.number]
            BY <3>2, <3>3
        <3>. QED BY <1>3, <2>1, <3>1, <3>2, <3>4
    <2>3. CASE ~QueueIsFull
        BY <1>1, <1>4, <2>1, <2>3 DEF TrySend
    <2>. QED BY <2>2, <2>3
<1>5. CASE Reject \/ Register
    <2>. DEFINE o == Head(queue)
    <2>1. queue # <<>> /\ UNCHANGED <<phase, made>> /\ phase # "returned"
        BY <1>5 DEF Reject, Register, AtQueue, Running, strategyVars
    <2>2. \/ refused' = refused \cup {o} /\ inFlight' = inFlight
          \/ refused' = refused /\ inFlight' = inFlight \cup {o}
        BY <1>5 DEF Reject, Register, workerVars
    <2>3. /\ o \in Order /\ o = queue[1]
          /\ o = [from |-> o.from, number |-> o.number]
          /\ o.number \in 1 .. made[o.from] /\ o \notin Done
        BY <2>1, NextQueued
    <2>4. 1 \in 1 .. Len(queue)
        BY <2>1, TailType DEF EngineInv, TypeOK
    <2>. HIDE DEF o
    <2>5. \A p \in inFlight : p.from = o.from => p.number < o.number
        BY <2>3, <2>4 DEF OrderlyInv
    <2>. QED BY <1>3, <2>1, <2>2, <2>3, <2>5
<1>6. CASE Ended
    BY <1>1, <1>6 DEF Ended, Fates!End, strategyVars, workerVars
<1>7. CASE Publish \/ Signed \/ Signal \/ Return \/ UNCHANGED vars
           \/ \E s \in Strategies : StopLagging(s)
    BY <1>1, <1>7
    DEF Publish, Signed, Signal, Return, StopLagging, Running, vars, strategyVars, workerVars
<1>. QED BY <1>2, <1>4, <1>5, <1>6, <1>7 DEF EngineStep, Next

-------------------------------------------------------------------------------
(* The theorems.                                                           *)

LEMMA EngineInvariant == ProcessSpec => []EngineInv
<1>1. ProcessInit => EngineInv
    BY InitEngineInv DEF ProcessInit
<1>2. EngineInv /\ [ProcessNext]_processVars => EngineInv'
    BY NextEngineInv, ProcessStepIsEngineStep
<1>. QED BY <1>1, <1>2, PTL DEF ProcessSpec

\* Types are right for every set of strategies, capacity and setting, and the
\* channel never outgrows its capacity (run, from_env).
THEOREM ProcessTypeCorrect == ProcessSpec => []ProcessTypeOK
<1>1. ProcessInit /\ TypeOK => ProcessTypeOK
    BY StartupAssumption DEF ProcessInit, ProcessTypeOK
<1>2. ProcessTypeOK /\ TypeOK' /\ [ProcessNext]_processVars => ProcessTypeOK'
    <2>. SUFFICES ASSUME ProcessTypeOK, TypeOK', [ProcessNext]_processVars
                  PROVE  ProcessTypeOK'
        OBVIOUS
    <2>. USE DEF ProcessTypeOK
    <2>1. CASE LoadDotenv
        <3>1. given.shell \in [Variables -> Values] /\ given.file \in [Variables -> Values]
            BY StartupAssumption
        <3>2. env' \in [Variables -> Values]
            BY <2>1, <3>1 DEF LoadDotenv, Hydrated
        <3>. QED BY <2>1, <3>2 DEF LoadDotenv
    <2>2. CASE LoadConfig
        <3>1. /\ Prefix(env) \in {"PROD", "TESTNET"} /\ Prefix(env) \in Variables
              /\ "METRICS_PORT" \in Variables /\ "OPTION" \in Variables
            BY DEF Prefix, Variables
        <3>2. /\ OrDefault(env["METRICS_PORT"]) \in Values \cup {"default"}
              /\ OrDefault(env["OPTION"]) \in Values \cup {"default"}
              /\ env[Prefix(env)] \in Values
            BY <3>1 DEF OrDefault
        <3>3. CASE FromEnvFails
            BY <2>2, <3>3 DEF LoadConfig
        <3>4. CASE ~FromEnvFails
            <4>1. env[Prefix(env)] \in Values \ {"unset"}
                BY <3>2, <3>4 DEF FromEnvFails
            <4>. QED BY <2>2, <3>1, <3>2, <3>4, <4>1 DEF LoadConfig
        <3>. QED BY <3>3, <3>4
    <2>3. CASE UNCHANGED <<given, env, config>>
        BY <2>3
        DEF ProcessNext, processVars, startupVars, LoadDotenv, LoadConfig, InitTelemetry,
            ExporterFails, StartExporter, StartEngine, InstallHandlers, InstallFails,
            Kill, Goodbye, Strategy, Feed, Worker, Shutdown
    <2>. QED BY <2>1, <2>2, <2>3
             DEF ProcessNext, processVars, startupVars, InitTelemetry, ExporterFails,
                 StartExporter, StartEngine, InstallHandlers, InstallFails, Kill,
                 Goodbye, Strategy, Feed, Worker, Shutdown
<1>3. EngineInv => TypeOK
    BY DEF EngineInv
<1>. QED BY <1>1, <1>2, <1>3, EngineInvariant, PTL DEF ProcessSpec

\* However many strategies there are and however large the channel is, each order
\* is in one place and in one only, until the process ends and after (run).
THEOREM OrdersAlwaysAccountedFor == ProcessSpec => []OrdersAreAccountedFor
    BY EngineInvariant, EngineInvAccounts, PTL

\* For every setting, set of strategies and capacity the engine keeps what
\* OrderFates promises: a strategy's orders are registered in the order made, with
\* those refused left out, none is decided on twice, and none after the process has
\* ended (run).
THEOREM EngineImplementsOrderFates == ProcessSpec => ImplementsOrderFates
<1>1. ProcessInit => Fates!Init /\ OrderlyInv
    <2>1. ASSUME Init PROVE queue = <<>> /\ Len(queue) = 0
        BY <2>1 DEF Init
    <2>. QED BY <2>1 DEF ProcessInit, Init, Fates!Init, OrderlyInv
<1>2. EngineInv /\ TypeOK' /\ OrderlyInv /\ [ProcessNext]_processVars => OrderlyInv'
    BY ProcessStepIsEngineStep, NextOrderlyInv
<1>3. EngineInv /\ TypeOK' /\ OrderlyInv /\ [ProcessNext]_processVars
          => [Fates!Next]_(Fates!vars)
    BY ProcessStepIsEngineStep, StepImplementsOrderFates
<1>4. EngineInv => TypeOK
    BY DEF EngineInv
<1>. QED BY <1>1, <1>2, <1>3, <1>4, EngineInvariant, PTL
         DEF ProcessSpec, ImplementsOrderFates, Fates!Spec

\* The process has its configuration, and from where it should.
Configured ==
    /\ env = Hydrated
    /\ env[Prefix(env)] # "unset"
    /\ config # <<>>
    /\ config.credentials = env[Prefix(env)]

StartupInv ==
    /\ stage = "config" => env = Hydrated
    /\ (stage \notin {"dotenv", "config", "failed", "killed"} \/ published > 0) => Configured

LEMMA NextStartupInv == StartupInv /\ [ProcessNext]_processVars => StartupInv'
<1>. SUFFICES ASSUME StartupInv, [ProcessNext]_processVars PROVE StartupInv'
    OBVIOUS
<1>1. CASE LoadDotenv
    <2>1. env' = Hydrated /\ Hydrated' = Hydrated /\ stage' = "config"
          /\ published' = published /\ config' = config
        BY <1>1 DEF LoadDotenv, Hydrated, vars
    <2>2. published > 0 => env' = env
        BY <2>1 DEF StartupInv, Configured
    <2>3. published > 0 => Configured'
        BY <2>1, <2>2 DEF StartupInv, Configured
    <2>. QED BY <2>1, <2>3 DEF StartupInv
<1>2. CASE LoadConfig
    <2>1. env' = env /\ env = Hydrated /\ Hydrated' = Hydrated /\ published' = published
        BY <1>2 DEF LoadConfig, Hydrated, vars, StartupInv
    <2>2. CASE FromEnvFails
        BY <1>2, <2>1, <2>2 DEF LoadConfig, StartupInv, Configured
    <2>3. CASE ~FromEnvFails
        BY <1>2, <2>1, <2>3 DEF LoadConfig, FromEnvFails, StartupInv, Configured
    <2>. QED BY <2>2, <2>3
<1>3. CASE UNCHANGED <<given, env, config>>
    <2>1. Configured' <=> Configured
        BY <1>3 DEF Configured, Hydrated, Prefix
    <2>2. CASE UNCHANGED <<stage, published>>
        BY <1>3, <2>1, <2>2 DEF StartupInv, Hydrated
    <2>3. CASE InitTelemetry \/ ExporterFails \/ StartExporter \/ StartEngine
               \/ InstallHandlers \/ InstallFails \/ Kill \/ Goodbye
        BY <2>1, <2>3
        DEF InitTelemetry, ExporterFails, StartExporter, StartEngine, InstallHandlers,
            InstallFails, Kill, Goodbye, vars, StartupInv
    <2>4. CASE \/ \E s \in Strategies : Strategy(s)
               \/ Feed \/ Worker \/ Shutdown
        <3>1. stage' = stage /\ stage \in {"spawned", "handling"}
            BY <2>4 DEF Strategy, Feed, Worker, Shutdown, Spawned, startupVars
        <3>. QED BY <2>1, <3>1 DEF StartupInv
    <2>. QED BY <1>1, <1>2, <2>2, <2>3, <2>4
             DEF ProcessNext, processVars, vars, startupVars
<1>. QED BY <1>1, <1>2, <1>3
         DEF ProcessNext, processVars, startupVars, InitTelemetry, ExporterFails,
             StartExporter, StartEngine, InstallHandlers, InstallFails, Kill, Goodbye,
             Strategy, Feed, Worker, Shutdown

\* No process trades, and no exporter listens, on anything but the credentials of
\* the environment that the operator named, whatever shell and file hold (main,
\* from_env).
THEOREM AlwaysTradesAsTheOperatorSays == ProcessSpec => []TradesAsTheOperatorSays
<1>1. ProcessInit => StartupInv
    BY DEF ProcessInit, Init, StartupInv
<1>2. ProcessTypeOK /\ StartupInv => TradesAsTheOperatorSays
    <2>. SUFFICES ASSUME ProcessTypeOK, Configured
                  PROVE  LET Said(v, value) ==
                                 \/ given.shell[v] = value
                                 \/ given.shell[v] = "unset" /\ given.file[v] = value
                             named == IF Said("APP_ENV", "production") THEN "PROD" ELSE "TESTNET"
                         IN  /\ config # <<>>
                             /\ config.credentials # "unset"
                             /\ Said(named, config.credentials)
        BY DEF StartupInv, TradesAsTheOperatorSays
    <2>1. \A v \in Variables : env[v] = IF given.shell[v] = "unset" THEN given.file[v]
                                        ELSE given.shell[v]
        BY DEF Configured, Hydrated
    <2>2. "APP_ENV" \in Variables /\ "PROD" \in Variables /\ "TESTNET" \in Variables
        BY DEF Variables
    <2>3. env["APP_ENV"] = "production" <=>
              \/ given.shell["APP_ENV"] = "production"
              \/ given.shell["APP_ENV"] = "unset" /\ given.file["APP_ENV"] = "production"
        BY <2>1, <2>2
    <2>4. /\ config # <<>> /\ config.credentials # "unset"
          /\ config.credentials = env[Prefix(env)]
        BY DEF Configured
    <2>. QED BY <2>1, <2>2, <2>3, <2>4 DEF Prefix
<1>. QED BY <1>1, <1>2, NextStartupInv, ProcessTypeCorrect, PTL DEF ProcessSpec
===============================================================================
