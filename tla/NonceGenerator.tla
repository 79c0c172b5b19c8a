--------------------------- MODULE NonceGenerator ----------------------------
(***************************************************************************)
(* NonceGenerator::next (src/order_manager/nonce.rs), called by any number *)
(* of tasks at once.  A call reads the system clock, raises the shared     *)
(* counter to it and increments the counter: three steps, between which    *)
(* other calls run and the system clock moves, in either direction.  The   *)
(* u64 counter of microseconds does not wrap before the year 586,000.      *)
(***************************************************************************)
EXTENDS Naturals

CONSTANTS Callers,
          MaxWall,     \* bound: the system clock
          MaxCounter,  \* bound: no call starts at or above this counter
          MaxRestarts  \* bound: restarts of the process

ASSUME NonceAssumption ==
    /\ MaxWall \in Nat
    /\ MaxCounter \in Nat
    /\ MaxRestarts \in Nat

VARIABLES wall,      \* the system clock
          counter,
          call,      \* what each task's call has read so far
          issued,    \* history: the last nonce this process returned
          accepted,  \* history: the last nonce the exchange was sent
          burst,     \* history: the nonces this process has drawn beyond one
                     \* per tick of the clock
          setBack,   \* history: the system clock has once moved backwards
          hasty,     \* history: a process has once started before the clock had
                     \* caught up with the burst of the process before it
          restarts

clockVars == <<wall, burst, setBack>>
processVars == <<hasty, restarts>>
nonceVars == <<counter, call, issued, accepted, clockVars, processVars>>

Idle == [step |-> "idle", wall |-> 0, prev |-> 0]
Call == [step : {"idle", "read", "raised"}, wall : Nat, prev : Nat]

MaxOf(a, b) == IF a >= b THEN a ELSE b

\* NonceGenerator::new: seeded with the system clock.
NonceInit ==
    /\ wall \in 0 .. MaxWall
    /\ counter = wall
    /\ call = [t \in Callers |-> Idle]
    /\ issued = 0
    /\ accepted = 0
    /\ burst = 0
    /\ setBack = FALSE
    /\ hasty = FALSE
    /\ restarts = 0

\* let wall = epoch_micros()
ReadClock(t) ==
    /\ call[t].step = "idle"
    /\ counter < MaxCounter
    /\ call' = [call EXCEPT ![t] = [step |-> "read", wall |-> wall, prev |-> 0]]
    /\ UNCHANGED <<counter, issued, accepted, clockVars, processVars>>

\* Mutant: the counter is set to the clock even when it is ahead of it.
StoreWall(t) ==
    /\ call[t].step = "read"
    /\ call' = [call EXCEPT ![t].step = "raised", ![t].prev = counter]
    /\ counter' = call[t].wall
    /\ UNCHANGED <<issued, accepted, clockVars, processVars>>

\* Mutant: the counter is not re-anchored to the clock.
LoadCounter(t) ==
    /\ call[t].step = "read"
    /\ call' = [call EXCEPT ![t].step = "raised", ![t].prev = counter]
    /\ UNCHANGED <<counter, issued, accepted, clockVars, processVars>>

\* let prev = counter.fetch_max(wall)
FetchMax(t) ==
    /\ call[t].step = "read"
    /\ call' = [call EXCEPT ![t].step = "raised", ![t].prev = counter]
    /\ counter' = MaxOf(counter, call[t].wall)
    /\ UNCHANGED <<issued, accepted, clockVars, processVars>>

\* counter.fetch_add(1).max(prev).wrapping_add(1)
Nonce(t) == MaxOf(counter, call[t].prev) + 1

\* Mutant: the counter is incremented once for the nonce and once more.
FetchAddTwice(t) ==
    /\ call[t].step = "raised"
    /\ call' = [call EXCEPT ![t] = Idle]
    /\ counter' = counter + 2
    /\ issued' = Nonce(t)
    /\ accepted' = Nonce(t)
    /\ burst' = burst + 1
    /\ UNCHANGED <<wall, setBack, processVars>>

FetchAdd(t) ==
    /\ call[t].step = "raised"
    /\ call' = [call EXCEPT ![t] = Idle]
    /\ counter' = counter + 1
    /\ issued' = Nonce(t)
    /\ accepted' = Nonce(t)
    /\ burst' = burst + 1
    /\ UNCHANGED <<wall, setBack, processVars>>

\* The system clock ticks, or is stepped.
ClockMoves ==
    /\ wall' \in 0 .. MaxWall
    /\ burst' = IF wall + burst <= wall' THEN 0
                ELSE IF wall <= wall' THEN wall + burst - wall'
                ELSE burst
    /\ setBack' = (setBack \/ wall' < wall)
    /\ UNCHANGED <<counter, call, issued, accepted, processVars>>

\* The process dies with its calls and a new one, started at any time of the
\* system clock, seeds a new generator.
Restart ==
    /\ restarts < MaxRestarts
    /\ restarts' = restarts + 1
    /\ wall' \in 0 .. MaxWall
    /\ counter' = wall'
    /\ call' = [t \in Callers |-> Idle]
    /\ issued' = 0
    /\ burst' = 0
    /\ setBack' = (setBack \/ wall' < wall)
    /\ hasty' = (hasty \/ wall' < wall + burst)
    /\ UNCHANGED accepted

NonceNext ==
    \/ \E t \in Callers : ReadClock(t) \/ FetchMax(t) \/ FetchAdd(t)
    \/ ClockMoves
    \/ Restart

NonceSpec == NonceInit /\ [][NonceNext]_nonceVars

\* Type invariant; no call has seen the counter above where it is now.
NonceTypeOK ==
    /\ wall \in Nat
    /\ counter \in Nat
    /\ call \in [Callers -> Call]
    /\ \A t \in Callers : call[t].prev <= counter
    /\ issued \in Nat
    /\ accepted \in Nat
    /\ burst \in Nat
    /\ setBack \in BOOLEAN
    /\ hasty \in BOOLEAN
    /\ restarts \in Nat

\* Within a process every nonce is greater than all those returned before it,
\* whatever the calls that overlap it and however the clock is stepped (next).
NoncesIncrease ==
    [][\A t \in Callers : FetchAdd(t) => issued' > issued]_nonceVars

\* No nonce is behind the clock its call has read (next).
NoncesFollowTheClock ==
    [][\A t \in Callers : FetchAdd(t) => issued' > call[t].wall]_nonceVars

\* The exchange sees nonces increase over the restarts of the process too,
\* although the counter is not saved, provided that the system clock has never
\* moved backwards and that no process was started before the clock had made up
\* for the nonces the one before it drew faster than the clock ticks (new, next).
RestartsKeepNoncesIncreasing ==
    [][\A t \in Callers :
           FetchAdd(t) /\ ~setBack /\ ~hasty => accepted' > accepted]_nonceVars
==============================================================================
