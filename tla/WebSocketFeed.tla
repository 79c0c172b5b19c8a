---------------------------- MODULE WebSocketFeed ----------------------------
(***************************************************************************)
(* WebSocketFeedClient (src/exchange_clients/websocket_client.rs): the     *)
(* reconnect loop of run and the select! loop of connect_and_stream, with  *)
(* its ping timer and heartbeat, against a peer that may fall silent.      *)
(*                                                                         *)
(* Time passes in ticks and is kept relative: until the next ping, since   *)
(* the last pong, left to sleep.  A ready arm of select! is taken within   *)
(* Late ticks, in either order when both are ready; a peer that is alive   *)
(* answers a ping within RoundTrip ticks.                                  *)
(***************************************************************************)
EXTENDS Integers, Sequences

CONSTANTS PingInterval,     \* ping_interval_seconds, in ticks
          ReconnectDelay,   \* reconnect_delay_ms, in ticks
          MaxAttempts,      \* max_reconnect_attempts, 0 for no limit
          Late,             \* bound: how long a ready task may wait
          RoundTrip,        \* bound: how long a live peer takes to answer
          MaxInbox          \* bound: frames received and not read

ASSUME WebSocketFeedAssumption ==
    /\ PingInterval \in Nat \ {0}
    /\ ReconnectDelay \in Nat
    /\ MaxAttempts \in Nat
    /\ Late \in Nat
    /\ RoundTrip \in Nat
    /\ MaxInbox \in Nat \ {0}

VARIABLES
    phase,      \* where run is
    attempt,    \* run's count of failures
    sleepLeft,  \* of the back-off
    untilPing,  \* until the timer fires; not positive when a tick is due
    sincePong,  \* last_pong.elapsed()
    overdue,    \* how long the task has been ready without being idle
    inbox,      \* frames received and not read
    peer,       \* alive, silent, or closed: nothing follows the inbox
    asked,      \* how long ago the oldest unanswered ping was sent, or -1
    told,       \* the last event on the bus
    tries       \* history: connections attempted, up to MaxAttempts + 1

runVars == <<phase, attempt, sleepLeft, tries>>
timerVars == <<untilPing, sincePong, overdue>>
peerVars == <<inbox, peer, asked>>
vars == <<runVars, timerVars, peerVars, told>>

Phase == {"connecting", "streaming", "backoff", "ended", "gaveUp", "cancelled"}
LastFrame == {"close", "error", "end"}
Frame == {"other", "pong", "ping"} \cup LastFrame

Init == /\ phase = "connecting"
        /\ attempt = 0
        /\ sleepLeft = 0
        /\ tries = 1
        /\ told = "none"
        /\ untilPing = 0 /\ sincePong = 0 /\ overdue = 0
        /\ inbox = <<>> /\ peer = "alive" /\ asked = -1

------------------------------------------------------------------------------
(* run.                                                                    *)

\* Mutant: the exponent is not capped.
DelayUncapped(n) == ReconnectDelay * 2 ^ n

\* reconnect_delay_ms * 2^min(attempt, 7)
Delay(n) == ReconnectDelay * 2 ^ (IF n < 7 THEN n ELSE 7)

\* Mutant: one attempt too many.
ExhaustedLate(n) == MaxAttempts > 0 /\ n > MaxAttempts

Exhausted(n) == MaxAttempts > 0 /\ n >= MaxAttempts

\* connect_async succeeds: Connected is sent, and both the timer, whose first
\* tick is immediate, and last_pong start now.
ConnectOk ==
    /\ phase = "connecting"
    /\ phase' = "streaming"
    /\ told' = "Connected"
    /\ UNCHANGED <<attempt, sleepLeft, tries, timerVars, peerVars>>

\* Mutant: the failure is not counted.
ConnectFailsUncounted ==
    /\ phase = "connecting"
    /\ phase' = "backoff"
    /\ sleepLeft' = Delay(attempt)
    /\ UNCHANGED <<attempt, tries, timerVars, peerVars, told>>

\* connect_async fails, the only error run sees.
ConnectFails ==
    /\ phase = "connecting"
    /\ attempt' = attempt + 1
    /\ IF Exhausted(attempt')
       THEN phase' = "gaveUp" /\ UNCHANGED sleepLeft
       ELSE phase' = "backoff" /\ sleepLeft' = Delay(attempt')
    /\ UNCHANGED <<tries, timerVars, peerVars, told>>

Reconnect ==
    /\ phase = "backoff"
    /\ sleepLeft = 0
    /\ phase' = "connecting"
    /\ tries' = IF tries <= MaxAttempts THEN tries + 1 ELSE tries
    /\ UNCHANGED <<attempt, sleepLeft, timerVars, peerVars, told>>

\* The locals of connect_and_stream and the socket are dropped.
DropConnection ==
    /\ untilPing' = 0 /\ sincePong' = 0 /\ overdue' = 0
    /\ inbox' = <<>> /\ peer' = "alive" /\ asked' = -1

\* The task of run is cancelled at an await.
Cancel ==
    /\ phase \in {"connecting", "streaming", "backoff"}
    /\ phase' = "cancelled"
    /\ sleepLeft' = 0
    /\ DropConnection
    /\ UNCHANGED <<attempt, tries, told>>

------------------------------------------------------------------------------
(* connect_and_stream, once connected.                                     *)

\* Mutant: the loop is left without a word to the bus.
BreakSilently ==
    /\ phase' = "ended"
    /\ DropConnection
    /\ UNCHANGED <<attempt, sleepLeft, tries, told>>

\* Every break of the loop: Disconnected is sent and Ok returned, and run
\* returns with it.
Break ==
    /\ phase' = "ended"
    /\ told' = "Disconnected"
    /\ DropConnection
    /\ UNCHANGED <<attempt, sleepLeft, tries>>

PingIsDue == phase = "streaming" /\ untilPing <= 0

\* Mutants: the heartbeat is lost after one interval, or after three.
HeartbeatLostEarly == sincePong > PingInterval
HeartbeatLostLate == sincePong > 3 * PingInterval

\* last_pong.elapsed() > timeout_duration
HeartbeatLost == sincePong > 2 * PingInterval

\* The wait ends when nothing is left to do.
TakeArm == overdue' = IF inbox' = <<>> /\ untilPing' > 0 THEN 0 ELSE overdue

HeartbeatTimeout == PingIsDue /\ HeartbeatLost /\ Break

\* The timer keeps its schedule, also when it is served late.
SendPing ==
    /\ PingIsDue
    /\ ~HeartbeatLost
    /\ untilPing' = untilPing + PingInterval
    /\ asked' = IF asked = -1 /\ peer = "alive" THEN 0 ELSE asked
    /\ UNCHANGED <<runVars, sincePong, inbox, peer, told>>
    /\ TakeArm

PingFails == PingIsDue /\ ~HeartbeatLost /\ peer # "alive" /\ Break

\* Pong and Ping show that the peer is there; other frames do not count.
ReadFrame ==
    /\ phase = "streaming"
    /\ inbox # <<>>
    /\ Head(inbox) \notin LastFrame
    /\ inbox' = Tail(inbox)
    /\ sincePong' = IF Head(inbox) \in {"pong", "ping"} THEN 0 ELSE sincePong
    /\ UNCHANGED <<runVars, untilPing, peer, asked, told>>
    /\ TakeArm

\* A close frame, a read error, or the end of the stream.
ReadLast ==
    /\ phase = "streaming"
    /\ inbox # <<>>
    /\ Head(inbox) \in LastFrame
    /\ Break

------------------------------------------------------------------------------
(* The peer and time.                                                      *)

Receive(f) ==
    /\ phase = "streaming"
    /\ peer = "alive"
    /\ Len(inbox) < MaxInbox
    /\ inbox' = Append(inbox, f)
    /\ UNCHANGED <<runVars, timerVars, told>>

PeerSends(f) == Receive(f) /\ UNCHANGED <<peer, asked>>

\* One pong answers all the pings before it.
PeerAnswers == asked # -1 /\ Receive("pong") /\ asked' = -1 /\ UNCHANGED peer

PeerLeaves(f) == Receive(f) /\ peer' = "closed" /\ asked' = -1

PeerFallsSilent ==
    /\ phase = "streaming"
    /\ peer = "alive"
    /\ peer' = "silent"
    /\ asked' = -1
    /\ UNCHANGED <<runVars, timerVars, inbox, told>>

\* A tick while streaming: the task is not kept waiting for more than Late
\* ticks, and a live peer answers in time.
TickStreaming ==
    /\ phase = "streaming"
    /\ asked < RoundTrip
    /\ LET ready == inbox # <<>> \/ untilPing <= 0
       IN  /\ ready => overdue < Late
           /\ overdue' = IF ready THEN overdue + 1 ELSE 0
    /\ untilPing' = untilPing - 1
    /\ sincePong' = sincePong + 1
    /\ asked' = IF asked = -1 THEN -1 ELSE asked + 1
    /\ UNCHANGED <<runVars, inbox, peer, told>>

TickBackoff ==
    /\ phase = "backoff"
    /\ sleepLeft > 0
    /\ sleepLeft' = sleepLeft - 1
    /\ UNCHANGED <<phase, attempt, tries, timerVars, peerVars, told>>

------------------------------------------------------------------------------
Next == \/ ConnectOk \/ ConnectFails \/ Reconnect \/ Cancel
        \/ HeartbeatTimeout \/ SendPing \/ PingFails \/ ReadFrame \/ ReadLast
        \/ \E f \in {"other", "ping"} : PeerSends(f)
        \/ PeerAnswers
        \/ \E f \in LastFrame : PeerLeaves(f)
        \/ PeerFallsSilent
        \/ TickStreaming \/ TickBackoff

Spec == Init /\ [][Next]_vars

\* sleep ends, and the runtime wakes the task.  Nothing makes connect_async return:
\* it is not under a timeout, and the peer may never answer.
FairSpec == /\ Spec
            /\ WF_vars(TickBackoff)
            /\ WF_vars(Reconnect)

------------------------------------------------------------------------------
(* Properties.                                                             *)

\* Type invariant; a back-off is at most 2^7 times the configured delay.
TypeOK ==
    /\ phase \in Phase
    /\ attempt \in Nat
    /\ sleepLeft \in 0 .. 128 * ReconnectDelay
    /\ untilPing \in -Late .. PingInterval
    /\ sincePong \in Nat
    /\ overdue \in 0 .. Late
    /\ inbox \in Seq(Frame)
    /\ peer \in {"alive", "silent", "closed"}
    /\ asked \in -1 .. RoundTrip
    /\ told \in {"none", "Connected", "Disconnected"}
    /\ tries \in Nat \ {0}

\* However its frames interleave with the ping timer, a connection whose peer
\* has fallen silent lasts no longer than three ping intervals, plus the time
\* the task is kept waiting (connect_and_stream).
DeadPeerIsNoticed ==
    phase = "streaming" => sincePong <= 3 * PingInterval + Late

\* A peer that answers every ping is never dropped by the heartbeat, when
\* sending a ping, its answer, and reading that take less than a ping interval
\* together, whatever else is received (connect_and_stream).
PromptPeerIsKept ==
    [][RoundTrip + 2 * Late < PingInterval /\ HeartbeatTimeout
        => peer # "alive"]_vars

\* The bus is told of the end of a connection, whichever way it ended, unless
\* the task was cancelled (connect_and_stream).
DisconnectIsTold ==
    phase \notin {"streaming", "cancelled"} => told # "Connected"

\* No more connections are attempted than configured (run).
AttemptsAreBounded == MaxAttempts > 0 => tries <= MaxAttempts

\* With a limit configured, the one thing that keeps run between connections for
\* ever is a connect_async that never returns; otherwise it gets a connection,
\* gives up, or is cancelled (run).
RunGoesOn ==
    \/ <>[](phase = "connecting")
    \/ MaxAttempts > 0 /\ phase \in {"connecting", "backoff"}
           ~> phase \in {"streaming", "gaveUp", "cancelled"}

\* run returns only when the attempts are exhausted (run).
ReturnsOnlyWhenExhausted ==
    phase \in {"ended", "gaveUp"} => Exhausted(attempt)
==============================================================================
