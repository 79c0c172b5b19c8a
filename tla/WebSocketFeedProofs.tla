------------------------- MODULE WebSocketFeedProofs --------------------------
(***************************************************************************)
(* Proofs about WebSocketFeed, for every configuration and every bound.    *)
(***************************************************************************)
EXTENDS WebSocketFeed, TLAPS

-------------------------------------------------------------------------------
(* Types.                                                                  *)

LEMMA PowerBound == ASSUME NEW n \in 0 .. 7 PROVE 2 ^ n \in 0 .. 128
<1>1. /\ 2 ^ 0 = 1 /\ 2 ^ 1 = 2 /\ 2 ^ 2 = 4 /\ 2 ^ 3 = 8
      /\ 2 ^ 4 = 16 /\ 2 ^ 5 = 32 /\ 2 ^ 6 = 64 /\ 2 ^ 7 = 128
    OBVIOUS
<1>2. CASE n = 0 BY <1>1, <1>2
<1>3. CASE n = 1 BY <1>1, <1>3
<1>4. CASE n = 2 BY <1>1, <1>4
<1>5. CASE n = 3 BY <1>1, <1>5
<1>6. CASE n = 4 BY <1>1, <1>6
<1>7. CASE n = 5 BY <1>1, <1>7
<1>8. CASE n = 6 BY <1>1, <1>8
<1>9. CASE n = 7 BY <1>1, <1>9
<1>. QED BY <1>2, <1>3, <1>4, <1>5, <1>6, <1>7, <1>8, <1>9

\* The capped exponent bounds the delay.
LEMMA DelayBound ==
    ASSUME NEW n \in Nat PROVE Delay(n) \in 0 .. 128 * ReconnectDelay
<1>. DEFINE power == 2 ^ (IF n < 7 THEN n ELSE 7)
<1>1. (IF n < 7 THEN n ELSE 7) \in 0 .. 7
    OBVIOUS
<1>2. power \in 0 .. 128
    BY <1>1, PowerBound
<1>3. Delay(n) = ReconnectDelay * power
    BY DEF Delay
<1>. HIDE DEF power
<1>. QED BY <1>2, <1>3, WebSocketFeedAssumption

LEMMA SumBound ==
    ASSUME NEW a \in Int, NEW b \in Int, NEW c \in Int, NEW m \in Int,
           b <= a, a + c <= m
    PROVE  b + c <= m
    OBVIOUS

LEMMA ReadTail ==
    ASSUME NEW s \in Seq(Frame), s # <<>>
    PROVE  Tail(s) \in Seq(Frame) /\ Head(s) \in Frame
    OBVIOUS

\* Until a tick is overdue the task has time left, and asked counts from a ping.
TimerInv ==
    /\ untilPing <= 0 => overdue + untilPing >= 0
    /\ sincePong + untilPing <= 3 * PingInterval

TypeInv == TypeOK /\ TimerInv

LEMMA InitTypeInv == Init => TypeInv
    BY WebSocketFeedAssumption DEF Init, TypeInv, TypeOK, TimerInv, Phase

LEMMA NextTypeInv == TypeInv /\ [Next]_vars => TypeInv'
<1>. SUFFICES ASSUME TypeInv, [Next]_vars PROVE TypeInv'
    OBVIOUS
<1>. USE WebSocketFeedAssumption
     DEF TypeInv, TypeOK, TimerInv, Phase, runVars, timerVars, peerVars
<1>. DEFINE delays == 0 .. 128 * ReconnectDelay
<1>. sleepLeft \in delays /\ 0 \in delays
    OBVIOUS
<1>1. ASSUME Break PROVE TypeInv'
    BY <1>1 DEF Break, DropConnection
<1>2. CASE ConnectOk
    BY <1>2 DEF ConnectOk
<1>3. CASE ConnectFails
    <2>1. attempt' \in Nat /\ phase' \in Phase /\ UNCHANGED <<tries, timerVars, peerVars, told>>
        BY <1>3 DEF ConnectFails
    <2>2. sleepLeft' \in 0 .. 128 * ReconnectDelay
        BY <1>3, <2>1, DelayBound DEF ConnectFails
    <2>3. phase' # "streaming"
        BY <1>3 DEF ConnectFails
    <2>. QED BY <2>1, <2>2, <2>3
<1>4. CASE Reconnect
    BY <1>4 DEF Reconnect
<1>5. CASE Cancel
    BY <1>5 DEF Cancel, DropConnection
<1>6. CASE HeartbeatTimeout \/ PingFails \/ ReadLast
    BY <1>1, <1>6 DEF HeartbeatTimeout, PingFails, ReadLast
<1>7. CASE SendPing
    BY <1>7 DEF SendPing, PingIsDue, HeartbeatLost, TakeArm
<1>8. CASE ReadFrame
    <2>1. inbox' \in Seq(Frame)
        BY <1>8, ReadTail DEF ReadFrame
    <2>2. sincePong' \in Nat /\ sincePong' <= sincePong
        BY <1>8 DEF ReadFrame
    <2>3. overdue' \in 0 .. Late /\ (untilPing' <= 0 => overdue' = overdue)
        BY <1>8 DEF ReadFrame, TakeArm
    <2>4. UNCHANGED <<runVars, untilPing, peer, asked, told>>
        BY <1>8 DEF ReadFrame
    <2>5. TypeOK'
        BY <2>1, <2>2, <2>3, <2>4
    <2>6. untilPing' = untilPing /\ untilPing \in Int
        BY <2>4
    <2>7. untilPing' <= 0 => overdue' + untilPing' >= 0
        BY <2>3, <2>6
    <2>8. sincePong' + untilPing' <= 3 * PingInterval
        <3>1. sincePong \in Int /\ sincePong' \in Int /\ 3 * PingInterval \in Int
            BY <2>2
        <3>2. sincePong + untilPing <= 3 * PingInterval
            OBVIOUS
        <3>. HIDE DEF TypeInv, TypeOK, TimerInv
        <3>. QED BY <2>2, <2>6, <3>1, <3>2, SumBound
    <2>. QED BY <2>5, <2>7, <2>8
<1>9. ASSUME NEW f \in Frame, Receive(f), peer' \in {"alive", "silent", "closed"},
             asked' \in -1 .. RoundTrip
      PROVE TypeInv'
    BY <1>9 DEF Receive
<1>10. CASE \E f \in {"other", "ping"} : PeerSends(f)
    BY <1>9, <1>10 DEF PeerSends, Frame
<1>11. CASE PeerAnswers
    BY <1>9, <1>11 DEF PeerAnswers, Frame
<1>12. CASE \E f \in LastFrame : PeerLeaves(f)
    <2>1. LastFrame \subseteq Frame
        BY DEF Frame
    <2>2. PICK f \in LastFrame : PeerLeaves(f)
        BY <1>12
    <2>. QED BY <1>9, <2>1, <2>2 DEF PeerLeaves
<1>13. CASE PeerFallsSilent
    BY <1>13 DEF PeerFallsSilent
<1>14. CASE TickStreaming
    BY <1>14 DEF TickStreaming
<1>15. CASE TickBackoff
    BY <1>15 DEF TickBackoff
<1>16. CASE UNCHANGED vars
    BY <1>16 DEF vars
<1>. QED
    BY <1>2, <1>3, <1>4, <1>5, <1>6, <1>7, <1>8, <1>10, <1>11, <1>12, <1>13,
       <1>14, <1>15, <1>16 DEF Next

\* Types are right for every configuration, and no back-off is longer than
\* 2^7 times the configured delay.
THEOREM WebSocketTypeCorrect == Spec => []TypeOK
<1>1. TypeInv => TypeOK
    BY DEF TypeInv
<1>. QED BY InitTypeInv, NextTypeInv, <1>1, PTL DEF Spec

\* A connection to a silent peer ends within three ping intervals, plus the time
\* the task is kept waiting, for every interval (connect_and_stream).
THEOREM DeadPeerAlwaysNoticed == Spec => []DeadPeerIsNoticed
<1>1. TypeInv => DeadPeerIsNoticed
    BY WebSocketFeedAssumption DEF TypeInv, TypeOK, TimerInv, DeadPeerIsNoticed
<1>. QED BY InitTypeInv, NextTypeInv, <1>1, PTL DEF Spec

-------------------------------------------------------------------------------
(* Events and attempts.                                                    *)

\* Every end of a connection but a cancellation is told to the bus
\* (connect_and_stream).
THEOREM DisconnectAlwaysTold == Spec => []DisconnectIsTold
<1>1. Init => DisconnectIsTold
    BY DEF Init, DisconnectIsTold
<1>2. DisconnectIsTold /\ [Next]_vars => DisconnectIsTold'
    BY DEF DisconnectIsTold, vars, runVars, Next, ConnectOk, ConnectFails,
       Reconnect, Cancel, Break, HeartbeatTimeout, SendPing, PingFails, ReadFrame,
       ReadLast, Receive, PeerSends, PeerAnswers, PeerLeaves, PeerFallsSilent,
       TickStreaming, TickBackoff
<1>. QED BY <1>1, <1>2, PTL DEF Spec

\* Every attempt but the present one has failed and was counted.
AttemptsInv ==
    MaxAttempts > 0 =>
        /\ tries <= MaxAttempts
        /\ phase = "connecting" => tries = attempt + 1
        /\ phase = "backoff" => tries = attempt /\ attempt < MaxAttempts

\* At most max_reconnect_attempts connections are attempted, for every limit
\* (run).
THEOREM AttemptsAlwaysBounded == Spec => []AttemptsAreBounded
<1>1. Init => AttemptsInv
    BY WebSocketFeedAssumption DEF Init, AttemptsInv
<1>2. TypeInv /\ AttemptsInv /\ [Next]_vars => AttemptsInv'
    <2>. SUFFICES ASSUME TypeInv, AttemptsInv, [Next]_vars, MaxAttempts > 0
                  PROVE  AttemptsInv'
        BY DEF AttemptsInv
    <2>. attempt \in Nat /\ tries \in Nat
        BY DEF TypeInv, TypeOK
    <2>. USE WebSocketFeedAssumption DEF AttemptsInv, runVars
    <2>1. CASE ConnectOk
        BY <2>1 DEF ConnectOk
    <2>2. CASE ConnectFails
        BY <2>2 DEF ConnectFails, Exhausted
    <2>3. CASE Reconnect
        BY <2>3 DEF Reconnect
    <2>4. CASE Cancel
        BY <2>4 DEF Cancel
    <2>5. CASE HeartbeatTimeout \/ PingFails \/ ReadLast
        BY <2>5 DEF HeartbeatTimeout, PingFails, ReadLast, Break
    <2>6. CASE UNCHANGED <<phase, attempt, tries>>
        BY <2>6
    <2>. QED
        BY <2>1, <2>2, <2>3, <2>4, <2>5, <2>6
        DEF Next, vars, SendPing, ReadFrame, Receive, PeerSends, PeerAnswers,
            PeerLeaves, PeerFallsSilent, TickStreaming, TickBackoff
<1>3. AttemptsInv => AttemptsAreBounded
    BY DEF AttemptsInv, AttemptsAreBounded
<1>. QED BY InitTypeInv, NextTypeInv, <1>1, <1>2, <1>3, PTL DEF Spec

-------------------------------------------------------------------------------
(* The heartbeat and a prompt peer.                                        *)

Prompt == RoundTrip + 2 * Late < PingInterval

PongWaits == \E i \in 1 .. Len(inbox) : inbox[i] = "pong"

\* While a ping or its pong is under way the next tick is far enough off.  When
\* neither is, a pong has been read since the last tick was due.
PromptInv ==
    Prompt /\ peer = "alive" =>
        /\ asked # -1 =>
              /\ untilPing + asked >= PingInterval - Late
              /\ sincePong + untilPing <= 2 * PingInterval
        /\ PongWaits =>
              /\ untilPing + overdue >= PingInterval - Late - RoundTrip
              /\ sincePong + untilPing <= 2 * PingInterval
        /\ asked = -1 /\ ~PongWaits => sincePong + untilPing <= PingInterval

\* What reading, and receiving, does to the pongs that wait.
LEMMA PongRead ==
    ASSUME inbox \in Seq(Frame), inbox # <<>>, Head(inbox) # "pong",
           inbox' = Tail(inbox)
    PROVE  PongWaits' <=> PongWaits
<1>1. /\ Len(inbox) \in Nat \ {0}
      /\ Len(inbox') = Len(inbox) - 1
      /\ inbox[1] # "pong"
      /\ \A i \in 1 .. Len(inbox') : inbox'[i] = inbox[i + 1]
    OBVIOUS
<1>2. ASSUME PongWaits' PROVE PongWaits
    <2>1. PICK i \in 1 .. Len(inbox') : inbox'[i] = "pong"
        BY <1>2 DEF PongWaits
    <2>2. i + 1 \in 1 .. Len(inbox) /\ inbox[i + 1] = "pong"
        BY <1>1, <2>1
    <2>. QED BY <2>2 DEF PongWaits
<1>3. ASSUME PongWaits PROVE PongWaits'
    <2>1. PICK i \in 1 .. Len(inbox) : inbox[i] = "pong"
        BY <1>3 DEF PongWaits
    <2>2. i - 1 \in 1 .. Len(inbox')
        BY <1>1, <2>1
    <2>3. inbox'[i - 1] = inbox[(i - 1) + 1] /\ (i - 1) + 1 = i
        BY <1>1, <2>2
    <2>. QED BY <2>1, <2>2, <2>3 DEF PongWaits
<1>. QED BY <1>2, <1>3

LEMMA PongReceived ==
    ASSUME inbox \in Seq(Frame), NEW f \in Frame, f # "pong",
           inbox' = Append(inbox, f)
    PROVE  PongWaits' <=> PongWaits
<1>1. /\ Len(inbox) \in Nat
      /\ Len(inbox') = Len(inbox) + 1
      /\ inbox'[Len(inbox) + 1] # "pong"
      /\ \A i \in 1 .. Len(inbox) : inbox'[i] = inbox[i]
    OBVIOUS
<1>2. \A i \in 1 .. Len(inbox') : i \in 1 .. Len(inbox) \/ i = Len(inbox) + 1
    BY <1>1
<1>3. \A i \in 1 .. Len(inbox) : i \in 1 .. Len(inbox')
    BY <1>1
<1>. QED BY <1>1, <1>2, <1>3 DEF PongWaits

LEMMA NextPromptInv == TypeInv /\ PromptInv /\ [Next]_vars => PromptInv'
<1>. SUFFICES ASSUME TypeInv, PromptInv, [Next]_vars, Prompt, (peer = "alive")'
              PROVE  PromptInv'
    BY DEF PromptInv, Prompt
<1>. /\ untilPing \in Int /\ -Late <= untilPing /\ untilPing <= PingInterval
     /\ sincePong \in Nat /\ overdue \in Nat /\ overdue <= Late
     /\ inbox \in Seq(Frame)
     /\ asked \in Int /\ -1 <= asked /\ asked <= RoundTrip
     /\ PingInterval \in Nat /\ Late \in Nat /\ RoundTrip \in Nat
    BY WebSocketFeedAssumption DEF TypeInv, TypeOK
<1>. USE DEF PromptInv, Prompt, timerVars, peerVars
<1>1. ASSUME DropConnection PROVE PromptInv'
    BY <1>1 DEF DropConnection, PongWaits
<1>2. CASE Cancel \/ HeartbeatTimeout \/ PingFails \/ ReadLast
    BY <1>1, <1>2 DEF Cancel, HeartbeatTimeout, PingFails, ReadLast, Break
<1>3. CASE UNCHANGED <<timerVars, peerVars>>
    BY <1>3 DEF PongWaits
<1>4. CASE SendPing
    <2>1. /\ untilPing <= 0 /\ untilPing' = untilPing + PingInterval
          /\ UNCHANGED <<sincePong, inbox, peer>>
          /\ asked' = IF asked = -1 THEN 0 ELSE asked
        BY <1>4 DEF SendPing, PingIsDue
    <2>2. asked = -1 /\ ~PongWaits
        BY <2>1
    <2>3. ~PongWaits'
        BY <2>1, <2>2 DEF PongWaits
    <2>. QED BY <2>1, <2>2, <2>3
<1>5. CASE ReadFrame
    <2>1. /\ inbox # <<>> /\ inbox' = Tail(inbox)
          /\ UNCHANGED <<untilPing, peer, asked>>
          /\ sincePong' = IF Head(inbox) \in {"pong", "ping"} THEN 0 ELSE sincePong
        BY <1>5 DEF ReadFrame
    <2>2. PongWaits' => overdue' = overdue
        <3>1. inbox' = <<>> => ~PongWaits'
            BY DEF PongWaits
        <3>. QED BY <1>5, <3>1 DEF ReadFrame, TakeArm
    <2>3. CASE Head(inbox) = "pong"
        <3>1. sincePong' = 0
            BY <2>1, <2>3
        <3>2. PongWaits
            BY <2>1, <2>3 DEF PongWaits
        <3>. QED BY <2>1, <2>2, <3>1, <3>2
    <2>4. CASE Head(inbox) # "pong"
        <3>1. PongWaits' <=> PongWaits
            BY <2>1, <2>4, PongRead
        <3>2. sincePong' <= sincePong /\ sincePong' \in Nat
            BY <2>1
        <3>. QED BY <2>1, <2>2, <3>1, <3>2
    <2>. QED BY <2>3, <2>4
<1>6. CASE \E f \in {"other", "ping"} : PeerSends(f)
    <2>1. PICK f \in {"other", "ping"} : PeerSends(f)
        BY <1>6
    <2>2. inbox' = Append(inbox, f) /\ UNCHANGED <<timerVars, peer, asked>>
        BY <2>1 DEF PeerSends, Receive
    <2>3. PongWaits' <=> PongWaits
        BY <2>2, PongReceived DEF Frame
    <2>. QED BY <2>2, <2>3
<1>7. CASE PeerAnswers
    <2>1. asked # -1 /\ asked' = -1 /\ UNCHANGED <<timerVars, peer>>
        BY <1>7 DEF PeerAnswers, Receive
    <2>2. PongWaits'
        <3>1. inbox' = Append(inbox, "pong")
            BY <1>7 DEF PeerAnswers, Receive
        <3>2. inbox'[Len(inbox) + 1] = "pong" /\ Len(inbox) + 1 \in 1 .. Len(inbox')
            BY <3>1
        <3>. QED BY <3>2 DEF PongWaits
    <2>. QED BY <2>1, <2>2
<1>8. CASE \E f \in LastFrame : PeerLeaves(f)
    BY <1>8 DEF PeerLeaves
<1>9. CASE PeerFallsSilent
    BY <1>9 DEF PeerFallsSilent
<1>10. CASE TickStreaming
    <2>1. /\ untilPing' = untilPing - 1 /\ sincePong' = sincePong + 1
          /\ asked' = IF asked = -1 THEN -1 ELSE asked + 1
          /\ UNCHANGED <<inbox, peer>>
        BY <1>10 DEF TickStreaming
    <2>2. PongWaits' <=> PongWaits
        BY <2>1 DEF PongWaits
    <2>3. PongWaits => overdue' = overdue + 1
        <3>1. PongWaits => inbox # <<>>
            BY DEF PongWaits
        <3>. QED BY <1>10, <3>1 DEF TickStreaming
    <2>. QED BY <2>1, <2>2, <2>3
<1>. QED
    BY <1>2, <1>3, <1>4, <1>5, <1>6, <1>7, <1>8, <1>9, <1>10
    DEF Next, vars, ConnectOk, ConnectFails, Reconnect, TickBackoff

\* A peer that answers in time is never dropped by the heartbeat, for every
\* interval longer than an answer takes (connect_and_stream).
THEOREM PromptPeerAlwaysKept == Spec => PromptPeerIsKept
<1>1. Init => PromptInv
    BY WebSocketFeedAssumption DEF Init, PromptInv, PongWaits
<1>2. TypeInv /\ PromptInv
        => (RoundTrip + 2 * Late < PingInterval /\ HeartbeatTimeout => peer # "alive")
    <2>. SUFFICES ASSUME TypeInv, PromptInv, Prompt, HeartbeatTimeout, peer = "alive"
                  PROVE  FALSE
        BY DEF Prompt
    <2>1. untilPing <= 0 /\ sincePong > 2 * PingInterval
        BY DEF HeartbeatTimeout, PingIsDue, HeartbeatLost
    <2>. QED
        BY <2>1, WebSocketFeedAssumption DEF TypeInv, TypeOK, PromptInv, Prompt
<1>. QED
    BY InitTypeInv, NextTypeInv, NextPromptInv, <1>1, <1>2, PTL
    DEF Spec, PromptPeerIsKept

===============================================================================
