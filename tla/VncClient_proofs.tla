-------------------------- MODULE VncClient_proofs --------------------------
(***************************************************************************)
(* Proofs about VncClient, for every set of hosts and geometries and every *)
(* bound.  Inductive is the heart: the conjunction IInv of the properties  *)
(* of VncClient and of the four facts they lean on is preserved by every   *)
(* step.  Its two recurring cases, a call of start() on an idle socket and *)
(* a call of fail() on a connected one, are lemmas of their own.           *)
(***************************************************************************)
EXTENDS VncClient, TLAPS

\* The app starts in a state that satisfies the invariant.
LEMMA InitIInv == Init => IInv
<1> SUFFICES ASSUME Init PROVE IInv
  OBVIOUS
<1> USE HostAssumption, UsableAssumption, BoundAssumption DEF Init
<1>1. TypeOK
  <2>0. frames \in 0 .. MaxFrames /\ rectsLeft \in 0 .. MaxRects
    OBVIOUS
  <2>1. SessionType
    BY <2>0 DEF SessionType, State
  <2>2. ParserType
    BY <2>0 DEF ParserType, Phase, MsgState, Geometry
  <2>3. TimerType /\ ServerType
    BY DEF TimerType, ServerType, Peer
  <2> QED
    BY <2>1, <2>2, <2>3 DEF TypeOK
<1>2. StatusTruth /\ RetryArmed /\ NoLostRequest /\ BufferFits
  BY DEF StatusTruth, RetryArmed, NoLostRequest, BufferFits, Live, InPhase
<1>3. InStep /\ StoppedIsQuiet /\ Ownership
  BY DEF InStep, StoppedIsQuiet, Ownership, Conforming
<1>4. FreshSocket /\ RectCount /\ NoStaleTimer
  BY DEF FreshSocket, RectCount, NoStaleTimer, Live, InPhase
<1> QED
  BY <1>1, <1>2, <1>3, <1>4 DEF IInv

\* start() on an idle socket, from whichever caller, keeps the invariant.
LEMMA StartStep ==
    ASSUME IInv, NEW h \in Host, Start(h), sock = "unconnected",
           touched' \in BOOLEAN, streaming /\ reqTimer => touched'
    PROVE  IInv'
<1> USE HostAssumption, UsableAssumption, BoundAssumption
    DEF SessionType, ParserType, TimerType, ServerType, StatusTruth,
        RetryArmed, NoLostRequest, BufferFits, InStep, StoppedIsQuiet,
        Ownership, FreshSocket, RectCount, NoStaleTimer, Live, InPhase,
        Conforming, Phase, MsgState, State, Peer, Geometry,
        vars, session, parser, timers, server,
        Start, CancelRetry
<1>1. SessionType'
  <2>1. frames' \in 0 .. MaxFrames
    OBVIOUS
  <2> QED
    BY <2>1 DEF IInv, TypeOK
<1>2. ParserType'
  BY DEF IInv, TypeOK
<1>3. (TimerType /\ ServerType)'
  BY DEF IInv, TypeOK
<1>4. (StatusTruth /\ RetryArmed)'
  BY DEF IInv, TypeOK
<1>5. NoLostRequest'
  BY DEF IInv, TypeOK
<1>6. BufferFits'
  BY DEF IInv, TypeOK
<1>7. (InStep /\ FreshSocket /\ NoStaleTimer)'
  BY DEF IInv, TypeOK
<1>8. (StoppedIsQuiet /\ Ownership /\ RectCount)'
  BY DEF IInv, TypeOK
<1> QED
  BY <1>1, <1>2, <1>3, <1>4, <1>5, <1>6, <1>7, <1>8 DEF IInv, TypeOK

\* fail() on a connected socket keeps the invariant.
LEMMA FailStep ==
    ASSUME IInv, Fail, sock = "connected",
           UNCHANGED <<phase, rectsLeft, geom, fb, reqTimer, peer, asked>>,
           \/ msgState' = msgState
           \/ msgState = "RECT_HEAD" /\ msgState' = "RECT_DATA"
    PROVE  IInv'
<1> USE HostAssumption, UsableAssumption, BoundAssumption
    DEF SessionType, ParserType, TimerType, ServerType, StatusTruth,
        RetryArmed, NoLostRequest, BufferFits, InStep, StoppedIsQuiet,
        Ownership, FreshSocket, RectCount, NoStaleTimer, Live, InPhase,
        Conforming, Phase, MsgState, State, Peer, Geometry,
        vars, session, parser, timers, server,
        Fail, StopNudge, ArmRetry, KeepPicture
<1>1. SessionType'
  BY DEF IInv, TypeOK
<1>2. ParserType'
  BY DEF IInv, TypeOK
<1>3. (TimerType /\ ServerType)'
  BY DEF IInv, TypeOK
<1>4. (StatusTruth /\ RetryArmed)'
  BY DEF IInv, TypeOK
<1>5. NoLostRequest'
  BY DEF IInv, TypeOK
<1>6. BufferFits'
  BY DEF IInv, TypeOK
<1>7. (InStep /\ FreshSocket /\ NoStaleTimer)'
  BY DEF IInv, TypeOK
<1>8. (StoppedIsQuiet /\ Ownership /\ RectCount)'
  BY DEF IInv, TypeOK
<1> QED
  BY <1>1, <1>2, <1>3, <1>4, <1>5, <1>6, <1>7, <1>8 DEF IInv, TypeOK

\* Every step keeps the invariant.
LEMMA Inductive == IInv /\ [Next]_vars => IInv'
<1> SUFFICES ASSUME IInv, [Next]_vars PROVE IInv'
  OBVIOUS
<1> USE HostAssumption, UsableAssumption, BoundAssumption
    DEF SessionType, ParserType, TimerType, ServerType, StatusTruth,
        RetryArmed, NoLostRequest, BufferFits, InStep, StoppedIsQuiet,
        Ownership, FreshSocket, RectCount, NoStaleTimer, Live, InPhase,
        Conforming, Phase, MsgState, State, Peer, Geometry,
        vars, session, parser, timers, server
<1>1. CASE Stop
  <2> USE <1>1 DEF Stop, CancelRetry, StopNudge
  <2>1. SessionType'
    BY DEF IInv, TypeOK
  <2>2. ParserType'
    BY DEF IInv, TypeOK
  <2>3. (TimerType /\ ServerType)'
    BY DEF IInv, TypeOK
  <2>4. (StatusTruth /\ RetryArmed)'
    BY DEF IInv, TypeOK
  <2>5. NoLostRequest'
    BY DEF IInv, TypeOK
  <2>6. BufferFits'
    BY DEF IInv, TypeOK
  <2>7. (InStep /\ FreshSocket /\ NoStaleTimer)'
    BY DEF IInv, TypeOK
  <2>8. (StoppedIsQuiet /\ Ownership /\ RectCount)'
    BY DEF IInv, TypeOK
  <2> QED
    BY <2>1, <2>2, <2>3, <2>4, <2>5, <2>6, <2>7, <2>8 DEF IInv, TypeOK
<1>2. CASE Pointer
  <2> USE <1>2 DEF Pointer, CanWrite, PeerMessage, Reads
  <2>1. SessionType'
    BY DEF IInv, TypeOK
  <2>2. ParserType'
    BY DEF IInv, TypeOK
  <2>3. (TimerType /\ ServerType)'
    BY DEF IInv, TypeOK
  <2>4. (StatusTruth /\ RetryArmed)'
    BY DEF IInv, TypeOK
  <2>5. NoLostRequest'
    BY DEF IInv, TypeOK
  <2>6. BufferFits'
    BY DEF IInv, TypeOK
  <2>7. (InStep /\ FreshSocket /\ NoStaleTimer)'
    BY DEF IInv, TypeOK
  <2>8. (StoppedIsQuiet /\ Ownership /\ RectCount)'
    BY DEF IInv, TypeOK
  <2> QED
    BY <2>1, <2>2, <2>3, <2>4, <2>5, <2>6, <2>7, <2>8 DEF IInv, TypeOK
<1>3. CASE OnReqTimer
  <2> USE <1>3 DEF OnReqTimer, CanWrite, SendFbUpdateRequest, PeerMessage, Reads
  <2>1. SessionType'
    BY DEF IInv, TypeOK
  <2>2. ParserType'
    BY DEF IInv, TypeOK
  <2>3. (TimerType /\ ServerType)'
    BY DEF IInv, TypeOK
  <2>4. (StatusTruth /\ RetryArmed)'
    BY DEF IInv, TypeOK
  <2>5. NoLostRequest'
    BY DEF IInv, TypeOK
  <2>6. BufferFits'
    BY DEF IInv, TypeOK
  <2>7. (InStep /\ FreshSocket /\ NoStaleTimer)'
    BY DEF IInv, TypeOK
  <2>8. (StoppedIsQuiet /\ Ownership /\ RectCount)'
    BY DEF IInv, TypeOK
  <2> QED
    BY <2>1, <2>2, <2>3, <2>4, <2>5, <2>6, <2>7, <2>8 DEF IInv, TypeOK
<1>4. CASE OnNudge
  BY <1>4 DEF IInv, TypeOK, OnNudge, CanWrite, SendFbUpdateRequest, PeerMessage,
     Reads
<1>5. CASE OnConnected
  BY <1>5 DEF IInv, TypeOK, OnConnected
<1>6. CASE OnClosed
  <2> USE <1>6 DEF OnClosed, StopNudge, ArmRetry, KeepPicture
  <2>1. SessionType'
    BY DEF IInv, TypeOK
  <2>2. ParserType'
    BY DEF IInv, TypeOK
  <2>3. (TimerType /\ ServerType)'
    BY DEF IInv, TypeOK
  <2>4. (StatusTruth /\ RetryArmed)'
    BY DEF IInv, TypeOK
  <2>5. NoLostRequest'
    BY DEF IInv, TypeOK
  <2>6. BufferFits'
    BY DEF IInv, TypeOK
  <2>7. (InStep /\ FreshSocket /\ NoStaleTimer)'
    BY DEF IInv, TypeOK
  <2>8. (StoppedIsQuiet /\ Ownership /\ RectCount)'
    BY DEF IInv, TypeOK
  <2> QED
    BY <2>1, <2>2, <2>3, <2>4, <2>5, <2>6, <2>7, <2>8 DEF IInv, TypeOK
<1>7. CASE Version
  BY <1>7 DEF IInv, TypeOK, Version, Answer, PeerVersion, Reads
<1>8. CASE SecTypes
  BY <1>8 DEF IInv, TypeOK, SecTypes, Answer, PeerChoice, Reads
<1>9. CASE SecResult
  BY <1>9 DEF IInv, TypeOK, SecResult, Answer, PeerClientInit, Reads
<1>10. ASSUME NEW g \in Geometry, ServerInitHeader(g) PROVE IInv'
  BY <1>10 DEF IInv, TypeOK, ServerInitHeader
<1>11. CASE ServerInit
  BY <1>11 DEF IInv, TypeOK, ServerInit, NewBuffer, SendFbUpdateRequest,
     PeerMessage, Reads
<1>12. CASE FbuType
  BY <1>12 DEF IInv, TypeOK, FbuType, InMessage
<1>13. ASSUME NEW n \in 0 .. MaxRects, FbuHead(n) PROVE IInv'
  <2> USE <1>13 DEF FbuHead, AfterHead, AskAfterEmpty, InMessage
  <2>1. SessionType'
    BY DEF IInv, TypeOK
  <2>2. ParserType'
    BY DEF IInv, TypeOK
  <2>3. (TimerType /\ ServerType)'
    BY DEF IInv, TypeOK
  <2>4. (StatusTruth /\ RetryArmed)'
    BY DEF IInv, TypeOK
  <2>5. NoLostRequest'
    <3>1. n > 0 => msgState' # "TYPE"
      OBVIOUS
    <3>2. n = 0 => reqTimer'
      OBVIOUS
    <3> QED
      BY <3>1, <3>2
  <2>6. BufferFits'
    BY DEF IInv, TypeOK
  <2>7. (InStep /\ FreshSocket /\ NoStaleTimer)'
    BY DEF IInv, TypeOK
  <2>8. (StoppedIsQuiet /\ Ownership /\ RectCount)'
    BY DEF IInv, TypeOK
  <2> QED
    BY <2>1, <2>2, <2>3, <2>4, <2>5, <2>6, <2>7, <2>8 DEF IInv, TypeOK
<1>14. CASE RectHead
  BY <1>14 DEF IInv, TypeOK, RectHead, InMessage
<1>15. CASE RectData
  <2> USE <1>15 DEF RectData, InMessage
  <2>1. SessionType'
    BY DEF IInv, TypeOK
  <2>2. ParserType'
    BY DEF IInv, TypeOK
  <2>3. (TimerType /\ ServerType)'
    BY DEF IInv, TypeOK
  <2>4. (StatusTruth /\ RetryArmed)'
    BY DEF IInv, TypeOK
  <2>5. NoLostRequest'
    BY DEF IInv, TypeOK
  <2>6. BufferFits'
    BY DEF IInv, TypeOK
  <2>7. (InStep /\ FreshSocket /\ NoStaleTimer)'
    BY DEF IInv, TypeOK
  <2>8. (StoppedIsQuiet /\ Ownership /\ RectCount)'
    BY DEF IInv, TypeOK
  <2> QED
    BY <2>1, <2>2, <2>3, <2>4, <2>5, <2>6, <2>7, <2>8 DEF IInv, TypeOK
<1>16. ASSUME NEW h \in Host, UserStart(h) PROVE IInv'
  <2>1. sock = "unconnected" /\ ~streaming /\ touched' = FALSE
    BY <1>16 DEF IInv, UserStart
  <2> QED
    BY <1>16, <2>1, StartStep DEF UserStart
<1>17. ASSUME NEW h \in Host, AutoStart(h) PROVE IInv'
  <2>1. sock = "unconnected" /\ ~streaming /\ touched' = FALSE
    BY <1>17 DEF IInv, AutoStart
  <2> QED
    BY <1>17, <2>1, StartStep DEF AutoStart
<1>18. CASE OnReconnect
  <2>1. active /\ sock = "unconnected" /\ host \in Host
    BY <1>18 DEF IInv, TypeOK, OnReconnect
  <2>2. Start(host) /\ touched' = touched /\ (reqTimer => touched)
    BY <1>18, <2>1 DEF OnReconnect
  <2> QED
    BY <2>1, <2>2, StartStep DEF IInv, TypeOK
<1>19. CASE SecTypesRefused
  BY <1>19, FailStep DEF SecTypesRefused, GiveUp
<1>20. CASE SecResultFailed
  BY <1>20, FailStep DEF SecResultFailed, GiveUp
<1>21. CASE BadGeometry
  BY <1>21, FailStep DEF BadGeometry, GiveUp
<1>22. CASE ProtoError
  BY <1>22, FailStep DEF ProtoError, GiveUp, InMessage
<1>23. CASE RectUnsupported
  BY <1>23, FailStep DEF RectUnsupported, GiveUp, InMessage
<1>24. CASE UNCHANGED vars
  BY <1>24 DEF IInv, TypeOK
<1> QED
  BY <1>1, <1>2, <1>3, <1>4, <1>5, <1>6, <1>7, <1>8, <1>9, <1>10, <1>11,
     <1>12, <1>13, <1>14, <1>15, <1>16, <1>17, <1>18, <1>19, <1>20, <1>21,
     <1>22, <1>23, <1>24
     DEF Next, User, Timer, Handshake, Update, Rejection

\* The invariant holds in every reachable state.
THEOREM Invariance == Spec => []IInv
BY InitIInv, Inductive, PTL DEF Spec

\* Every variable of the client stays in its range; the rectangle count never
\* goes below zero.
THEOREM TypeCorrect == Spec => []TypeOK
<1>1. IInv => TypeOK
  BY DEF IInv
<1> QED
  BY <1>1, Invariance, PTL

\* The status line and the streaming flag tell the truth about the connection,
\* and the retry timer runs exactly when a wanted session has no socket.
THEOREM StatusCorrect == Spec => [](StatusTruth /\ RetryArmed)
<1>1. IInv => StatusTruth /\ RetryArmed
  BY DEF IInv
<1> QED
  BY <1>1, Invariance, PTL

\* A live client always has a request out, due, or due after the update it is
\* receiving.
THEOREM RequestCycle == Spec => []NoLostRequest
<1>1. IInv => NoLostRequest
  BY DEF IInv
<1> QED
  BY <1>1, Invariance, PTL

\* Pixels are copied only into a framebuffer of the geometry in force.
THEOREM BufferMatches == Spec => []BufferFits
<1>1. IInv => BufferFits
  BY DEF IInv
<1> QED
  BY <1>1, Invariance, PTL

\* Only a touch of the frozen feed can put client and server out of step.
THEOREM HandshakeInStep == Spec => []InStep
<1>1. IInv => InStep
  BY DEF IInv
<1> QED
  BY <1>1, Invariance, PTL

\* After DISCONNECT nothing is left that could bring the session back.
THEOREM StopIsFinal == Spec => []StoppedIsQuiet
<1>1. IInv => StoppedIsQuiet
  BY DEF IInv
<1> QED
  BY <1>1, Invariance, PTL

(***************************************************************************)
(* The client implements MirrorSession.                                    *)
(***************************************************************************)
\* Initial states map to initial states.
LEMMA SessionInit == Init => Session!Init
BY DEF Init, Session!Init, LinkState

\* Every step maps to a step of the session or to a stutter.
LEMMA SessionStep == IInv /\ [Next]_vars => [Session!Next]_(Session!vars)
<1> SUFFICES ASSUME IInv, [Next]_vars
             PROVE  Session!Next \/ UNCHANGED Session!vars
  OBVIOUS
<1> USE DEF Session!vars, LinkState, Live, InPhase, session, parser, timers, server, vars
<1>0. /\ active <=> host # NoHost
      /\ streaming => active
      /\ userStopped => ~active
      /\ sock # "unconnected" => active
      /\ phase = "NORMAL" /\ sock = "connected" => streaming
  BY DEF IInv, Ownership, StatusTruth
<1>1. ASSUME NEW h \in Host, ~active, Start(h) PROVE Session!Next
  BY <1>0, <1>1, HostAssumption
     DEF Start, CancelRetry, Session!Next, Session!Launch
<1>2. CASE Stop
  BY <1>0, <1>2 DEF Stop, Session!Next, Session!End
<1>3. ASSUME sock = "connected" \/ sock = "connecting", sock' = "unconnected",
             UNCHANGED <<host, active, streaming, userStopped>>
      PROVE  Session!Next \/ UNCHANGED Session!vars
  BY <1>0, <1>3 DEF Session!Next, Session!LoseLink
<1>4. CASE ServerInit
  BY <1>0, <1>4 DEF ServerInit, Session!Next, Session!GoLive
<1>5. CASE OnReconnect
  <2>1. active /\ userStopped = FALSE /\ sock = "unconnected" /\ Start(host)
    BY <1>0, <1>5 DEF IInv, TypeOK, SessionType, RetryArmed, OnReconnect
  <2>2. UNCHANGED <<host, streaming, userStopped>> /\ active' /\ ~Live /\ ~Live'
    BY <2>1 DEF Start
  <2> QED
    BY <2>1, <2>2
<1>6. CASE OnConnected
  BY <1>6 DEF IInv, FreshSocket, OnConnected
<1>7. ASSUME UNCHANGED <<host, active, streaming, userStopped, sock>>,
             phase = "NORMAL" <=> phase' = "NORMAL"
      PROVE  UNCHANGED Session!vars
  BY <1>7
<1>8. CASE Handshake /\ ~ServerInit
  BY <1>7, <1>8 DEF Handshake, Version, SecTypes, SecResult, Answer,
     ServerInitHeader
<1>9. CASE Update
  BY <1>7, <1>9 DEF Update, FbuType, RectHead, RectData, FbuHead, InMessage
<1>10. CASE Pointer \/ OnReqTimer \/ OnNudge \/ UNCHANGED vars
  BY <1>7, <1>10 DEF Pointer, OnReqTimer, OnNudge
<1>11. CASE Rejection \/ BadGeometry
  BY <1>3, <1>11 DEF Rejection, BadGeometry, SecTypesRefused, SecResultFailed,
     ProtoError, RectUnsupported, GiveUp, InMessage, Fail, KeepPicture
<1>12. CASE OnClosed
  BY <1>3, <1>12 DEF IInv, TypeOK, SessionType, OnClosed, KeepPicture
<1>13. CASE \E h \in Host : UserStart(h) \/ AutoStart(h)
  BY <1>1, <1>13 DEF UserStart, AutoStart
<1> QED
  BY <1>1, <1>2, <1>4, <1>5, <1>6, <1>8, <1>9, <1>10, <1>11, <1>12, <1>13
     DEF Next, User, Timer

\* Seen from outside, the client behaves as the abstract session: only
\* DISCONNECT ends it, and no failure loses its host or its picture.
THEOREM Refinement == Spec => ImplementsSession
<1> QED
  BY SessionInit, SessionStep, Invariance, PTL
     DEF Spec, ImplementsSession, Session!Spec

(***************************************************************************)
(* The way back to live.                                                   *)
(***************************************************************************)
\* The two facts about server and parser that NearsLive needs besides IInv.
LEMMA HomingInductive == HomingInv /\ [Next]_vars => HomingInv'
<1> SUFFICES ASSUME HomingInv, [Next]_vars PROVE Lockstep' /\ HeaderInPhase'
  BY Inductive DEF HomingInv
<1>0. /\ sock \in {"unconnected", "connecting", "connected"}
      /\ header \in BOOLEAN /\ phase \in Phase /\ peer \in Peer
      /\ sock = "connecting" => phase = "VERSION" /\ peer = "version"
      /\ Lockstep /\ HeaderInPhase
  BY DEF HomingInv, IInv, TypeOK, SessionType, ParserType, ServerType, FreshSocket
<1> USE <1>0 DEF Lockstep, HeaderInPhase, Conforming, Phase, Peer, InPhase,
                 InMessage, PeerMessage, Reads, SendFbUpdateRequest,
                 vars, session, parser, server
<1>1. ASSUME NEW h, Start(h) PROVE Lockstep' /\ HeaderInPhase'
  BY <1>1 DEF Start
<1>2. CASE User
  BY <1>1, <1>2 DEF User, Stop, Pointer, UserStart, AutoStart
<1>3. CASE Timer
  BY <1>1, <1>3 DEF Timer, OnReconnect, OnReqTimer, OnNudge
<1>4. CASE OnConnected \/ OnClosed
  BY <1>4 DEF OnConnected, OnClosed
<1>5. CASE Version \/ SecTypes \/ SecResult
  BY <1>5 DEF Version, SecTypes, SecResult, Answer, PeerVersion, PeerChoice,
              PeerClientInit
<1>6. CASE ServerInit \/ \E g \in Geometry : ServerInitHeader(g)
  BY <1>6 DEF ServerInit, ServerInitHeader
<1>7. CASE BadGeometry \/ Rejection
  BY <1>7 DEF BadGeometry, Rejection, SecTypesRefused, SecResultFailed,
              ProtoError, RectUnsupported, GiveUp, Fail
<1>8. CASE Update
  BY <1>8 DEF Update, FbuType, FbuHead, RectHead, RectData
<1>9. CASE UNCHANGED vars
  BY <1>9
<1> QED
  BY <1>2, <1>3, <1>4, <1>5, <1>6, <1>7, <1>8, <1>9 DEF Next, Handshake

\* Attempt, case by case.
Stages ==
    /\ Attempt \in 1 .. 8
    /\ sock = "unconnected" => Attempt = 7
    /\ sock = "connecting" => Attempt = 6
    /\ Doomed => Attempt = 8
    /\ sock = "connected" /\ ~Doomed =>
         /\ phase = "VERSION" => Attempt = 5
         /\ phase = "SECTYPES" => Attempt = 4
         /\ phase = "SECRESULT" => Attempt = 3
         /\ phase = "SERVERINIT" /\ ~header => Attempt = 2
         /\ phase = "SERVERINIT" /\ header => Attempt = 1

LEMMA Attempts == HomingInv => Stages
  BY DEF HomingInv, IInv, TypeOK, SessionType, ParserType, Phase, Attempt, Doomed,
         Stages

\* What is left counts down with the attempt, and more with the request timer.
LEMMA Countdown ==
    ASSUME NEW a \in 1 .. 8, NEW b \in 1 .. 8, Attempt = a, Attempt' = b, ~Live
    PROVE  /\ Live' => Distance' < Distance
           /\ reqTimer' = reqTimer /\ b <= a => Distance' <= Distance
           /\ reqTimer' = reqTimer /\ b < a => Distance' < Distance
           /\ reqTimer /\ ~reqTimer' => Distance' < Distance
<1>1. /\ reqTimer => Distance = a + 8
      /\ ~reqTimer => Distance = a
  BY DEF Distance
<1>2. ASSUME Live' PROVE Distance' = 0
  BY <1>2 DEF Distance
<1>3. ASSUME ~Live', reqTimer' PROVE Distance' = b + 8
  BY <1>3 DEF Distance
<1>4. ASSUME ~Live', ~reqTimer' PROVE Distance' = b
  BY <1>4 DEF Distance
<1>5. CASE Live'
  <2>1. Distance' = 0
    BY <1>2, <1>5
  <2> QED
    BY <1>1, <2>1, <1>5
<1>6. CASE ~Live' /\ reqTimer /\ reqTimer'
  BY <1>1, <1>3, <1>6
<1>7. CASE ~Live' /\ reqTimer /\ ~reqTimer'
  <2>1. Distance = a + 8 /\ Distance' = b
    BY <1>1, <1>4, <1>7
  <2>2. b < a + 8
    OBVIOUS
  <2> QED
    BY <1>7, <2>1, <2>2
<1>8. CASE ~Live' /\ ~reqTimer /\ ~reqTimer'
  BY <1>1, <1>4, <1>8
<1>9. CASE ~Live' /\ ~reqTimer /\ reqTimer'
  BY <1>9
<1> QED
  BY <1>5, <1>6, <1>7, <1>8, <1>9

\* A step that brings the attempt nearer, or takes the request timer away, is
\* progress; one that does neither harm nor good is allowed.
LEMMA Nearer ==
    ASSUME HomingInv, HomingInv', ~Live
    PROVE  /\ Live' => Distance' < Distance
           /\ reqTimer' = reqTimer /\ Attempt' <= Attempt => Distance' <= Distance
           /\ reqTimer' = reqTimer /\ Attempt' < Attempt => Distance' < Distance
           /\ reqTimer /\ ~reqTimer' => Distance' < Distance
<1>1. Stages
  BY Attempts
<1>2. Stages'
  BY Attempts, PTL
<1>3. PICK a \in 1 .. 8 : Attempt = a
  BY <1>1 DEF Stages
<1>4. PICK b \in 1 .. 8 : Attempt' = b
  BY <1>2 DEF Stages
<1> QED
  BY <1>3, <1>4, Countdown

\* Each step that fairness grants to a wanted session is progress.
LEMMA FairNears ==
    ASSUME HomingInv, HomingInv', FairStep, active, ~Live
    PROVE  Distance' < Distance
<1>1. Stages
  BY Attempts
<1>2. Stages'
  BY Attempts, PTL
<1>3. /\ sock \in {"unconnected", "connecting", "connected"}
      /\ header \in BOOLEAN /\ phase \in Phase /\ peer \in Peer
      /\ sock = "connecting" => phase = "VERSION" /\ peer = "version"
      /\ Lockstep /\ HeaderInPhase
      /\ host # NoHost /\ reqTimer \in BOOLEAN
      /\ reconnectTimer => sock = "unconnected"
  BY DEF HomingInv, IInv, TypeOK, SessionType, ParserType, ServerType, TimerType,
         FreshSocket, Ownership, RetryArmed
<1> USE <1>3 DEF Phase, InPhase, Stages, Doomed, Conforming, session, parser, timers, server
<1>4. ASSUME reqTimer' = reqTimer, Attempt' < Attempt
      PROVE  Distance' < Distance
  BY <1>4, Nearer
<1>5. CASE OnReconnect
  BY <1>1, <1>2, <1>4, <1>5 DEF OnReconnect, Start
<1>6. CASE OnReqTimer
  BY <1>6, Nearer DEF OnReqTimer
<1>7. CASE OnConnected
  BY <1>1, <1>2, <1>4, <1>7 DEF OnConnected, HeaderInPhase
<1>8. CASE Conforming /\ (Version \/ SecTypes \/ SecResult)
  <2> USE <1>1, <1>2, <1>8
          DEF Answer, PeerVersion, PeerChoice, PeerClientInit, Reads, Lockstep,
              HeaderInPhase
  <2>1. CASE Version
    <3>1. Attempt = 5 /\ Attempt' = 4
      BY <2>1 DEF Version
    <3> QED
      BY <2>1, <3>1, <1>4 DEF Version
  <2>2. CASE SecTypes
    <3>1. Attempt = 4 /\ Attempt' = 3
      BY <2>2 DEF SecTypes
    <3> QED
      BY <2>2, <3>1, <1>4 DEF SecTypes
  <2>3. CASE SecResult
    <3>1. Attempt = 3 /\ Attempt' = 2
      BY <2>3 DEF SecResult
    <3> QED
      BY <2>3, <3>1, <1>4 DEF SecResult
  <2> QED
    BY <2>1, <2>2, <2>3
<1>9. CASE Conforming /\ ServerInit
  BY <1>9, Nearer DEF ServerInit, Live
<1>10. CASE Conforming /\ BadGeometry
  BY <1>1, <1>2, <1>4, <1>10 DEF BadGeometry, GiveUp, Fail
<1>11. CASE Conforming /\ \E g \in Usable : ServerInitHeader(g)
  BY <1>1, <1>2, <1>4, <1>11 DEF ServerInitHeader
<1>12. CASE ~Conforming /\ OnClosed
  BY <1>1, <1>2, <1>4, <1>12 DEF OnClosed
<1> QED
  BY <1>5, <1>6, <1>7, <1>8, <1>9, <1>10, <1>11, <1>12 DEF FairStep

\* Live is at most sixteen such steps away.
LEMMA DistanceBounded == HomingInv => Distance \in 0 .. 16
<1> SUFFICES ASSUME HomingInv PROVE Distance \in 0 .. 16
  OBVIOUS
<1>1. PICK a \in 1 .. 8 : Attempt = a
  BY Attempts DEF Stages
<1>2. Distance \in {0, a, a + 8}
  BY <1>1 DEF Distance
<1> QED
  BY <1>2

LEMMA LessIsFine ==
    ASSUME HomingInv, HomingInv', Distance' < Distance
    PROVE  Distance' <= Distance
<1>1. (Distance \in 0 .. 16)'
  BY DistanceBounded, PTL
<1>2. PICK d \in 0 .. 16 : Distance = d
  BY DistanceBounded
<1>3. PICK e \in 0 .. 16 : Distance' = e
  BY <1>1
<1> QED
  BY <1>2, <1>3

\* No other step leads away from live.
LEMMA NoneLeadsAway ==
    ASSUME HomingInv, HomingInv', [Next]_vars, ~FairStep,
           active, ~Live, active', ~Disturbance
    PROVE  Distance' <= Distance
<1>1. Stages
  BY Attempts
<1>2. Stages'
  BY Attempts, PTL
<1>3. /\ phase \in Phase /\ sock \in {"unconnected", "connecting", "connected"}
      /\ nudgeTimer => Live
  BY DEF HomingInv, IInv, TypeOK, SessionType, ParserType, StatusTruth
<1>4. ASSUME reqTimer' = reqTimer, Attempt' = Attempt PROVE Distance' <= Distance
  <2>1. PICK a \in 1 .. 8 : Attempt = a
    BY <1>1 DEF Stages
  <2> QED
    BY <1>4, <2>1, Nearer
<1>5. ASSUME UNCHANGED <<sock, phase, header, geom, peer, reqTimer>>
      PROVE  Distance' <= Distance
  <2>1. Attempt' = Attempt
    BY <1>5 DEF Attempt, Doomed, Conforming
  <2> QED
    BY <1>4, <1>5, <2>1
\* A server that lost track stays lost.
<1>6. ASSUME Handshake, ~Conforming PROVE Distance' <= Distance
  <2>1. CASE ServerInit
    BY <2>1, Nearer, LessIsFine DEF ServerInit, Live, InPhase
  <2>2. CASE ~ServerInit
    <3>1. /\ sock = "connected" /\ sock' = "connected"
          /\ peer = "confused" /\ peer' = "confused" /\ reqTimer' = reqTimer
      BY <1>6, <2>2
         DEF Handshake, Version, SecTypes, SecResult, ServerInitHeader, Answer,
             InPhase, Conforming, PeerVersion, PeerChoice, PeerClientInit,
             Reads, timers, server
    <3>2. Attempt = 8 /\ Attempt' = 8
      BY <1>1, <1>2, <3>1 DEF Stages, Doomed, Conforming
    <3> QED
      BY <1>4, <3>1, <3>2
  <2> QED
    BY <2>1, <2>2
<1>7. CASE Handshake /\ Conforming
  <2>1. FairStep \/ Disturbance
    BY <1>7 DEF Handshake, FairStep, Disturbance
  <2> QED
    BY <2>1
<1>8. CASE User
  BY <1>8 DEF User, Stop, UserStart, AutoStart, Disturbance
<1>9. CASE Timer
  BY <1>3, <1>9 DEF Timer, FairStep, OnNudge
<1>10. CASE OnConnected \/ OnClosed
  BY <1>10 DEF FairStep, Disturbance
<1>11. CASE BadGeometry
  <2>1. ~Conforming
    BY <1>11 DEF FairStep
  <2>2. sock = "connected" /\ sock' = "unconnected" /\ reqTimer' = reqTimer
    BY <1>11 DEF BadGeometry, GiveUp, Fail, InPhase
  <2>3. Attempt = 8 /\ Attempt' = 7
    BY <1>1, <1>2, <2>1, <2>2 DEF Stages, Doomed
  <2> QED
    BY <2>2, <2>3, Nearer, LessIsFine
<1>12. CASE Update
  BY <1>12 DEF Update, FbuType, FbuHead, RectHead, RectData, InMessage, Live,
               InPhase
<1>13. CASE Rejection
  BY <1>13 DEF Disturbance
<1>14. CASE UNCHANGED vars
  BY <1>5, <1>14 DEF vars, parser, timers, server
<1> QED
  BY <1>6, <1>7, <1>8, <1>9, <1>10, <1>11, <1>12, <1>13, <1>14 DEF Next

\* The safety core of SelfHeals: an undisturbed session comes ever nearer to
\* live, by each step that fairness grants, from at most sixteen steps away.
THEOREM WayBack == Spec => NearsLive /\ [](Distance \in 0 .. 16)
<1>1. Init => Lockstep /\ HeaderInPhase
  BY DEF Init, Lockstep, HeaderInPhase
<1>2. Spec => []HomingInv
  BY <1>1, InitIInv, HomingInductive, PTL DEF Spec, HomingInv
<1>3. HomingInv /\ HomingInv' /\ [Next]_vars
         => [active /\ ~Live /\ active' /\ ~Disturbance =>
                /\ Distance' <= Distance
                /\ FairStep => Distance' < Distance]_vars
  <2> SUFFICES ASSUME HomingInv, HomingInv', [Next]_vars,
                      active, ~Live, active', ~Disturbance
               PROVE  /\ Distance' <= Distance
                      /\ FairStep => Distance' < Distance
    OBVIOUS
  <2>1. CASE FairStep
    BY <2>1, FairNears, LessIsFine
  <2>2. CASE ~FairStep
    BY <2>2, NoneLeadsAway
  <2> QED
    BY <2>1, <2>2
<1> QED
  BY <1>2, <1>3, DistanceBounded, PTL DEF Spec, NearsLive
=============================================================================
