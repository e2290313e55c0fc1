----------------------------- MODULE VncClient -----------------------------
(***************************************************************************)
(* The RFB (VNC) client of the launcher app: class VncClient of            *)
(* cascades-app/BridgeLauncher/src/VncClient.cpp.  QML starts and stops it *)
(* and forwards touches; Qt delivers socket and timer events.  All of it   *)
(* runs on one thread, so each slot or invokable is one action.            *)
(*                                                                         *)
(* Abstractions.                                                           *)
(*  - The byte stream is read field by field, as process() consumes it.    *)
(*    A field that has not arrived in full stays in m_in with no effect,   *)
(*    which is the same as its bytes being still on the wire; the one      *)
(*    exception is the ServerInit header, acted on before the desktop name *)
(*    is complete, and `header' records it.  A readyRead that carries      *)
(*    several fields is those fields one after the other.                  *)
(*  - The framebuffer geometry is a value of Usable (accepted by the test  *)
(*    of line 279), "zero" or "huge" (refused by it).  Pixels are left out.*)
(*  - m_suppressReconnect is TRUE only inside start(), stop() and fail(),  *)
(*    around abort(): the onClosed() that abort() triggers returns at line *)
(*    129, so an abort changes the socket and nothing else.  Qt reports a  *)
(*    remote close with error() and then disconnected(); the second        *)
(*    onClosed() finds the reconnect timer running and changes nothing.    *)
(*  - m_port is 5900 in every call of the app.                             *)
(*                                                                         *)
(* The server is the environment.  `peer' is what a conforming RFB server  *)
(* expects to read next on this connection, and "confused" once it read    *)
(* something else; it is changed by what the client writes.                *)
(***************************************************************************)
EXTENDS Naturals

CONSTANTS
    Host,       \* addresses a session may be started with
    NoHost,     \* the empty m_host
    Usable,     \* framebuffer geometries the client accepts
    MaxRects,   \* bound on the rectangles of one FramebufferUpdate
    MaxFrames   \* bound at which the frame counter stops counting

ASSUME HostAssumption   == NoHost \notin Host
ASSUME UsableAssumption == {"none", "zero", "huge"} \cap Usable = {}
ASSUME BoundAssumption  == MaxRects \in Nat \ {0} /\ MaxFrames \in Nat \ {0}

VARIABLES
    host, active, userStopped, streaming, state, frames,  \* session
    sock,                               \* QTcpSocket::state()
    phase, msgState, rectsLeft,         \* protocol position
    header,                             \* m_in holds a ServerInit header
    geom, fb,                           \* m_fbw x m_fbh; size m_fb was made for
    reqTimer, reconnectTimer, nudgeTimer,   \* QTimer::isActive()
    peer,       \* what the server expects to read next
    asked,      \* an update request was sent and not answered yet
    touched     \* the frozen feed was touched since the link was lost

session == <<host, active, userStopped, streaming, state, frames>>
parser  == <<phase, msgState, rectsLeft, header, geom, fb>>
timers  == <<reqTimer, reconnectTimer, nudgeTimer>>
server  == <<peer, asked, touched>>
vars    == <<session, sock, parser, timers, server>>

Geometry == Usable \cup {"zero", "huge"}
Phase    == {"VERSION", "SECTYPES", "SECRESULT", "SERVERINIT", "NORMAL"}
MsgState == {"TYPE", "FBU_HEAD", "RECT_HEAD", "RECT_DATA"}
State    == {"idle", "connecting", "handshaking", "streaming", "reconnecting"}
Peer     == {"version", "security", "clientinit", "messages", "confused"}

SessionType ==
    /\ host \in Host \cup {NoHost}
    /\ active \in BOOLEAN /\ userStopped \in BOOLEAN /\ streaming \in BOOLEAN
    /\ state \in State
    /\ frames \in 0 .. MaxFrames
    /\ sock \in {"unconnected", "connecting", "connected"}
ParserType ==
    /\ phase \in Phase /\ msgState \in MsgState
    /\ rectsLeft \in 0 .. MaxRects
    /\ header \in BOOLEAN
    /\ geom \in Geometry \cup {"none"} /\ fb \in Usable \cup {"none"}
TimerType ==
    /\ reqTimer \in BOOLEAN /\ reconnectTimer \in BOOLEAN
    /\ nudgeTimer \in BOOLEAN
ServerType ==
    /\ peer \in Peer
    /\ asked \in BOOLEAN /\ touched \in BOOLEAN

\* Every variable stays in its range; in particular --m_rectsLeft never takes
\* the count of rectangles below zero.
TypeOK == SessionType /\ ParserType /\ TimerType /\ ServerType

Init ==
    /\ host = NoHost /\ active = FALSE /\ userStopped = FALSE
    /\ streaming = FALSE /\ state = "idle" /\ frames = 0
    /\ sock = "unconnected"
    /\ phase = "VERSION" /\ msgState = "TYPE" /\ rectsLeft = 0
    /\ header = FALSE /\ geom = "none" /\ fb = "none"
    /\ reqTimer = FALSE /\ reconnectTimer = FALSE /\ nudgeTimer = FALSE
    /\ peer = "version" /\ asked = FALSE /\ touched = FALSE

(***************************************************************************)
(* What the server makes of the bytes the client writes.  Each operator    *)
(* gives the peer's next expectation, given the present one.               *)
(***************************************************************************)
Reads(p, expected, next) == IF p = expected THEN next ELSE "confused"

Conforming == peer # "confused"

PeerVersion(p)    == Reads(p, "version", "security")
PeerChoice(p)     == Reads(p, "security", "clientinit")
PeerClientInit(p) == Reads(p, "clientinit", "messages")
PeerMessage(p)    == Reads(p, "messages", "messages")

\* sendFbUpdateRequest(): ten bytes on the socket, whatever the phase.
SendFbUpdateRequest ==
    /\ peer' = PeerMessage(peer)
    /\ asked' = TRUE

(***************************************************************************)
(* Steps that several handlers share.  A definition named M_... is a       *)
(* plausible slip in the code modelled by the definition after it; the     *)
(* model does not use it.                                                  *)
(***************************************************************************)
M_CancelRetry == UNCHANGED reconnectTimer
CancelRetry   == reconnectTimer' = FALSE

\* onClosed() and fail() both want the mirror back, unless it was given up.
M_ArmRetry == reconnectTimer' = (reconnectTimer \/ (active /\ frames > 0))
ArmRetry   == reconnectTimer' = (reconnectTimer \/ (active /\ host # NoHost))

M_StopNudge == UNCHANGED nudgeTimer
StopNudge   == nudgeTimer' = FALSE

\* The last frame stays on screen across a reconnect.
M_KeepPicture == streaming' = FALSE
KeepPicture   == UNCHANGED streaming

(***************************************************************************)
(* Session control.                                                        *)
(***************************************************************************)
\* start(): a new connection of the session; streaming, the request timer and
\* the nudge timer are left as they are.
Start(h) ==
    /\ CancelRetry
    /\ userStopped' = FALSE
    /\ host' = h
    /\ header' = FALSE
    /\ phase' = "VERSION" /\ msgState' = "TYPE"
    /\ frames' = 0
    /\ active' = TRUE
    /\ state' = "connecting"
    /\ sock' = "connecting"
    /\ peer' = "version" /\ asked' = FALSE
    /\ UNCHANGED <<streaming, reqTimer, nudgeTimer, rectsLeft, geom, fb>>

\* LAUNCH MIRROR and the link handler of main.qml: both are reachable only
\* while the mirror is not active.
UserStart(h) ==
    /\ ~active
    /\ Start(h)
    /\ touched' = FALSE

\* The slot wired to ConnectionManager::linkOnline.
AutoStart(h) ==
    /\ ~active /\ ~userStopped
    /\ Start(h)
    /\ touched' = FALSE

\* DISCONNECT: the button is on the mirror pane.
Stop ==
    /\ active
    /\ userStopped' = TRUE
    /\ host' = NoHost
    /\ active' = FALSE
    /\ streaming' = FALSE
    /\ CancelRetry
    /\ StopNudge
    /\ sock' = "unconnected"
    /\ header' = FALSE
    /\ state' = "idle"
    /\ touched' = FALSE
    /\ UNCHANGED <<frames, phase, msgState, rectsLeft, geom, fb, reqTimer,
                   peer, asked>>

\* fail(): a protocol failure aborts the socket and arms the reconnect timer.
Fail ==
    /\ sock' = "unconnected"
    /\ header' = FALSE
    /\ StopNudge
    /\ state' = "reconnecting"
    /\ ArmRetry
    /\ KeepPicture
    /\ touched' = FALSE
    /\ UNCHANGED <<host, active, userStopped, frames>>

\* onClosed(): the connection attempt failed or the link was lost.
OnClosed ==
    /\ sock # "unconnected"
    /\ sock' = "unconnected"
    /\ IF active
         THEN /\ StopNudge
              /\ state' = "reconnecting"
              /\ ArmRetry
         ELSE UNCHANGED <<nudgeTimer, state, reconnectTimer>>
    /\ KeepPicture
    /\ touched' = FALSE
    /\ UNCHANGED <<host, active, userStopped, frames, parser, reqTimer, peer,
                   asked>>

\* onReconnect(), 1200 ms after the loss.  A request timer (30 ms) still
\* running then was armed by a touch of the frozen feed meanwhile.
OnReconnect ==
    /\ reconnectTimer
    /\ reqTimer => touched
    /\ IF active /\ host # NoHost
         THEN Start(host)
         ELSE /\ reconnectTimer' = FALSE
              /\ UNCHANGED <<session, sock, parser, reqTimer, nudgeTimer,
                             peer, asked>>
    /\ UNCHANGED touched

\* onConnected().
OnConnected ==
    /\ sock = "connecting"
    /\ sock' = "connected"
    /\ state' = "handshaking"
    /\ UNCHANGED <<host, active, userStopped, streaming, frames, parser,
                   timers, server>>

(***************************************************************************)
(* The handshake branches of process().                                    *)
(***************************************************************************)
InPhase(p) == sock = "connected" /\ phase = p

\* A field read in full and answered: the next phase begins.
Answer(from, to) ==
    /\ InPhase(from)
    /\ phase' = to
    /\ UNCHANGED <<session, sock, msgState, rectsLeft, header, geom, fb,
                   timers, asked, touched>>

Version   == Answer("VERSION", "SECTYPES")     /\ peer' = PeerVersion(peer)
SecTypes  == Answer("SECTYPES", "SECRESULT")   /\ peer' = PeerChoice(peer)
SecResult == Answer("SECRESULT", "SERVERINIT") /\ peer' = PeerClientInit(peer)

\* The ways a server's answer ends in fail(), with the parser left as it is.
GiveUp ==
    Fail /\ UNCHANGED <<phase, rectsLeft, geom, fb, reqTimer, peer, asked>>

SecTypesRefused == InPhase("SECTYPES")  /\ GiveUp /\ UNCHANGED msgState
SecResultFailed == InPhase("SECRESULT") /\ GiveUp /\ UNCHANGED msgState

\* The 24 bytes are there and the desktop name is not: the size is taken over
\* already, and the header stays in m_in.
ServerInitHeader(g) ==
    /\ InPhase("SERVERINIT") /\ ~header
    /\ geom' = g
    /\ header' = TRUE
    /\ UNCHANGED <<session, sock, phase, msgState, rectsLeft, fb, timers,
                   server>>

\* line 282: a framebuffer for the announced size.
M_NewBuffer == fb' = IF fb = "none" THEN geom ELSE fb
NewBuffer   == fb' = geom

\* The name is complete too, and the geometry is acceptable.
ServerInit ==
    /\ InPhase("SERVERINIT") /\ header
    /\ geom \in Usable
    /\ header' = FALSE
    /\ NewBuffer
    /\ SendFbUpdateRequest      \* after sendSetup(), read by the same rule
    /\ streaming' = TRUE
    /\ nudgeTimer' = TRUE
    /\ state' = "streaming"
    /\ phase' = "NORMAL" /\ msgState' = "TYPE"
    /\ UNCHANGED <<host, active, userStopped, frames, sock, rectsLeft, geom,
                   reqTimer, reconnectTimer, touched>>

BadGeometry ==
    /\ InPhase("SERVERINIT") /\ header
    /\ geom \notin Usable
    /\ GiveUp /\ UNCHANGED msgState

(***************************************************************************)
(* The P_NORMAL branches of process().                                     *)
(***************************************************************************)
InMessage(m) == InPhase("NORMAL") /\ msgState = m

\* Bell, SetColourMapEntries and ServerCutText are skipped and change nothing.
FbuType ==
    /\ InMessage("TYPE")
    /\ msgState' = "FBU_HEAD"
    /\ asked' = FALSE
    /\ UNCHANGED <<session, sock, phase, rectsLeft, header, geom, fb, timers,
                   peer, touched>>

\* An unknown message type.
ProtoError == InMessage("TYPE") /\ GiveUp /\ UNCHANGED msgState

M_AfterHead(n) == msgState' = "RECT_HEAD"
AfterHead(n)   == msgState' = IF n > 0 THEN "RECT_HEAD" ELSE "TYPE"

\* An empty update is answered through the timer too.
M_AskAfterEmpty(n) == UNCHANGED reqTimer
AskAfterEmpty(n)   == reqTimer' = (reqTimer \/ n = 0)

FbuHead(n) ==
    /\ InMessage("FBU_HEAD")
    /\ rectsLeft' = n
    /\ AfterHead(n)
    /\ AskAfterEmpty(n)
    /\ UNCHANGED <<session, sock, phase, header, geom, fb, reconnectTimer,
                   nudgeTimer, server>>

\* A RAW rectangle; any other encoding fails at once, in RectUnsupported.
RectHead ==
    /\ InMessage("RECT_HEAD")
    /\ msgState' = "RECT_DATA"
    /\ UNCHANGED <<session, sock, phase, rectsLeft, header, geom, fb, timers,
                   server>>

RectUnsupported ==
    InMessage("RECT_HEAD") /\ GiveUp /\ msgState' = "RECT_DATA"

RectData ==
    /\ InMessage("RECT_DATA")
    /\ rectsLeft' = rectsLeft - 1
    /\ IF rectsLeft > 1
         THEN /\ msgState' = "RECT_HEAD"
              /\ UNCHANGED <<reqTimer, frames>>
         ELSE /\ reqTimer' = TRUE
              /\ frames' = IF frames < MaxFrames THEN frames + 1 ELSE frames
              /\ msgState' = "TYPE"
    /\ UNCHANGED <<host, active, userStopped, streaming, state, sock, phase,
                   header, geom, fb, reconnectTimer, nudgeTimer, server>>

(***************************************************************************)
(* Timers and touches.                                                     *)
(***************************************************************************)
CanWrite == sock = "connected"

OnReqTimer ==
    /\ reqTimer
    /\ reqTimer' = FALSE
    /\ IF streaming /\ CanWrite THEN SendFbUpdateRequest
                                ELSE UNCHANGED <<peer, asked>>
    /\ UNCHANGED <<session, sock, parser, reconnectTimer, nudgeTimer, touched>>

\* The nudge timer is periodic: firing leaves it running.
OnNudge ==
    /\ nudgeTimer
    /\ IF streaming /\ CanWrite THEN SendFbUpdateRequest
                                ELSE UNCHANGED <<peer, asked>>
    /\ UNCHANGED <<session, sock, parser, timers, touched>>

Live == active /\ InPhase("NORMAL")

\* pointer(): the feed is visible, hence touchable, while streaming; the
\* event is written if the socket is connected.
Pointer ==
    /\ streaming /\ geom \notin {"none", "zero"}
    /\ peer' = IF CanWrite THEN PeerMessage(peer) ELSE peer
    /\ reqTimer' = TRUE
    /\ touched' = (touched \/ ~Live)
    /\ UNCHANGED <<session, sock, parser, reconnectTimer, nudgeTimer, asked>>

(***************************************************************************)
(* The specification.                                                      *)
(***************************************************************************)
User      == Stop \/ Pointer \/ \E h \in Host : UserStart(h) \/ AutoStart(h)
Timer     == OnReconnect \/ OnReqTimer \/ OnNudge
Handshake == Version \/ SecTypes \/ SecResult \/ ServerInit
             \/ \E g \in Geometry : ServerInitHeader(g)
Update    == FbuType \/ RectHead \/ RectData
             \/ \E n \in 0 .. MaxRects : FbuHead(n)
Rejection == SecTypesRefused \/ SecResultFailed \/ ProtoError \/ RectUnsupported

Next == \/ User \/ Timer \/ OnConnected \/ OnClosed
        \/ Handshake \/ BadGeometry \/ Update \/ Rejection

Spec == Init /\ [][Next]_vars

(***************************************************************************)
(* Fairness: Qt fires an armed timer; a connection attempt to a host that  *)
(* is up completes; a server that is not confused answers; a confused one  *)
(* gives the connection up.                                                *)
(***************************************************************************)
Fairness ==
    /\ WF_vars(OnReconnect) /\ WF_vars(OnReqTimer)
    /\ WF_vars(OnConnected)
    /\ WF_vars(Conforming /\ (Version \/ SecTypes \/ SecResult))
    /\ WF_vars(Conforming /\ (ServerInit \/ BadGeometry))
    /\ WF_vars(Conforming /\ \E g \in Usable : ServerInitHeader(g))
    /\ WF_vars(Conforming /\ (RectHead \/ RectData))
    /\ WF_vars(Conforming /\ \E n \in 0 .. MaxRects : FbuHead(n))
    /\ WF_vars(~Conforming /\ OnClosed)

FairSpec == Spec /\ Fairness

(***************************************************************************)
(* What must hold.                                                         *)
(***************************************************************************)
\* The text and flags QML shows agree with the connection: "streaming" only
\* over a finished handshake with the nudge timer keeping it alive,
\* "handshaking" only over an unfinished one, "reconnecting" only without a
\* socket, and "idle" exactly when no session is wanted.
StatusTruth ==
    /\ state = "idle"         <=> ~active
    /\ state = "connecting"   <=> sock = "connecting"
    /\ state = "handshaking"  <=> sock = "connected" /\ phase # "NORMAL"
    /\ state = "streaming"    <=> Live
    /\ state = "reconnecting" <=> active /\ sock = "unconnected"
    /\ nudgeTimer             <=> Live
    /\ Live => streaming

\* A wanted session without a socket always has its retry armed, and the retry
\* is never armed otherwise: a stray one would tear down a live session, since
\* onReconnect() calls start(), which aborts the socket.
RetryArmed == reconnectTimer <=> active /\ sock = "unconnected"

\* The picture cannot freeze on an idle client: while live, an update request
\* is unanswered, or the timer that sends the next one is running, or an
\* update is being received whose end starts that timer.
NoLostRequest == Live => asked \/ reqTimer \/ msgState # "TYPE"

\* copyRect() and buildImage() only ever run over a framebuffer made for the
\* geometry in force, across reconnects to a screen of another size.
BufferFits == phase = "NORMAL" => geom \in Usable /\ fb = geom

\* What the server expects next is what the phase will send next, unless the
\* user touched the frozen feed of a lost link: no timer left over from the
\* previous connection writes into the new handshake.
InStep ==
    sock = "connected" /\ ~touched =>
        /\ phase = "VERSION"   <=> peer = "version"
        /\ phase = "SECTYPES"  <=> peer = "security"
        /\ phase = "SECRESULT" <=> peer = "clientinit"
        /\ Conforming

\* After DISCONNECT nothing of the session is left that could bring it back:
\* no socket, no retry, no nudge, no host, no feed to touch.
StoppedIsQuiet ==
    userStopped => /\ ~active /\ ~streaming /\ host = NoHost
                   /\ sock = "unconnected"
                   /\ ~reconnectTimer /\ ~nudgeTimer

\* A touch reaches the server as a PointerEvent (VncClient.hpp:36-38), so it
\* never lands in a handshake.
TouchIsPointerEvent == Conforming

(***************************************************************************)
(* The inductive strengthening.  The named parts above lean on facts that  *)
(* no property states: who owns the socket, where a new connection starts, *)
(* and that a request timer which could write into a handshake was armed   *)
(* by a touch.                                                             *)
(***************************************************************************)
Ownership == /\ active <=> host # NoHost
             /\ sock # "unconnected" => active
             /\ streaming => active
             /\ userStopped => ~active
FreshSocket  == sock = "connecting" => phase = "VERSION" /\ peer = "version"
RectCount    == msgState \in {"RECT_HEAD", "RECT_DATA"} => rectsLeft > 0
NoStaleTimer ==
    sock # "unconnected" /\ ~Live /\ streaming /\ reqTimer => touched

IInv == /\ TypeOK /\ StatusTruth /\ RetryArmed /\ NoLostRequest /\ BufferFits
        /\ InStep /\ StoppedIsQuiet
        /\ Ownership /\ FreshSocket /\ RectCount /\ NoStaleTimer

(***************************************************************************)
(* The abstract session this client implements.                            *)
(***************************************************************************)
LinkState == IF ~active THEN "off" ELSE IF Live THEN "live" ELSE "linking"

Session == INSTANCE MirrorSession
    WITH link <- LinkState, target <- host, feed <- streaming,
         declined <- userStopped

\* A failure of any kind leads back to linking to the same host with the
\* picture kept, and only DISCONNECT ends a session.
ImplementsSession == Session!Spec

(***************************************************************************)
(* Liveness.  Disturbance: the link fails, the server rejects the session  *)
(* or sends an unusable geometry, or the frozen feed is touched.           *)
(***************************************************************************)
Disturbance == \/ Conforming /\ OnClosed
               \/ Rejection
               \/ \E g \in Geometry \ Usable : ServerInitHeader(g)
               \/ ~Live /\ Pointer
Calm == <>[][~Disturbance]_vars

\* Once disturbances end, a wanted mirror comes back to live by itself, however
\* many reconnects failed before and whatever those left in the server.
SelfHeals == Calm => [](active => <>(Live \/ ~active))

\* Once disturbances end, a live mirror does not starve: after every update it
\* asks for the next one.
KeepsAsking == Calm => [](Live => <>(asked \/ ~Live))

(***************************************************************************)
(* The safety core of SelfHeals: how far a wanted session is from live.    *)
(***************************************************************************)
\* A connection that cannot go live: the server lost track of it, or has
\* announced a screen that line 279 refuses.
Doomed == sock = "connected" /\ (~Conforming \/ (header /\ geom \notin Usable))

\* What is left of this attempt; a doomed one has yet to end.
Attempt == CASE sock = "unconnected" -> 7
             [] sock = "connecting"  -> 6
             [] Doomed               -> 8
             [] OTHER -> CASE phase = "VERSION"   -> 5
                           [] phase = "SECTYPES"  -> 4
                           [] phase = "SECRESULT" -> 3
                           [] OTHER -> IF header THEN 1 ELSE 2

\* A request timer that a touch of the frozen feed left running may yet spoil
\* an attempt, once.
Distance == IF Live THEN 0 ELSE Attempt + IF reqTimer THEN 8 ELSE 0

FairStep == \/ OnReconnect \/ OnReqTimer \/ OnConnected
            \/ Conforming /\ (Version \/ SecTypes \/ SecResult)
            \/ Conforming /\ (ServerInit \/ BadGeometry)
            \/ Conforming /\ \E g \in Usable : ServerInitHeader(g)
            \/ ~Conforming /\ OnClosed

\* While nothing disturbs it, a wanted session only ever gets nearer to live:
\* no order of timers, answers, retries, pending touches and leftovers of dead
\* connections leads back, and each step that fairness grants is progress.
\* Distance is at most 16, so that many of them reach live; and one is always
\* to come (RetryArmed where there is no socket).
NearsLive == [][active /\ ~Live /\ active' /\ ~Disturbance =>
                    /\ Distance' <= Distance
                    /\ FairStep => Distance' < Distance]_vars

\* What NearsLive leans on besides IInv: touched or not, a server that has not
\* lost track is where the phase is; a header left in m_in is dropped before
\* the next connection.
Lockstep ==
    sock = "connected" /\ Conforming =>
        /\ phase = "VERSION"   <=> peer = "version"
        /\ phase = "SECTYPES"  <=> peer = "security"
        /\ phase = "SECRESULT" <=> peer = "clientinit"
HeaderInPhase == header => phase = "SERVERINIT" /\ sock # "connecting"
HomingInv == IInv /\ Lockstep /\ HeaderInPhase
=============================================================================
