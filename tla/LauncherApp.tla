---------------------------- MODULE LauncherApp ----------------------------
(***************************************************************************)
(* The launcher app with nothing abstracted away between its parts: the    *)
(* VNC client of VncClient and the ConnectionManager, joined by main.qml   *)
(* and main.cpp.  BridgeApp describes the same app over MirrorSession, the *)
(* promise of the client; here the client is the real one, byte protocol,  *)
(* timers and all, and the promise is to be kept in the app's own context, *)
(* where discovery goes on around the session and the process can end.     *)
(*                                                                         *)
(* The module extends VncClient, so Init, Next and vars are the client's;  *)
(* the app's are AppInit, AppNext and appVars.                             *)
(***************************************************************************)
EXTENDS VncClient

CONSTANT IpOf       \* as in ConnectionManager

VARIABLES
    running, saved, pairedHost, status, silentProbe, probing, probeTimer,
    scanning, rows, seen, scanTimer, probed,    \* ConnectionManager
    mirroring,          \* root.mirroring
    userDisconnected    \* root.userDisconnected

conn == INSTANCE ConnectionManager

connVars == <<running, saved, pairedHost, status, silentProbe, probing,
              probeTimer, scanning, rows, seen, scanTimer, probed>>
qml      == <<mirroring, userDisconnected>>
appVars  == <<connVars, vars, qml>>

AppInit ==
    conn!Init /\ Init /\ mirroring = FALSE /\ userDisconnected = FALSE

(***************************************************************************)
(* The connection manager's events.                                        *)
(***************************************************************************)
\* onLinkStatusChanged of main.qml, then the slot wired to linkOnline.
Online ==
    \/ /\ ~userDisconnected
       /\ UserStart(pairedHost)
       /\ mirroring' = TRUE /\ UNCHANGED userDisconnected
    \/ /\ userDisconnected
       /\ AutoStart(pairedHost)
       /\ UNCHANGED qml
    \/ /\ active \/ (userDisconnected /\ userStopped)
       /\ UNCHANGED <<vars, qml>>

ProbeSucceeds ==
    /\ conn!OnConnected
    /\ IF status # "connected" THEN Online ELSE UNCHANGED <<vars, qml>>

\* Steps of the connection manager that do not reach "connected".
Background ==
    /\ \/ conn!Start \/ conn!OnPoll \/ conn!OnFailed \/ conn!OnTimeout
       \/ conn!OnScanDone \/ \E h \in Host : conn!OnUdpReady(h)
    /\ UNCHANGED <<vars, qml>>

(***************************************************************************)
(* The user, on the pane that is visible.                                  *)
(***************************************************************************)
HomeVisible   == running /\ ~mirroring /\ ~active
MirrorVisible == running /\ (mirroring \/ active)

HomeButtons ==
    /\ HomeVisible
    /\ \/ \E h \in Host : conn!UserSelect(h)
       \/ conn!Scan
       \/ conn!Reconnect
    /\ UNCHANGED <<vars, qml>>

LaunchMirror ==
    /\ HomeVisible
    /\ conn!paired /\ status # "offline"
    /\ userDisconnected' = FALSE /\ mirroring' = TRUE
    /\ UserStart(pairedHost)
    /\ UNCHANGED connVars

Disconnect ==
    /\ MirrorVisible
    /\ userDisconnected' = TRUE /\ mirroring' = FALSE
    /\ Stop
    /\ UNCHANGED connVars

\* A touch of the picture, and everything the client does by itself.
ClientStep ==
    /\ \/ MirrorVisible /\ Pointer
       \/ Timer \/ OnConnected \/ OnClosed
       \/ Handshake \/ BadGeometry \/ Update \/ Rejection
    /\ UNCHANGED <<connVars, qml>>

\* A client as its constructor leaves it, with no connection yet: Init, primed.
NewClient ==
    /\ host' = NoHost /\ active' = FALSE /\ userStopped' = FALSE
    /\ streaming' = FALSE /\ state' = "idle" /\ frames' = 0
    /\ sock' = "unconnected"
    /\ phase' = "VERSION" /\ msgState' = "TYPE" /\ rectsLeft' = 0
    /\ header' = FALSE /\ geom' = "none" /\ fb' = "none"
    /\ reqTimer' = FALSE /\ reconnectTimer' = FALSE /\ nudgeTimer' = FALSE
    /\ peer' = "version" /\ asked' = FALSE /\ touched' = FALSE

\* The process ends; the next one has a new client.
Exit ==
    /\ conn!Exit
    /\ NewClient
    /\ mirroring' = FALSE /\ userDisconnected' = FALSE

AppNext == \/ ProbeSucceeds \/ Background \/ HomeButtons \/ LaunchMirror
           \/ Disconnect \/ ClientStep \/ Exit

AppSpec == AppInit /\ [][AppNext]_appVars

(***************************************************************************)
(* What must hold, and what only the whole app can say.                    *)
(***************************************************************************)
\* The mirror's socket is only ever open, and its retry only ever armed, for
\* the paired host of a running app: nothing of the session outlives its
\* pairing or its process.
SocketIsPaired ==
    sock # "unconnected" \/ reconnectTimer => running /\ host = pairedHost

\* DISCONNECT lasts: until LAUNCH MIRROR, whatever the link does meanwhile,
\* the client has no socket, nothing armed that could open one, and no
\* picture.
DisconnectLasts ==
    userDisconnected => /\ sock = "unconnected" /\ ~reconnectTimer
                        /\ ~nudgeTimer /\ ~streaming

\* A link shown as up is mirrored, or the retry that will mirror it is armed,
\* unless the user disconnected: "connected" over a client at rest is never
\* a state the app stays in.
LinkIsUsed ==
    status = "connected" /\ ~userDisconnected =>
        sock # "unconnected" \/ reconnectTimer

\* After DISCONNECT no connection is attempted but by LAUNCH MIRROR.
UserReconnects ==
    [][userDisconnected /\ sock' # "unconnected" => LaunchMirror]_appVars

\* Once launched, a session goes on to the same host under the same pairing,
\* through every failure, reply and probe: only DISCONNECT or the end of the
\* process ends it.
SessionStands ==
    [][active => \/ active' /\ UNCHANGED <<host, pairedHost>>
                 \/ Disconnect \/ Exit]_appVars
=============================================================================
