----------------------------- MODULE BridgeApp -----------------------------
(***************************************************************************)
(* The launcher app: ConnectionManager and the mirror client joined by     *)
(* main.qml and main.cpp.  The client is represented by MirrorSession,     *)
(* which VncClient implements.  A status change runs the QML handler and   *)
(* then the slot wired to linkOnline within the same event, so they are    *)
(* part of the connection manager's step.                                  *)
(***************************************************************************)
CONSTANTS Host, NoHost, IpOf    \* as in ConnectionManager

ASSUME AppHostAssumption == NoHost \notin Host

VARIABLES
    running, saved, pairedHost, status, silentProbe, probing, probeTimer,
    scanning, rows, seen, scanTimer, probed,    \* ConnectionManager
    link, target, feed, declined,               \* the mirror client
    mirroring,          \* root.mirroring
    userDisconnected    \* root.userDisconnected

conn   == INSTANCE ConnectionManager
mirror == INSTANCE MirrorSession

connVars   == <<running, saved, pairedHost, status, silentProbe, probing,
                probeTimer, scanning, rows, seen, scanTimer, probed>>
mirrorVars == <<link, target, feed, declined>>
qml        == <<mirroring, userDisconnected>>
vars       == <<connVars, mirrorVars, qml>>

SessionType ==
    /\ link \in {"off", "linking", "live"}
    /\ target \in Host \cup {NoHost} /\ (target = NoHost <=> link = "off")
    /\ feed \in BOOLEAN /\ declined \in BOOLEAN
    /\ mirroring \in BOOLEAN /\ userDisconnected \in BOOLEAN

\* Every variable stays in its range, and a session has a host while it runs.
TypeOK == conn!TypeOK /\ SessionType

Init == conn!Init /\ mirror!Init /\ mirroring = FALSE /\ userDisconnected = FALSE

(***************************************************************************)
(* The reaction to the link status.                                        *)
(***************************************************************************)
ShowMirror   == mirroring' = TRUE

M_MayLaunch == link = "off"
MayLaunch   == link = "off" /\ ~userDisconnected

\* onLinkStatusChanged of main.qml, then VncClient::autoStart on linkOnline,
\* which finds a session running if the handler launched one.
Online ==
    IF MayLaunch
      THEN mirror!Launch(pairedHost) /\ ShowMirror /\ UNCHANGED userDisconnected
      ELSE IF link = "off" /\ ~declined
             THEN mirror!AutoLaunch(pairedHost) /\ UNCHANGED qml
             ELSE UNCHANGED <<mirrorVars, qml>>

M_BecomesOnline == status = "offline"
BecomesOnline   == status # "connected"

ProbeSucceeds ==
    /\ conn!OnConnected
    /\ IF BecomesOnline THEN Online ELSE UNCHANGED <<mirrorVars, qml>>

\* Steps of the connection manager that do not reach "connected".
Background ==
    /\ \/ conn!Start \/ conn!OnPoll \/ conn!OnFailed \/ conn!OnTimeout
       \/ conn!OnScanDone \/ \E h \in Host : conn!OnUdpReady(h)
    /\ UNCHANGED <<mirrorVars, qml>>

(***************************************************************************)
(* The user: HOME and MIRROR are two panes, of which one is visible.       *)
(***************************************************************************)
M_HomeVisible == running
HomeVisible   == running /\ ~mirroring /\ link = "off"
MirrorVisible == running /\ (mirroring \/ link # "off")

\* The host list, ADD, SCAN FOR HOSTS and RECONNECT.
HomeButtons ==
    /\ HomeVisible
    /\ \/ \E h \in Host : conn!UserSelect(h)
       \/ conn!Scan
       \/ conn!Reconnect
    /\ UNCHANGED <<mirrorVars, qml>>

Rearm == userDisconnected' = FALSE

M_LaunchTarget == IF status = "connected" THEN pairedHost ELSE NoHost
LaunchTarget   == pairedHost

LaunchMirror ==
    /\ HomeVisible
    /\ conn!paired /\ status # "offline"
    /\ Rearm
    /\ mirroring' = TRUE
    /\ mirror!Launch(LaunchTarget)
    /\ UNCHANGED connVars

Disconnect ==
    /\ MirrorVisible
    /\ userDisconnected' = TRUE /\ mirroring' = FALSE
    /\ mirror!End
    /\ UNCHANGED connVars

\* The session's own progress and failures.
MirrorStep ==
    /\ mirror!GoLive \/ mirror!LoseLink
    /\ UNCHANGED <<connVars, qml>>

Exit ==
    /\ conn!Exit
    /\ link' = "off" /\ target' = NoHost /\ feed' = FALSE /\ declined' = FALSE
    /\ mirroring' = FALSE /\ userDisconnected' = FALSE

Next == \/ ProbeSucceeds \/ Background \/ HomeButtons \/ LaunchMirror
        \/ Disconnect \/ MirrorStep \/ Exit

Spec == Init /\ [][Next]_vars

\* The poll timer is periodic, main() calls start(), and a host that is up
\* answers a probe.
Fairness == /\ WF_vars(conn!Start /\ UNCHANGED <<mirrorVars, qml>>)
            /\ WF_vars(conn!OnPoll /\ UNCHANGED <<mirrorVars, qml>>)
            /\ WF_vars(ProbeSucceeds)

FairSpec == Spec /\ Fairness

(***************************************************************************)
(* What must hold.                                                         *)
(***************************************************************************)
\* The moment the paired host is reachable the mirror is launched hands-free:
\* the link is never up over an idle mirror unless the user disconnected.
HandsFree == status = "connected" => link # "off" \/ userDisconnected

\* QML's two flags and the client's state agree, so that exactly one pane is
\* visible and the two guards against relaunching decide alike.
FlagsAgree == /\ mirroring <=> link # "off"
              /\ userDisconnected <=> declined

\* The session runs to the host that is paired, through every failure and
\* whatever discovery brings in meanwhile.
MirrorsThePairedHost == link # "off" => running /\ target = pairedHost

\* After DISCONNECT only LAUNCH MIRROR starts a session again.
UserDecides ==
    [][userDisconnected /\ link = "off" /\ link' # "off" => LaunchMirror]_vars

\* Discovery and probes act only for a running app, and a probe only for a
\* paired host; with the properties above this is inductive.
ProbesPaired == /\ saved \in Host \cup {NoHost} /\ pairedHost \in Host \cup {NoHost}
                /\ rows \subseteq Host
                /\ probing => running /\ conn!paired
                /\ scanTimer => running
AppInv == /\ ProbesPaired /\ SessionType
          /\ HandsFree /\ FlagsAgree /\ MirrorsThePairedHost

\* The reachability status is live (ConnectionManager.hpp:14): "connected"
\* says that the paired host was reached.
StatusLive == status = "connected" => probed = pairedHost

\* A paired host that stops failing its probes gets mirrored without a tap.
Undisturbed == <>[][~(conn!OnFailed \/ conn!OnTimeout)]_vars
Wanted      == running /\ conn!paired /\ ~userDisconnected
LaunchesByItself == Undisturbed => [](Wanted => <>(link # "off" \/ ~Wanted))
=============================================================================
