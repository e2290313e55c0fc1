------------------------ MODULE LauncherApp_proofs ------------------------
(***************************************************************************)
(* The whole app implements BridgeApp, for every set of hosts, addresses   *)
(* and geometries and every bound.  The client's invariant IInv and the    *)
(* app's AppInv are inductive together, neither without the other: the     *)
(* client needs to be launched for a host and at rest, which is the app's  *)
(* doing, and the app needs the client to keep the promise of              *)
(* MirrorSession.  Once every step is known to be one of BridgeApp, its    *)
(* theorems hold here.                                                     *)
(***************************************************************************)
EXTENDS LauncherApp, VncClient_proofs

\* BridgeApp and its theorems, over the state that the client shows outside.
\* What it assumes of its constants, NoHost \notin Host, is HostAssumption.
app == INSTANCE BridgeApp_proofs
    WITH link <- LinkState, target <- host, feed <- streaming,
         declined <- userStopped

\* The connection manager of this app and the one inside BridgeApp are the
\* same, action by action.
LEMMA SameConn ==
    /\ app!conn!paired <=> conn!paired
    /\ app!conn!Init <=> conn!Init
    /\ app!conn!Start <=> conn!Start
    /\ app!conn!Exit <=> conn!Exit
    /\ app!conn!Reconnect <=> conn!Reconnect
    /\ app!conn!Scan <=> conn!Scan
    /\ app!conn!OnPoll <=> conn!OnPoll
    /\ app!conn!OnConnected <=> conn!OnConnected
    /\ app!conn!OnFailed <=> conn!OnFailed
    /\ app!conn!OnTimeout <=> conn!OnTimeout
    /\ app!conn!OnScanDone <=> conn!OnScanDone
    /\ \A h \in Host : /\ app!conn!UserSelect(h) <=> conn!UserSelect(h)
                       /\ app!conn!OnUdpReady(h) <=> conn!OnUdpReady(h)
<1> USE DEF conn!paired, app!conn!paired, conn!settings, app!conn!settings,
        conn!discovery, app!conn!discovery, conn!linkState, app!conn!linkState,
        conn!ProbeOver, app!conn!ProbeOver, conn!Refresh, app!conn!Refresh,
        conn!ShowConnecting, app!conn!ShowConnecting,
        conn!ArmTimeout, app!conn!ArmTimeout, conn!BeginScan, app!conn!BeginScan,
        conn!SelectHost, app!conn!SelectHost, conn!SaveHost, app!conn!SaveHost
<1>1. app!conn!paired <=> conn!paired
  OBVIOUS
<1>2. app!conn!Init <=> conn!Init
  BY DEF conn!Init, app!conn!Init
<1>3. app!conn!Start <=> conn!Start
  BY DEF conn!Start, app!conn!Start
<1>4. app!conn!Exit <=> conn!Exit
  BY DEF conn!Exit, app!conn!Exit
<1>5. app!conn!Reconnect <=> conn!Reconnect
  BY DEF conn!Reconnect, app!conn!Reconnect
<1>6. app!conn!Scan <=> conn!Scan
  BY DEF conn!Scan, app!conn!Scan
<1>7. app!conn!OnPoll <=> conn!OnPoll
  BY DEF conn!OnPoll, app!conn!OnPoll
<1>8. app!conn!OnConnected <=> conn!OnConnected
  BY DEF conn!OnConnected, app!conn!OnConnected
<1>9. app!conn!OnFailed <=> conn!OnFailed
  BY DEF conn!OnFailed, app!conn!OnFailed
<1>10. app!conn!OnTimeout <=> conn!OnTimeout
  BY DEF conn!OnTimeout, app!conn!OnTimeout
<1>11. app!conn!OnScanDone <=> conn!OnScanDone
  BY DEF conn!OnScanDone, app!conn!OnScanDone, conn!ScanOver,
         app!conn!ScanOver, conn!MayPair, app!conn!MayPair
<1>12. ASSUME NEW h \in Host
       PROVE  /\ app!conn!UserSelect(h) <=> conn!UserSelect(h)
              /\ app!conn!OnUdpReady(h) <=> conn!OnUdpReady(h)
  BY DEF conn!UserSelect, app!conn!UserSelect, conn!OnUdpReady,
         app!conn!OnUdpReady, conn!AddRow, app!conn!AddRow
<1> QED
  BY <1>1, <1>2, <1>3, <1>4, <1>5, <1>6, <1>7, <1>8, <1>9, <1>10, <1>11, <1>12

\* The app starts in a state of BridgeApp, with a client at rest.
LEMMA AppInitMaps == AppInit => app!Init /\ IInv
<1> SUFFICES ASSUME AppInit PROVE app!Init /\ IInv
  OBVIOUS
<1>1. Init /\ IInv
  BY InitIInv DEF AppInit
<1>2. app!mirror!Init
  BY <1>1 DEF Init, app!mirror!Init, LinkState
<1> QED
  BY <1>1, <1>2, SameConn DEF AppInit, app!Init

\* A start of the resting client is a launch of the abstract session.
LEMMA StartIsLaunch ==
    ASSUME IInv, NEW h, ~active, Start(h)
    PROVE  app!mirror!Launch(h)
<1>1. ~streaming
  BY DEF IInv, Ownership
<1>2. LinkState = "off" /\ LinkState' = "linking"
  BY DEF Start, LinkState, Live, InPhase
<1> QED
  BY <1>1, <1>2 DEF Start, app!mirror!Launch

\* A start of the resting client by anyone keeps its invariant.
LEMMA StartKeepsIInv ==
    ASSUME IInv, NEW h \in Host, UserStart(h) \/ AutoStart(h)
    PROVE  IInv'
BY Inductive DEF Next, User

\* What the client does by itself neither starts nor ends a session, and keeps
\* its host.
LEMMA ClientStepStands ==
    ASSUME IInv, ClientStep
    PROVE  UNCHANGED <<active, host>>
BY DEF IInv, TypeOK, RetryArmed, SessionType, ClientStep, Pointer, Timer,
   OnReconnect, Start, OnReqTimer, OnNudge, OnConnected, OnClosed, Handshake,
   Version, SecTypes, SecResult, Answer, ServerInit, ServerInitHeader,
   BadGeometry, Update, FbuType, RectHead, RectData, FbuHead, Rejection,
   SecTypesRefused, SecResultFailed, ProtoError, RectUnsupported, GiveUp,
   Fail, session

\* Seen from outside, such a step goes live, loses the link, or does nothing
\* that shows.
LEMMA ClientStepMaps ==
    ASSUME IInv, ClientStep
    PROVE  IInv' /\ (app!MirrorStep \/ UNCHANGED app!vars)
<1>1. Next /\ UNCHANGED <<connVars, qml>>
  BY DEF ClientStep, Next, User
<1>2. IInv'
  BY <1>1, Inductive
<1>3. active' = active
  BY ClientStepStands
<1>4. Session!Next \/ UNCHANGED Session!vars
  BY <1>1, SessionStep
<1>5. LinkState = "off" <=> LinkState' = "off"
  BY <1>3 DEF LinkState
<1>6. Session!GoLive \/ Session!LoseLink \/ UNCHANGED Session!vars
  BY <1>4, <1>5 DEF Session!Next, Session!Launch, Session!End
<1>7. app!mirror!GoLive \/ app!mirror!LoseLink \/ UNCHANGED app!mirrorVars
  BY <1>6 DEF Session!GoLive, Session!LoseLink, Session!vars,
     app!mirror!GoLive, app!mirror!LoseLink, app!mirrorVars
<1> QED
  BY <1>1, <1>2, <1>7 DEF app!MirrorStep, app!vars, app!connVars, app!qml,
     connVars, qml

\* Nothing shows while the client's variables stand still.
LEMMA NothingShows ==
    UNCHANGED <<vars, qml>> => UNCHANGED <<app!mirrorVars, app!qml>>
BY DEF vars, session, parser, qml, app!mirrorVars, app!qml, LinkState, Live,
   InPhase

\* Every step of the app keeps the client's invariant and is a step of
\* BridgeApp or a stutter.
LEMMA AppStepMaps ==
    IInv /\ app!AppInv /\ [AppNext]_appVars
        => IInv' /\ [app!Next]_(app!vars)
<1> SUFFICES ASSUME IInv, app!AppInv, [AppNext]_appVars
             PROVE  IInv' /\ (app!Next \/ UNCHANGED app!vars)
  OBVIOUS
<1>0. LinkState = "off" <=> ~active
  BY DEF LinkState
<1>1. CASE ProbeSucceeds
  <2>1. pairedHost \in Host
    BY <1>1, HostAssumption DEF ProbeSucceeds, conn!OnConnected, app!AppInv,
       app!ProbesPaired, app!conn!paired
  <2>2. app!conn!OnConnected /\ UNCHANGED pairedHost
    BY <1>1, SameConn DEF ProbeSucceeds, conn!OnConnected
  <2>3. CASE UNCHANGED <<vars, qml>> /\ status = "connected"
    BY <2>2, <2>3, NothingShows, Inductive
       DEF app!Next, app!ProbeSucceeds, app!BecomesOnline
  <2>4. CASE Online /\ status # "connected"
    <3>1. CASE ~userDisconnected /\ UserStart(pairedHost)
               /\ mirroring' = TRUE /\ UNCHANGED userDisconnected
      <4>1. IInv' /\ app!mirror!Launch(pairedHost) /\ ~active
        BY <2>1, <3>1, StartKeepsIInv, StartIsLaunch DEF UserStart
      <4> QED
        BY <1>0, <2>2, <2>4, <3>1, <4>1
           DEF app!Next, app!ProbeSucceeds, app!BecomesOnline, app!Online,
               app!MayLaunch, app!ShowMirror
    <3>2. CASE userDisconnected /\ AutoStart(pairedHost) /\ UNCHANGED qml
      <4>1. IInv' /\ app!mirror!Launch(pairedHost) /\ ~active /\ ~userStopped
        BY <2>1, <3>2, StartKeepsIInv, StartIsLaunch DEF AutoStart
      <4> QED
        BY <1>0, <2>2, <2>4, <3>2, <4>1
           DEF app!Next, app!ProbeSucceeds, app!BecomesOnline, app!Online,
               app!MayLaunch, app!mirror!AutoLaunch, qml, app!qml
    <3>3. CASE /\ active \/ (userDisconnected /\ userStopped)
               /\ UNCHANGED <<vars, qml>>
      BY <1>0, <2>2, <2>4, <3>3, NothingShows, Inductive
         DEF app!Next, app!ProbeSucceeds, app!BecomesOnline, app!Online,
             app!MayLaunch
    <3> QED
      BY <2>4, <3>1, <3>2, <3>3 DEF Online
  <2> QED
    BY <1>1, <2>3, <2>4 DEF ProbeSucceeds
<1>2. CASE Background
  BY <1>2, SameConn, NothingShows, Inductive
     DEF Background, app!Next, app!Background
<1>3. CASE HomeButtons
  BY <1>0, <1>3, SameConn, NothingShows, Inductive
     DEF HomeButtons, HomeVisible, app!Next, app!HomeButtons, app!HomeVisible
<1>4. CASE LaunchMirror
  <2>1. pairedHost \in Host
    BY <1>4 DEF LaunchMirror, conn!paired, app!AppInv, app!ProbesPaired
  <2>2. IInv' /\ app!mirror!Launch(pairedHost)
    BY <1>4, <2>1, StartKeepsIInv, StartIsLaunch DEF LaunchMirror, UserStart
  <2> QED
    BY <1>0, <1>4, <2>2, SameConn
       DEF LaunchMirror, HomeVisible, connVars, app!Next, app!LaunchMirror,
           app!HomeVisible, app!Rearm, app!LaunchTarget, app!connVars
<1>5. CASE Disconnect
  <2>1. IInv'
    BY <1>5, Inductive DEF Disconnect, Next, User
  <2>2. app!mirror!End
    BY <1>0, <1>5 DEF Disconnect, Stop, app!mirror!End, LinkState
  <2> QED
    BY <1>0, <1>5, <2>1, <2>2
       DEF Disconnect, MirrorVisible, connVars, app!Next, app!Disconnect,
           app!MirrorVisible, app!connVars
<1>6. CASE ClientStep
  BY <1>6, ClientStepMaps DEF app!Next
<1>7. CASE Exit
  <2>1. Init'
    BY <1>7 DEF Exit, NewClient, Init
  <2>2. IInv'
    BY <2>1, InitIInv, PTL
  <2>3. LinkState' = "off"
    BY <2>1 DEF Init, LinkState
  <2> QED
    BY <1>7, <2>2, <2>3, SameConn
       DEF Exit, NewClient, app!Next, app!Exit
<1>8. CASE UNCHANGED appVars
  BY <1>8, NothingShows, Inductive
     DEF appVars, connVars, qml, app!vars, app!connVars, app!qml
<1> QED
  BY <1>1, <1>2, <1>3, <1>4, <1>5, <1>6, <1>7, <1>8 DEF AppNext

\* The client's invariant and the app's hold together in every reachable
\* state, so everything proved of the client alone holds of the client in the
\* app, where its process may end and start again.
THEOREM LauncherInvariance == AppSpec => [](IInv /\ app!AppInv)
<1>1. AppInit => IInv /\ app!AppInv
  BY HostAssumption, AppInitMaps, app!InitAppInv
<1>2. IInv /\ app!AppInv /\ [AppNext]_appVars => (IInv /\ app!AppInv)'
  <2>1. IInv /\ app!AppInv /\ [AppNext]_appVars => IInv' /\ [app!Next]_(app!vars)
    BY AppStepMaps
  <2>2. app!AppInv /\ [app!Next]_(app!vars) => app!AppInv'
    BY HostAssumption, app!AppStep
  <2> QED
    BY <2>1, <2>2
<1> QED
  BY <1>1, <1>2, PTL DEF AppSpec

\* What BridgeApp says of the app over an abstract mirror session is true of
\* the app with its VNC client: the client's promise is kept in its context.
THEOREM ImplementsBridgeApp == AppSpec => app!Spec
<1>1. AppInit => app!Init
  BY AppInitMaps
<1>2. IInv /\ app!AppInv /\ [AppNext]_appVars => [app!Next]_(app!vars)
  BY AppStepMaps
<1> QED
  BY <1>1, <1>2, LauncherInvariance, PTL DEF AppSpec, app!Spec

\* The theorems of BridgeApp, taken over: hands-free launch, the paired host as
\* the session's, and the user's last word.
THEOREM BridgeAppTheorems ==
    AppSpec => []app!HandsFree /\ []app!MirrorsThePairedHost /\ app!UserDecides
BY HostAssumption, ImplementsBridgeApp, app!AlwaysHandsFree,
   app!TargetIsPaired, app!OnlyTheUserRelaunches, PTL

\* The mirror's socket, and the timer that would open one, exist only for the
\* paired host of a running app.
THEOREM SocketFollowsPairing == AppSpec => []SocketIsPaired
<1>1. IInv /\ app!AppInv => SocketIsPaired
  <2> SUFFICES ASSUME IInv, app!AppInv, sock # "unconnected" \/ reconnectTimer
               PROVE  running /\ host = pairedHost
    BY DEF SocketIsPaired
  <2>1. active
    BY DEF IInv, Ownership, RetryArmed
  <2> QED
    BY <2>1 DEF LinkState, app!AppInv, app!MirrorsThePairedHost
<1> QED
  BY <1>1, LauncherInvariance, PTL

\* While the user's DISCONNECT stands, the client keeps still.
THEOREM DisconnectIsFinal == AppSpec => []DisconnectLasts
<1>1. IInv /\ app!AppInv => DisconnectLasts
  BY DEF IInv, StoppedIsQuiet, app!AppInv, app!FlagsAgree, DisconnectLasts
<1> QED
  BY <1>1, LauncherInvariance, PTL

\* A link shown as up is in use or about to be, unless the user disconnected.
THEOREM UpLinkIsUsed == AppSpec => []LinkIsUsed
<1>1. IInv /\ app!AppInv => LinkIsUsed
  <2> SUFFICES ASSUME IInv, app!AppInv, status = "connected", ~userDisconnected
               PROVE  sock # "unconnected" \/ reconnectTimer
    BY DEF LinkIsUsed
  <2>1. active
    BY DEF LinkState, app!AppInv, app!HandsFree
  <2> QED
    BY <2>1 DEF IInv, RetryArmed
<1> QED
  BY <1>1, LauncherInvariance, PTL

\* After DISCONNECT only LAUNCH MIRROR opens a connection.
THEOREM OnlyTheUserReconnects == AppSpec => UserReconnects
<1>1. IInv /\ app!AppInv /\ [AppNext]_appVars
        => [userDisconnected /\ sock' # "unconnected" => LaunchMirror]_appVars
  <2> SUFFICES ASSUME IInv, app!AppInv, AppNext, userDisconnected,
                      sock' # "unconnected"
               PROVE  LaunchMirror
    OBVIOUS
  <2>1. userStopped /\ ~active /\ ~reconnectTimer /\ sock = "unconnected"
    BY DEF IInv, StoppedIsQuiet, app!AppInv, app!FlagsAgree
  <2>2. ~ClientStep
    BY <2>1 DEF ClientStep, Pointer, Timer, OnReconnect, OnReqTimer, OnNudge,
       OnConnected, OnClosed, Handshake, Version, SecTypes, SecResult, Answer,
       ServerInit, ServerInitHeader, BadGeometry, Update, FbuType, RectHead,
       RectData, FbuHead, InMessage, InPhase, Rejection, SecTypesRefused,
       SecResultFailed, ProtoError, RectUnsupported
  <2>3. ~Online \/ UNCHANGED vars
    BY <2>1 DEF Online, AutoStart
  <2> QED
    BY <2>1, <2>2, <2>3 DEF AppNext, ProbeSucceeds, Background, HomeButtons,
       Disconnect, Stop, Exit, NewClient, vars
<1> QED
  BY <1>1, LauncherInvariance, PTL DEF AppSpec, UserReconnects

\* Only DISCONNECT and the end of the process end a session; nothing else
\* changes its host or the pairing it was launched for.
THEOREM SessionsStand == AppSpec => SessionStands
<1>1. IInv /\ app!AppInv /\ [AppNext]_appVars
        => [active => \/ active' /\ UNCHANGED <<host, pairedHost>>
                      \/ Disconnect \/ Exit]_appVars
  <2> SUFFICES ASSUME IInv, app!AppInv, AppNext, active, ~Disconnect, ~Exit
               PROVE  active' /\ UNCHANGED <<host, pairedHost>>
    OBVIOUS
  <2>1. running /\ pairedHost # NoHost
    BY HostAssumption
       DEF LinkState, app!AppInv, app!MirrorsThePairedHost, IInv, Ownership
  <2>2. CASE ProbeSucceeds
    BY <2>2 DEF ProbeSucceeds, conn!OnConnected, Online, UserStart, AutoStart,
       vars, session
  <2>3. CASE Background
    BY <2>1, <2>3 DEF Background, conn!Start, conn!OnPoll, conn!OnFailed,
       conn!OnTimeout, conn!OnScanDone, conn!MayPair, conn!paired,
       conn!OnUdpReady, vars, session
  <2>4. CASE HomeButtons \/ LaunchMirror
    BY <2>4 DEF HomeButtons, LaunchMirror, HomeVisible
  <2>5. CASE ClientStep
    BY <2>5, ClientStepStands DEF ClientStep, connVars
  <2> QED
    BY <2>2, <2>3, <2>4, <2>5 DEF AppNext
<1> QED
  BY <1>1, LauncherInvariance, PTL DEF AppSpec, SessionStands
=============================================================================
