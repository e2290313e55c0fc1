-------------------------- MODULE BridgeApp_proofs --------------------------
(***************************************************************************)
(* Proofs about the composed app, for every set of hosts and addresses.    *)
(***************************************************************************)
EXTENDS BridgeApp, TLAPS

\* The app starts in a state that satisfies the invariant.
LEMMA InitAppInv == Init => AppInv
BY DEF Init, conn!Init, mirror!Init, AppInv, ProbesPaired, SessionType,
       HandsFree, FlagsAgree, MirrorsThePairedHost, conn!paired

\* Every step keeps the invariant.
LEMMA AppStep == AppInv /\ [Next]_vars => AppInv'
<1> SUFFICES ASSUME AppInv, [Next]_vars PROVE AppInv'
  OBVIOUS
<1> USE AppHostAssumption
    DEF AppInv, ProbesPaired, SessionType, HandsFree, FlagsAgree,
        MirrorsThePairedHost, conn!paired, conn!settings, conn!discovery,
        conn!linkState, vars, connVars, mirrorVars, qml
<1>1. CASE ProbeSucceeds
  <2>1. running /\ pairedHost \in Host /\ UNCHANGED <<running, saved, pairedHost>>
    BY <1>1 DEF ProbeSucceeds, conn!OnConnected
  <2>2. probing' = FALSE /\ status' = "connected"
      /\ UNCHANGED <<scanTimer, rows>>
    BY <1>1 DEF ProbeSucceeds, conn!OnConnected, conn!ProbeOver
  <2>3. CASE status # "connected" /\ MayLaunch
    BY <1>1, <2>1, <2>2, <2>3
       DEF ProbeSucceeds, BecomesOnline, Online, MayLaunch, ShowMirror,
           mirror!Launch
  <2>4. CASE status # "connected" /\ ~MayLaunch
    BY <1>1, <2>1, <2>2, <2>4
       DEF ProbeSucceeds, BecomesOnline, Online, MayLaunch
  <2>5. CASE status = "connected"
    BY <1>1, <2>1, <2>2, <2>5 DEF ProbeSucceeds, BecomesOnline
  <2> QED
    BY <2>3, <2>4, <2>5
<1>2. CASE Background
  <2> USE DEF Background, conn!Refresh, conn!ShowConnecting, conn!ArmTimeout
  <2>1. CASE conn!Start
    BY <1>2, <2>1 DEF conn!Start, conn!BeginScan
  <2>2. CASE conn!OnPoll
    BY <1>2, <2>2 DEF conn!OnPoll
  <2>3. CASE conn!OnFailed \/ conn!OnTimeout
    BY <1>2, <2>3 DEF conn!OnFailed, conn!OnTimeout, conn!ProbeOver
  <2>4. CASE conn!OnScanDone
    <3>1. ASSUME NEW h \in Host, conn!SelectHost(h), ~conn!paired PROVE AppInv'
      BY <1>2, <2>4, <3>1
         DEF conn!OnScanDone, conn!ScanOver, conn!SelectHost, conn!SaveHost
    <3>2. CASE UNCHANGED <<conn!settings, pairedHost, conn!linkState>>
      BY <1>2, <2>4, <3>2 DEF conn!OnScanDone, conn!ScanOver
    <3> QED
      BY <2>4, <3>1, <3>2 DEF conn!OnScanDone, conn!MayPair
  <2>5. CASE \E h \in Host : conn!OnUdpReady(h)
    BY <1>2, <2>5 DEF conn!OnUdpReady, conn!AddRow
  <2> QED
    BY <1>2, <2>1, <2>2, <2>3, <2>4, <2>5
<1>3. CASE HomeButtons
  <2> USE DEF HomeButtons, HomeVisible, conn!Refresh, conn!ShowConnecting, conn!ArmTimeout
  <2>1. ASSUME NEW h \in Host, conn!UserSelect(h) PROVE AppInv'
    BY <1>3, <2>1 DEF conn!UserSelect, conn!SelectHost, conn!SaveHost
  <2>2. CASE conn!Scan
    BY <1>3, <2>2 DEF conn!Scan, conn!BeginScan
  <2>3. CASE conn!Reconnect
    BY <1>3, <2>3 DEF conn!Reconnect
  <2> QED
    BY <1>3, <2>1, <2>2, <2>3
<1>4. CASE LaunchMirror
  BY <1>4 DEF LaunchMirror, HomeVisible, Rearm, LaunchTarget, mirror!Launch
<1>5. CASE Disconnect
  BY <1>5 DEF Disconnect, mirror!End
<1>6. CASE MirrorStep
  <2>1. CASE mirror!GoLive
    BY <1>6, <2>1 DEF MirrorStep, mirror!GoLive
  <2>2. CASE mirror!LoseLink
    BY <1>6, <2>2 DEF MirrorStep, mirror!LoseLink
  <2> QED
    BY <1>6, <2>1, <2>2 DEF MirrorStep
<1>7. CASE Exit
  BY <1>7 DEF Exit, conn!Exit
<1>8. CASE UNCHANGED vars
  BY <1>8
<1> QED
  BY <1>1, <1>2, <1>3, <1>4, <1>5, <1>6, <1>7, <1>8 DEF Next

\* The invariant holds in every reachable state.
THEOREM AppInvariance == Spec => []AppInv
BY InitAppInv, AppStep, PTL DEF Spec

\* An up link over an idle mirror means that the user disconnected.
THEOREM AlwaysHandsFree == Spec => []HandsFree
<1>1. AppInv => HandsFree
  BY DEF AppInv
<1> QED
  BY <1>1, AppInvariance, PTL

\* The two copies of the user's decision, and of the pane shown, agree.
THEOREM FlagsAlwaysAgree == Spec => []FlagsAgree
<1>1. AppInv => FlagsAgree
  BY DEF AppInv
<1> QED
  BY <1>1, AppInvariance, PTL

\* A session always runs to the paired host.
THEOREM TargetIsPaired == Spec => []MirrorsThePairedHost
<1>1. AppInv => MirrorsThePairedHost
  BY DEF AppInv
<1> QED
  BY <1>1, AppInvariance, PTL

\* After DISCONNECT only LAUNCH MIRROR starts a session again.
THEOREM OnlyTheUserRelaunches == Spec => UserDecides
<1>1. AppInv /\ [Next]_vars
        => [userDisconnected /\ link = "off" /\ link' # "off" => LaunchMirror]_vars
  <2> SUFFICES ASSUME AppInv, Next, userDisconnected, link = "off", link' # "off"
               PROVE  LaunchMirror
    OBVIOUS
  <2>1. declined
    BY DEF AppInv, FlagsAgree
  <2> QED
    BY <2>1 DEF Next, ProbeSucceeds, Online, MayLaunch, mirrorVars, Background,
       HomeButtons, Disconnect, MirrorStep, Exit, mirror!End, mirror!GoLive,
       mirror!LoseLink
<1> QED
  BY <1>1, AppInvariance, PTL DEF Spec, UserDecides

\* A step of the app is a step of the connection manager or none of its
\* business: the QML glue never reaches into its variables.
LEMMA AppIsConnStep == [Next]_vars => [conn!Next]_(conn!vars)
BY DEF Next, conn!Next, ProbeSucceeds, Background, HomeButtons, LaunchMirror,
       Disconnect, MirrorStep, Exit, vars, connVars, conn!vars, conn!settings,
       conn!discovery, conn!linkState

\* Composed with mirror and QML, the connection manager keeps to its
\* specification.
THEOREM ImplementsConn == Spec => conn!Spec
BY AppIsConnStep, PTL DEF Spec, conn!Spec, Init

\* The manager's invariant survives its own steps (ConnStep of
\* ConnectionManager_proofs, for the instance in this module).
LEMMA ConnStepInApp == conn!ConnInv /\ [conn!Next]_(conn!vars) => conn!ConnInv'
<1> SUFFICES ASSUME conn!ConnInv, [conn!Next]_(conn!vars) PROVE conn!ConnInv'
  OBVIOUS
<1> USE AppHostAssumption
    DEF conn!ConnInv, conn!TypeOK, conn!ProbeIsTimed, conn!ProbeFlags,
        conn!StatusHonest, conn!Remembered, conn!OneRowPerAddress,
        conn!DownIsFresh, conn!vars, conn!settings, conn!discovery,
        conn!linkState, conn!paired, conn!Refresh, conn!ShowConnecting,
        conn!ArmTimeout
<1>1. CASE conn!Start
  <2>1. CASE saved = NoHost
    BY <1>1, <2>1 DEF conn!Start, conn!BeginScan
  <2>2. CASE saved # NoHost
    BY <1>1, <2>2 DEF conn!Start, conn!BeginScan
  <2> QED
    BY <2>1, <2>2
<1>2. CASE conn!Exit
  BY <1>2 DEF conn!Exit
<1>3. CASE conn!Reconnect
  BY <1>3 DEF conn!Reconnect
<1>4. CASE conn!Scan
  BY <1>4 DEF conn!Scan, conn!BeginScan
<1>5. ASSUME NEW h \in Host, conn!UserSelect(h) PROVE conn!ConnInv'
  BY <1>5 DEF conn!UserSelect, conn!SelectHost, conn!SaveHost
<1>6. CASE conn!OnPoll
  BY <1>6 DEF conn!OnPoll
<1>7. CASE conn!OnConnected
  BY <1>7 DEF conn!OnConnected, conn!ProbeOver
<1>11. CASE conn!OnFailed
  BY <1>11 DEF conn!OnFailed, conn!ProbeOver
<1>12. CASE conn!OnTimeout
  BY <1>12 DEF conn!OnTimeout, conn!ProbeOver
<1>8. CASE conn!OnScanDone
  <2>1. ASSUME NEW h \in Host, conn!SelectHost(h) PROVE conn!ConnInv'
    BY <1>8, <2>1 DEF conn!OnScanDone, conn!ScanOver, conn!SelectHost, conn!SaveHost
  <2>2. CASE UNCHANGED <<conn!settings, pairedHost, conn!linkState>>
    BY <1>8, <2>2 DEF conn!OnScanDone, conn!ScanOver
  <2> QED
    BY <1>8, <2>1, <2>2 DEF conn!OnScanDone
<1>9. ASSUME NEW h \in Host, conn!OnUdpReady(h) PROVE conn!ConnInv'
  BY <1>9 DEF conn!OnUdpReady, conn!AddRow, conn!Ip
<1>10. CASE UNCHANGED conn!vars
  BY <1>10
<1> QED
  BY <1>1, <1>2, <1>3, <1>4, <1>5, <1>6, <1>7, <1>8, <1>9, <1>10,
     <1>11, <1>12 DEF conn!Next

\* The manager's variables and the app's own stay in their ranges.
THEOREM AppTypeCorrect == Spec => []TypeOK
<1>1. conn!Init => conn!ConnInv
  BY DEF conn!Init, conn!ConnInv, conn!TypeOK, conn!ProbeIsTimed, conn!ProbeFlags,
         conn!StatusHonest, conn!Remembered, conn!OneRowPerAddress, conn!DownIsFresh
<1>2. conn!Spec => []conn!ConnInv
  BY <1>1, ConnStepInApp, PTL DEF conn!Spec
<1>3. conn!ConnInv /\ AppInv => TypeOK
  BY DEF conn!ConnInv, AppInv, TypeOK
<1> QED
  BY <1>2, <1>3, ImplementsConn, AppInvariance, PTL
=============================================================================
