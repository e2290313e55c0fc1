---------------------- MODULE ConnectionManager_proofs ----------------------
(***************************************************************************)
(* Proofs about ConnectionManager, for every set of hosts and addresses.   *)
(* The properties are inductive together: StatusHonest leans on ProbeFlags *)
(* and ProbeIsTimed, and these on TypeOK.                                  *)
(***************************************************************************)
EXTENDS ConnectionManager, TLAPS

\* The app starts in a state that satisfies the invariant.
LEMMA InitConnInv == Init => ConnInv
BY DEF Init, ConnInv, TypeOK, ProbeIsTimed, ProbeFlags, StatusHonest,
       Remembered, OneRowPerAddress, DownIsFresh

\* Every step keeps the invariant.
LEMMA ConnStep == ConnInv /\ [Next]_vars => ConnInv'
<1> SUFFICES ASSUME ConnInv, [Next]_vars PROVE ConnInv'
  OBVIOUS
<1> USE HostAssumption
    DEF ConnInv, TypeOK, ProbeIsTimed, ProbeFlags, StatusHonest, Remembered,
        OneRowPerAddress, DownIsFresh, vars, settings, discovery, linkState,
        paired, Refresh, ShowConnecting, ArmTimeout
<1>1. CASE Start
  <2>1. CASE saved = NoHost
    BY <1>1, <2>1 DEF Start, BeginScan
  <2>2. CASE saved # NoHost
    BY <1>1, <2>2 DEF Start, BeginScan
  <2> QED
    BY <2>1, <2>2
<1>2. CASE Exit
  BY <1>2 DEF Exit
<1>3. CASE Reconnect
  BY <1>3 DEF Reconnect
<1>4. CASE Scan
  BY <1>4 DEF Scan, BeginScan
<1>5. ASSUME NEW h \in Host, UserSelect(h) PROVE ConnInv'
  BY <1>5 DEF UserSelect, SelectHost, SaveHost
<1>6. CASE OnPoll
  BY <1>6 DEF OnPoll
<1>7. CASE OnConnected
  BY <1>7 DEF OnConnected, ProbeOver
<1>11. CASE OnFailed
  BY <1>11 DEF OnFailed, ProbeOver
<1>12. CASE OnTimeout
  BY <1>12 DEF OnTimeout, ProbeOver
<1>8. CASE OnScanDone
  <2>1. ASSUME NEW h \in Host, SelectHost(h) PROVE ConnInv'
    BY <1>8, <2>1 DEF OnScanDone, ScanOver, SelectHost, SaveHost
  <2>2. CASE UNCHANGED <<settings, pairedHost, linkState>>
    BY <1>8, <2>2 DEF OnScanDone, ScanOver
  <2> QED
    BY <1>8, <2>1, <2>2 DEF OnScanDone
<1>9. ASSUME NEW h \in Host, OnUdpReady(h) PROVE ConnInv'
  BY <1>9 DEF OnUdpReady, AddRow, Ip
<1>10. CASE UNCHANGED vars
  BY <1>10
<1> QED
  BY <1>1, <1>2, <1>3, <1>4, <1>5, <1>6, <1>7, <1>8, <1>9, <1>10,
     <1>11, <1>12 DEF Next

\* The invariant holds in every reachable state.
THEOREM ConnInvariance == Spec => []ConnInv
BY InitConnInv, ConnStep, PTL DEF Spec

\* Every variable of the manager stays in its range.
THEOREM ConnTypeCorrect == Spec => []TypeOK
<1>1. ConnInv => TypeOK
  BY DEF ConnInv
<1> QED
  BY <1>1, ConnInvariance, PTL

\* No probe is left without its timeout, and "connecting" is never shown
\* without a probe.
THEOREM ProbesEnd == Spec => [](ProbeIsTimed /\ ProbeFlags)
<1>1. ConnInv => ProbeIsTimed /\ ProbeFlags
  BY DEF ConnInv
<1> QED
  BY <1>1, ConnInvariance, PTL

\* "connected" is about the paired host, up to one silent probe.
THEOREM StatusIsHonest == Spec => []StatusHonest
<1>1. ConnInv => StatusHonest
  BY DEF ConnInv
<1> QED
  BY <1>1, ConnInvariance, PTL

\* The settings hold the pairing of the running app.
THEOREM PairingSurvives == Spec => []Remembered
<1>1. ConnInv => Remembered
  BY DEF ConnInv
<1> QED
  BY <1>1, ConnInvariance, PTL

\* The list has a row per address, whatever datagrams arrive when.
THEOREM RowsAreDistinct == Spec => []OneRowPerAddress
<1>1. ConnInv => OneRowPerAddress
  BY DEF ConnInv
<1> QED
  BY <1>1, ConnInvariance, PTL

\* No step other than the user's selection replaces a paired host.
THEOREM PairingProtected == Spec => PairingIsTheUsers
<1>1. ConnInv /\ [Next]_vars
        => [paired /\ running' /\ pairedHost' # pairedHost
              => \E h \in Host : UserSelect(h)]_vars
  <2> SUFFICES ASSUME Next, paired, running', pairedHost' # pairedHost, ConnInv
               PROVE  \E h \in Host : UserSelect(h)
    OBVIOUS
  <2> QED
    BY DEF Next, ConnInv, DownIsFresh, Start, Exit, Reconnect, Scan, OnPoll,
           OnConnected, OnFailed, OnTimeout, OnScanDone, MayPair, OnUdpReady,
           paired
<1> QED
  BY <1>1, ConnInvariance, PTL DEF Spec, PairingIsTheUsers
=============================================================================
