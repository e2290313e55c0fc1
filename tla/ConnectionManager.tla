------------------------- MODULE ConnectionManager -------------------------
(***************************************************************************)
(* Discovery, pairing and reachability of the Bridge host: class           *)
(* ConnectionManager of cascades-app/BridgeLauncher/src.  One thread; each *)
(* slot or invokable is one action.  m_host, m_port and m_hostName are set *)
(* together, so a host is one value; IpOf is its address.  The probe       *)
(* socket is idle or connecting: onConnected() and every failure leave it  *)
(* closed.  The poll timer runs from the constructor on and needs no       *)
(* variable.  What QSettings holds survives the process.                   *)
(***************************************************************************)
CONSTANTS
    Host,       \* what a host can be known as: address, port and name
    NoHost,     \* the empty m_host
    IpOf        \* the address of each host

ASSUME HostAssumption == NoHost \notin Host

VARIABLES
    running,        \* the process is up and start() has run
    saved,          \* QSettings host/ip, host/port, host/name
    pairedHost,     \* m_host, m_port, m_hostName
    status,         \* m_status
    silentProbe,    \* m_silentProbe
    probing,        \* m_sock is connecting
    probeTimer,     \* m_timer is active
    scanning, rows, seen, scanTimer,    \* discovery
    probed          \* the host that the probe behind the status reached

settings  == <<running, saved>>
discovery == <<scanning, rows, seen, scanTimer>>
linkState == <<status, silentProbe, probing, probeTimer, probed>>
vars      == <<settings, pairedHost, discovery, linkState>>

Ip == {IpOf[h] : h \in Host}

TypeOK ==
    /\ running \in BOOLEAN
    /\ saved \in Host \cup {NoHost} /\ pairedHost \in Host \cup {NoHost}
    /\ status \in {"offline", "connecting", "connected"}
    /\ silentProbe \in BOOLEAN /\ probing \in BOOLEAN /\ probeTimer \in BOOLEAN
    /\ scanning \in BOOLEAN /\ rows \subseteq Host /\ seen \subseteq Ip
    /\ scanTimer \in BOOLEAN
    /\ probed \in Host \cup {NoHost}

paired == pairedHost # NoHost

Init ==
    /\ running = FALSE /\ saved \in Host \cup {NoHost} /\ pairedHost = NoHost
    /\ status = "offline" /\ silentProbe = FALSE
    /\ probing = FALSE /\ probeTimer = FALSE /\ probed = NoHost
    /\ scanning = FALSE /\ rows = {} /\ seen = {} /\ scanTimer = FALSE

(***************************************************************************)
(* Reachability.                                                           *)
(***************************************************************************)
\* A definition named M_... is a plausible slip in the code modelled by the
\* definition after it; the model does not use it.
M_ShowConnecting(silent) == status' = IF silent THEN status ELSE "probing"
ShowConnecting(silent)   == status' = IF silent THEN status ELSE "connecting"

M_ArmTimeout == UNCHANGED probeTimer
ArmTimeout   == probeTimer' = TRUE

\* refresh() on host h, for a probe that is silent or not.
Refresh(h, silent) ==
    /\ silentProbe' = silent
    /\ IF h = NoHost
         THEN status' = "offline" /\ UNCHANGED <<probing, probeTimer>>
         ELSE ShowConnecting(silent) /\ probing' = TRUE /\ ArmTimeout
    /\ UNCHANGED probed

\* The RECONNECT button.  m_silentProbe keeps the value it has.
Reconnect ==
    /\ running /\ paired /\ status # "connecting"
    /\ Refresh(pairedHost, silentProbe)
    /\ UNCHANGED <<settings, pairedHost, discovery>>

\* The five-second poll.  The previous silent probe was over within its 2500
\* ms, unless a refresh by the user renewed it.
OnPoll ==
    /\ running /\ paired /\ status # "connecting"
    /\ Refresh(pairedHost, TRUE)
    /\ UNCHANGED <<settings, pairedHost, discovery>>

\* Every end of a probe: the timer is stopped, the socket closed.
ProbeOver   == probing' = FALSE /\ probeTimer' = FALSE /\ silentProbe' = FALSE

\* The probe under way is always to m_host: every change of it probes anew.
OnConnected ==
    /\ probing
    /\ ProbeOver
    /\ status' = "connected" /\ probed' = pairedHost
    /\ UNCHANGED <<settings, pairedHost, discovery>>

\* linkOnline is emitted.
LinkOnline == OnConnected /\ status # "connected"

OnFailed ==
    /\ probing
    /\ ProbeOver
    /\ status' = "offline" /\ probed' = NoHost
    /\ UNCHANGED <<settings, pairedHost, discovery>>

OnTimeout ==
    /\ probeTimer
    /\ ProbeOver
    /\ status' = "offline" /\ probed' = NoHost
    /\ UNCHANGED <<settings, pairedHost, discovery>>

(***************************************************************************)
(* Pairing.                                                                *)
(***************************************************************************)
M_SaveHost(h) == UNCHANGED saved
SaveHost(h)   == saved' = h

M_SelectHost(h) ==
    pairedHost' = h /\ SaveHost(h) /\ UNCHANGED <<running, linkState>>
SelectHost(h) ==
    /\ pairedHost' = h
    /\ SaveHost(h)
    /\ Refresh(h, silentProbe)
    /\ UNCHANGED running

\* A row of the host list, or the address typed next to ADD.
UserSelect(h) == running /\ SelectHost(h) /\ UNCHANGED discovery

(***************************************************************************)
(* Discovery.                                                              *)
(***************************************************************************)
BeginScan ==
    /\ rows' = {} /\ seen' = {}
    /\ scanning' = TRUE /\ scanTimer' = TRUE

Scan ==
    /\ running /\ ~scanning
    /\ BeginScan
    /\ UNCHANGED <<settings, pairedHost, linkState>>

\* A datagram of host h, which may come long after the scan that asked for it.
M_AddRow(h) == rows' = rows \cup {h} /\ seen' = seen \cup {IpOf[h]}
AddRow(h)   == IF IpOf[h] \in seen THEN UNCHANGED <<rows, seen>>
               ELSE rows' = rows \cup {h} /\ seen' = seen \cup {IpOf[h]}

OnUdpReady(h) ==
    /\ running
    /\ AddRow(h)
    /\ UNCHANGED <<settings, pairedHost, scanning, scanTimer, linkState>>

\* With nothing paired and exactly one host in the list, that host is paired.
M_MayPair == TRUE
MayPair   == ~paired

ScanOver   == scanTimer' = FALSE /\ scanning' = FALSE

OnScanDone ==
    /\ scanTimer
    /\ ScanOver
    /\ IF MayPair /\ \E h \in rows : rows = {h} /\ seen = {IpOf[h]}
         THEN \E h \in rows : SelectHost(h)
         ELSE UNCHANGED <<settings, pairedHost, linkState>>
    /\ UNCHANGED <<rows, seen>>

(***************************************************************************)
(* The life of the process.                                                *)
(***************************************************************************)
\* start(): load the saved host, probe it, scan.
Start ==
    /\ ~running
    /\ running' = TRUE
    /\ pairedHost' = saved
    /\ IF saved # NoHost THEN Refresh(saved, silentProbe) ELSE UNCHANGED linkState
    /\ BeginScan
    /\ UNCHANGED saved

\* The app is closed or killed; the next process begins with the constructor.
Exit ==
    /\ running
    /\ running' = FALSE /\ pairedHost' = NoHost
    /\ status' = "offline" /\ silentProbe' = FALSE
    /\ probing' = FALSE /\ probeTimer' = FALSE /\ probed' = NoHost
    /\ scanning' = FALSE /\ rows' = {} /\ seen' = {} /\ scanTimer' = FALSE
    /\ UNCHANGED saved

Next ==
    \/ Start \/ Exit
    \/ Reconnect \/ Scan \/ \E h \in Host : UserSelect(h)
    \/ OnPoll \/ OnConnected \/ OnFailed \/ OnTimeout
    \/ OnScanDone \/ \E h \in Host : OnUdpReady(h)

Spec == Init /\ [][Next]_vars

\* Qt fires the timers it armed, and main() calls start().
Fairness == WF_vars(Start) /\ WF_vars(OnTimeout) /\ WF_vars(OnScanDone)

FairSpec == Spec /\ Fairness

(***************************************************************************)
(* What must hold.                                                         *)
(***************************************************************************)
\* No probe hangs: a connecting socket has its timeout armed and the timeout
\* never outlives its probe, where it would flip a settled status.
ProbeIsTimed == probing <=> probeTimer

\* "connecting" is shown, and a probe is silent, only while one is out.
ProbeFlags == status = "connecting" \/ silentProbe => probing

\* "connected" is about the host now paired, except within the one probe that
\* follows a selection made during a silent poll.
StatusHonest ==
    status = "connected" /\ probed # pairedHost => silentProbe /\ probing

\* What the next launch will load is what this one is paired with.
Remembered == running => pairedHost = saved

\* The host list has one row per address, and m_seen is the set of addresses
\* listed, so the auto-pairing test counts hosts and not replies.
OneRowPerAddress ==
    /\ seen = {IpOf[h] : h \in rows}
    /\ \A g, h \in rows : IpOf[g] = IpOf[h] => g = h

\* Nothing of a process outlives it, so the next one starts as the first did.
DownIsFresh ==
    ~running => /\ pairedHost = NoHost /\ status = "offline"
                /\ ~probing /\ ~scanTimer

\* All of the above, which is inductive.
ConnInv == /\ TypeOK /\ ProbeIsTimed /\ ProbeFlags /\ StatusHonest
           /\ Remembered /\ OneRowPerAddress /\ DownIsFresh

\* A scan or a late reply never takes over a pairing: only the user replaces
\* a paired host.
PairingIsTheUsers ==
    [][paired /\ running' /\ pairedHost' # pairedHost
           => \E h \in Host : UserSelect(h)]_vars

\* The status never stays at "connecting".
StatusSettles == status = "connecting" ~> status # "connecting"
=============================================================================
