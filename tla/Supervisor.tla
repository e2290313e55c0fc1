----------------------------- MODULE Supervisor -----------------------------
(***************************************************************************)
(* The processes of the host: start_android_source.ps1, which ends whatever*)
(* runs of the bridge and starts a supervisor; bridge_supervisor.py, which *)
(* holds a lock port, keeps the services running and cycles droidVNC when  *)
(* it no longer serves frames; the services; and droidVNC as its clients   *)
(* see it.                                                                 *)
(*                                                                         *)
(* Abstractions.  A supervisor runs a service at most once at a time, so   *)
(* <<s, svc>> names that process; a process asked to end is gone at once.  *)
(* A probe, and each tap with the look at the screen before it, is a step. *)
(* The phone, a further client of droidVNC, could only help to keep the    *)
(* capture going, and is left out.                                         *)
(***************************************************************************)
EXTENDS Naturals, FiniteSets

CONSTANTS
    Sup,        \* runs of the script, each with the supervisor it starts
    Service,    \* SERVICES: relay, keepalive, discovery, gateway
    Keepalive,  \* vnc_keepalive.py
    Holder,     \* the services that hold a droidVNC session: two of them
    NoSup,      \* the lock port is free
    FailLimit,  \* PROBE_FAILS_TO_CYCLE
    MaxEvents   \* bound on crashes and disturbances

ASSUME ServiceAssumption == Keepalive \in Holder /\ Holder \subseteq Service
ASSUME SupAssumption == NoSup \notin Sup /\ Sup \cap (Sup \X Service) = {}
ASSUME LimitAssumption == FailLimit \in Nat \ {0} /\ MaxEvents \in Nat

VARIABLES
    sup, lock,          \* where each of them is; who holds the lock port
    started, running,   \* services spawned at first, and alive
    fails,              \* probe_fails
    victims,            \* the processes a run is yet to end
    raced,              \* a service was spawned while a run was under way
    up, capture, held,  \* droidVNC: server on, frames served, sessions
    events

procs == <<sup, lock, started, running, fails>>
run   == <<victims, raced>>
droid == <<up, capture, held>>
vars  == <<procs, run, droid, events>>

Process  == Sup \X Service
Cleaning == {"kill", "boot"}
Active   == {"spawn", "watch", "cycle", "restart", "bounce"}
Living   == {"lock"} \cup Active
UnderWay == \E s \in Sup : sup[s] \in Cleaning \cup {"lock"}

\* Every variable stays in its range, a supervisor respawns only what it
\* spawned, and a session belongs to a live process.
TypeOK ==
    /\ sup \in [Sup -> {"new", "gone"} \cup Cleaning \cup Living]
    /\ lock \in Sup \cup {NoSup}
    /\ started \in [Sup -> SUBSET Service]
    /\ running \in [Sup -> SUBSET Service]
    /\ fails \in [Sup -> 0 .. FailLimit - 1]
    /\ victims \in [Sup -> SUBSET (Sup \cup Process)] /\ raced \in BOOLEAN
    /\ up \in BOOLEAN /\ capture \in BOOLEAN
    /\ held \subseteq Sup \X Holder
    /\ events \in 0 .. MaxEvents

Init ==
    /\ sup = [s \in Sup |-> "new"] /\ lock = NoSup
    /\ started = [s \in Sup |-> {}] /\ running = [s \in Sup |-> {}]
    /\ fails = [s \in Sup |-> 0]
    /\ victims = [s \in Sup |-> {}] /\ raced = FALSE
    /\ up = FALSE /\ capture = FALSE /\ held = {}
    /\ events = 0

Event == events < MaxEvents /\ events' = events + 1

(***************************************************************************)
(* droidVNC.                                                               *)
(***************************************************************************)
\* "STOPS it when the last client disconnects" (vnc_keepalive.py:5).
Leave(X) == held' = held \ X /\ capture' = (capture /\ held' # {})

\* "does not reliably restart capture for the next client" (line 6).
Hold(s, svc) ==
    /\ up /\ svc \in Holder \cap running[s] /\ <<s, svc>> \notin held
    /\ held' = held \cup {<<s, svc>>}
    /\ IF held = {} THEN capture' \in BOOLEAN ELSE UNCHANGED capture
    /\ UNCHANGED <<procs, run, up, events>>

\* A session breaks, or its client gives up for want of frames: the gateway
\* does after ten seconds, the keepalive waits on.  It will connect again.
Starved(p) == ~capture /\ p[2] # Keepalive /\ UNCHANGED events
Drop(p) ==
    /\ Event \/ Starved(p)
    /\ p \in held
    /\ Leave({p})
    /\ UNCHANGED <<procs, run, up>>

\* Capture fails under clients that stay connected.
Stall ==
    /\ Event /\ capture
    /\ capture' = FALSE
    /\ UNCHANGED <<procs, run, up, held>>

\* The START/STOP button.
Toggle == up' = ~up /\ capture' = FALSE /\ held' = {}

ServerStops ==
    /\ Event /\ up
    /\ Toggle
    /\ UNCHANGED <<procs, run>>

Droid == \/ \E s \in Sup, svc \in Holder : Hold(s, svc)
         \/ \E p \in held : Drop(p)
         \/ Stall \/ ServerStops

(***************************************************************************)
(* The supervisor.  A definition named M_... is a plausible slip in the    *)
(* code modelled by the definition after it; the model does not use it.    *)
(***************************************************************************)
\* A new process in place of the one of the same name, which is gone.
Spawn(s, svc) ==
    /\ running' = [running EXCEPT ![s] = @ \cup {svc}]
    /\ victims' = [r \in Sup |-> victims[r] \ {<<s, svc>>}]
    /\ raced' = (raced \/ UnderWay)

\* The lock port, held for the process's lifetime.
M_LockFree == TRUE
LockFree   == lock = NoSup

TakeLock(s) ==
    /\ sup[s] = "lock"
    /\ \/ /\ LockFree
          /\ lock' = s /\ sup' = [sup EXCEPT ![s] = "spawn"]
       \/ /\ ~LockFree
          /\ sup' = [sup EXCEPT ![s] = "gone"] /\ UNCHANGED lock
    /\ UNCHANGED <<started, running, fails, run, droid, events>>

SpawnFirst(s) ==
    /\ sup[s] = "spawn"
    /\ \E svc \in Service \ started[s] :
          /\ started' = [started EXCEPT ![s] = @ \cup {svc}]
          /\ Spawn(s, svc)
    /\ sup' = [sup EXCEPT ![s] = IF started'[s] = Service THEN "watch" ELSE @]
    /\ UNCHANGED <<lock, fails, droid, events>>

\* A child that has ended, by whatever hand, is spawned again.
M_Ended(s) == {}
Ended(s)   == Service \ running[s]

Respawn(s) ==
    /\ sup[s] = "watch"
    /\ \E svc \in Ended(s) : Spawn(s, svc)
    /\ UNCHANGED <<sup, lock, started, fails, droid, events>>

\* serves_frame() said yes, or no, once or once too often.
Good(s) == fails' = [fails EXCEPT ![s] = 0] /\ UNCHANGED sup

M_Reset(s) == fails' = [fails EXCEPT ![s] = @ + 1]
Reset(s)   == fails' = [fails EXCEPT ![s] = 0]

M_Bad(s) == fails' = [fails EXCEPT ![s] = (@ + 1) % FailLimit] /\ UNCHANGED sup
Bad(s) ==
    \/ /\ fails[s] + 1 < FailLimit
       /\ fails' = [fails EXCEPT ![s] = @ + 1] /\ UNCHANGED sup
    \/ /\ fails[s] + 1 >= FailLimit
       /\ Reset(s)
       /\ sup' = [sup EXCEPT ![s] = "cycle"]

\* With no session open the probe is droidVNC's only client, and whether it
\* gets frames depends on droidVNC.
Probe(s) ==
    /\ sup[s] = "watch"
    /\ \/ (capture \/ (up /\ held = {})) /\ Good(s)
       \/ ~capture /\ Bad(s)
    /\ UNCHANGED <<lock, started, running, run, droid, events>>

\* A Bell or a clipboard text before the frame makes the probe fail.
ProbeMisled(s) ==
    /\ Event
    /\ sup[s] = "watch" /\ capture /\ Bad(s)
    /\ UNCHANGED <<lock, started, running, run, droid>>

\* cycle_droidvnc(), when its look at the screen finds the button as it is:
\* it says STOP, and is tapped.
CycleStop(s) ==
    /\ sup[s] = "cycle" /\ up
    /\ Toggle
    /\ sup' = [sup EXCEPT ![s] = "restart"]
    /\ UNCHANGED <<lock, started, running, fails, run, events>>

\* It says START, now or from the beginning.
CycleStart(s) ==
    /\ sup[s] = "restart" \/ (sup[s] = "cycle" /\ ~up)
    /\ Toggle
    /\ sup' = [sup EXCEPT ![s] = "bounce"]
    /\ UNCHANGED <<lock, started, running, fails, run, events>>

\* And when it does not, which may be so every time: the button is below the
\* fold and nothing scrolls to it, so the tap goes to the fallback place;
\* an old dump has the button elsewhere or under its other label, STOP leading
\* to a second tap; or adb is missing and nothing is tapped.
CycleAstray(s) ==
    /\ Toggle \/ UNCHANGED droid
    /\ \E to \in {"restart", "bounce"} :
          /\ sup[s] = "cycle" \/ (sup[s] = "restart" /\ to = "bounce")
          /\ sup' = [sup EXCEPT ![s] = to]
    /\ UNCHANGED <<lock, started, running, fails, run, events>>

\* The keepalive is ended and a new one spawned.
Bounce(s) ==
    /\ sup[s] = "bounce"
    /\ Leave({<<s, Keepalive>>}) /\ UNCHANGED up
    /\ Spawn(s, Keepalive)
    /\ sup' = [sup EXCEPT ![s] = "watch"]
    /\ UNCHANGED <<lock, started, fails, events>>

Main(s) == TakeLock(s) \/ SpawnFirst(s) \/ Respawn(s) \/ Probe(s)
           \/ CycleStop(s) \/ CycleStart(s) \/ Bounce(s)

(***************************************************************************)
(* Processes end: by themselves, or at the script's hand.                  *)
(***************************************************************************)
ServiceEnds(s, svc) ==
    /\ svc \in running[s]
    /\ running' = [running EXCEPT ![s] = @ \ {svc}]
    /\ Leave({<<s, svc>>})
    /\ UNCHANGED <<sup, lock, started, fails, up>>

\* Its port is free again, its services run on.
SupEnds(s) ==
    /\ sup[s] \in Living
    /\ sup' = [sup EXCEPT ![s] = "gone"]
    /\ lock' = IF lock = s THEN NoSup ELSE lock
    /\ UNCHANGED <<started, running, fails, droid>>

Crash ==
    /\ Event
    /\ \E s \in Sup : SupEnds(s) \/ \E svc \in Service : ServiceEnds(s, svc)
    /\ UNCHANGED run

(***************************************************************************)
(* start_android_source.ps1, also twice at the same time.                  *)
(***************************************************************************)
\* Step 0 lists what runs, then ends it one by one.
Alive == {s \in Sup : sup[s] \in Living}
         \cup {p \in Process : p[2] \in running[p[1]]}

M_ToKill == Alive \cap Sup
ToKill   == Alive

Start(s) ==
    /\ sup[s] = "new"
    /\ sup' = [sup EXCEPT ![s] = "kill"]
    /\ victims' = [victims EXCEPT ![s] = ToKill]
    /\ raced' = (raced /\ UnderWay)
    /\ UNCHANGED <<lock, started, running, fails, droid, events>>

Kill(s) ==
    /\ sup[s] = "kill"
    /\ \E v \in victims[s] :
          /\ victims' = [victims EXCEPT ![s] = @ \ {v}]
          /\ \/ v \in Sup /\ SupEnds(v)
             \/ v \in Process /\ ServiceEnds(v[1], v[2])
             \/ v \notin Alive /\ UNCHANGED <<procs, droid>>
    /\ UNCHANGED <<raced, events>>

Killed(s) ==
    /\ sup[s] = "kill" /\ victims[s] = {}
    /\ sup' = [sup EXCEPT ![s] = "boot"]
    /\ UNCHANGED <<lock, started, running, fails, run, droid, events>>

\* Steps 1 to 6: Android boots, the server is switched on, or taps on its
\* button leave it either way, and the supervisor is started; or Android
\* does not boot in time, and the script gives up.
Boot(s) ==
    /\ sup[s] = "boot"
    /\ \E x \in {"lock", "gone"} : sup' = [sup EXCEPT ![s] = x]
    /\ UNCHANGED droid \/ Toggle
    /\ UNCHANGED <<lock, started, running, fails, run, events>>

Script(s) == Kill(s) \/ Killed(s) \/ Boot(s)

(***************************************************************************)
(* The host.                                                               *)
(***************************************************************************)
Next ==
    \/ Droid \/ Crash
    \/ \E s \in Sup : Start(s) \/ Script(s) \/ Main(s)
                      \/ ProbeMisled(s) \/ CycleAstray(s)

Spec == Init /\ [][Next]_vars

\* The script and the supervisor's loop run on, and the loop polls the services
\* before each probe; a service connects again; and of the connections that
\* a holder opens while the supervisor is not about to tap STOP, for seconds
\* before and a minute and a half after the bounce, some get frames.  A cycle
\* goes on, but that it finds the button nothing in the code makes sure.
Lucky(s, svc) == Hold(s, svc) /\ capture' /\ sup[s] \in {"watch", "bounce"}
Fairness ==
    \A s \in Sup :
          /\ WF_vars(TakeLock(s)) /\ WF_vars(SpawnFirst(s))
          /\ SF_vars(Respawn(s)) /\ WF_vars(Probe(s))
          /\ WF_vars(CycleStop(s) \/ CycleStart(s)) /\ WF_vars(Bounce(s))
          /\ \A svc \in Holder : WF_vars(Hold(s, svc)) /\ SF_vars(Lucky(s, svc))
          /\ WF_vars(Script(s))
FairSpec == Spec /\ Fairness

(***************************************************************************)
(* Properties.                                                             *)
(***************************************************************************)
\* "One instance only (a lock port guarantees that)" (bridge_supervisor.py:8):
\* however often the script runs and whoever crashes.
OneSupervisor == \A s, t \in Sup : sup[s] \in Active /\ sup[t] \in Active => s = t

Duplicated(svc) == \E s, t \in Sup : s # t /\ svc \in running[s] /\ svc \in running[t]

\* No service runs twice, unless a supervisor still alive spawned one while
\* a run of the script was on its way from its clean-up to its launch.
NoDuplicates ==
    ~raced /\ (\A s \in Sup : sup[s] # "kill") =>
        \A svc \in Service : ~Duplicated(svc)

Watched == \E s \in Sup : sup[s] \in Active

\* Under a supervisor that stays alive every service runs in the end, though
\* services crash and the keepalive is bounced.
ServicesComeBack ==
    <>[]Watched => <>[](\A svc \in Service : \E s \in Sup : svc \in running[s])

\* From some time on every cycle does what the true label asks for.
ButtonFound ==
    <>[][\A s \in Sup : CycleAstray(s) => CycleStop(s) \/ CycleStart(s)]_vars

\* Under a supervisor that stays alive and finds droidVNC's button droidVNC
\* serves frames in the end, after stalls, stops, broken sessions, misled
\* probes and any number of taps that went astray before.
CaptureComesBack == <>[]Watched /\ ButtonFound => <>[]capture

\* "cycles droidVNC if capture ever stalls ... this is what keeps the mirror alive
\* unattended" (start_android_source.ps1:204-205), that is, without ButtonFound:
\* does not hold, every cycle may tap beside a button it never scrolled to.
StallsAreCycledAway == <>[]Watched => <>[]capture

\* "safe to re-run any time ... nothing is ever duplicated"
\* (start_android_source.ps1:8-9): does not hold, a supervisor that is ended
\* after one of its services may have replaced it.
NothingDuplicated == ~UnderWay => \A svc \in Service : ~Duplicated(svc)
=============================================================================
