------------------------- MODULE Supervisor_proofs -------------------------
(***************************************************************************)
(* Proofs about Supervisor: type correctness, the single supervisor, and   *)
(* that services are duplicated by a race with the script only, for any    *)
(* number of runs of the script, any services and any disturbances.        *)
(***************************************************************************)
EXTENDS Supervisor, TLAPS

\* The supervisors past the lock are those that hold it.
LockInv == \A s \in Sup : sup[s] \in Active <=> lock = s

\* What a clean-up that nobody raced leaves behind: while runs clean up, each
\* has all that is left on its list; past that nothing is left; and between
\* runs only one supervisor, dead or alive, has services.
AllListed == \A r, s \in Sup : \A svc \in running[s] :
                sup[r] = "kill" => <<s, svc>> \in victims[r]
NothingLeft == \A r, s \in Sup : sup[r] \in {"boot", "lock"} => running[s] = {}
OneHousehold == ~UnderWay =>
    \A s, t \in Sup : s # t /\ running[s] # {}
                        => running[t] = {} /\ sup[t] \notin Active
CleanInv == ~raced => AllListed /\ NothingLeft /\ OneHousehold

SupInv == TypeOK /\ LockInv /\ CleanInv

-----------------------------------------------------------------------------
LEMMA SupInitOK == Init => SupInv
<1> SUFFICES ASSUME Init PROVE SupInv
  OBVIOUS
<1> USE DEF Init
<1>1. 0 \in 0 .. MaxEvents /\ 0 \in 0 .. FailLimit - 1
  BY LimitAssumption
<1>2. TypeOK
  BY <1>1 DEF TypeOK
<1>3. LockInv
  BY SupAssumption DEF LockInv, Active
<1>4. CleanInv
  BY DEF CleanInv, AllListed, NothingLeft, OneHousehold
<1> QED
  BY <1>2, <1>3, <1>4 DEF SupInv

LEMMA EventInRange ==
    ASSUME events \in 0 .. MaxEvents, Event
    PROVE  events' \in 0 .. MaxEvents
  BY LimitAssumption DEF Event

-----------------------------------------------------------------------------
\* Type correctness.
LEMMA DroidType == ASSUME TypeOK, Droid PROVE TypeOK'
<1> USE EventInRange DEF TypeOK, procs, run, Leave, Toggle
<1>1. ASSUME NEW s \in Sup, NEW svc \in Holder, Hold(s, svc) PROVE TypeOK'
  BY <1>1 DEF Hold
<1>2. ASSUME NEW p \in held, Drop(p) PROVE TypeOK'
  BY <1>2 DEF Drop, Starved
<1>3. CASE Stall
  BY <1>3 DEF Stall
<1>4. CASE ServerStops
  BY <1>4 DEF ServerStops
<1> QED
  BY <1>1, <1>2, <1>3, <1>4 DEF Droid

\* The types of what a spawn writes.
LEMMA SpawnType ==
    ASSUME TypeOK, NEW s \in Sup, NEW svc \in Service, Spawn(s, svc)
    PROVE  /\ running' \in [Sup -> SUBSET Service]
           /\ victims' \in [Sup -> SUBSET (Sup \cup Process)]
           /\ raced' \in BOOLEAN
<1>1. running' \in [Sup -> SUBSET Service]
  BY DEF TypeOK, Spawn
<1>2. victims' \in [Sup -> SUBSET (Sup \cup Process)]
  BY DEF TypeOK, Spawn
<1>3. raced' \in BOOLEAN
  BY DEF TypeOK, Spawn
<1> QED
  BY <1>1, <1>2, <1>3

LEMMA MainType ==
    ASSUME TypeOK, NEW s \in Sup, Main(s) \/ ProbeMisled(s) \/ CycleAstray(s)
    PROVE  TypeOK'
<1> USE EventInRange DEF TypeOK, procs, run, droid, Living, Active
<1>1. CASE TakeLock(s)
  BY <1>1 DEF TakeLock
<1>2. CASE SpawnFirst(s)
  <2>1. PICK svc \in Service :
            started' = [started EXCEPT ![s] = @ \cup {svc}] /\ Spawn(s, svc)
    BY <1>2 DEF SpawnFirst
  <2>2. started' \in [Sup -> SUBSET Service]
    BY <2>1
  <2>3. sup' \in [Sup -> {"new", "gone"} \cup Cleaning \cup Living]
    BY <1>2 DEF SpawnFirst
  <2> QED
    BY <1>2, <2>1, <2>2, <2>3, SpawnType DEF SpawnFirst
<1>3. CASE Respawn(s)
  <2>1. PICK svc \in Service : Spawn(s, svc)
    BY <1>3 DEF Respawn, Ended
  <2> QED
    BY <1>3, <2>1, SpawnType DEF Respawn
<1>4. ASSUME Bad(s) PROVE /\ fails' \in [Sup -> 0 .. FailLimit - 1]
                          /\ sup' \in [Sup -> {"new", "gone"} \cup Cleaning \cup Living]
  BY <1>4, LimitAssumption DEF Bad, Reset
<1>5. ASSUME Good(s) PROVE /\ fails' \in [Sup -> 0 .. FailLimit - 1]
                           /\ sup' = sup
  BY <1>5, LimitAssumption DEF Good
<1>6. CASE Probe(s)
  BY <1>4, <1>5, <1>6 DEF Probe
<1>7. CASE ProbeMisled(s)
  BY <1>4, <1>7 DEF ProbeMisled
<1>8. CASE CycleStop(s)
  BY <1>8 DEF CycleStop, Toggle
<1>9. CASE CycleStart(s)
  BY <1>9 DEF CycleStart, Toggle
<1>10. CASE CycleAstray(s)
  BY <1>10 DEF CycleAstray, Toggle
<1>11. CASE Bounce(s)
  <2>1. Keepalive \in Service
    BY ServiceAssumption
  <2> QED
    BY <1>11, <2>1, SpawnType DEF Bounce, Leave
<1> QED
  BY <1>1, <1>2, <1>3, <1>6, <1>7, <1>8, <1>9, <1>10, <1>11 DEF Main

LEMMA EndsType ==
    ASSUME TypeOK, NEW s \in Sup,
           SupEnds(s) \/ \E svc \in Service : ServiceEnds(s, svc)
    PROVE  /\ sup' \in [Sup -> {"new", "gone"} \cup Cleaning \cup Living]
           /\ lock' \in Sup \cup {NoSup}
           /\ started' \in [Sup -> SUBSET Service]
           /\ running' \in [Sup -> SUBSET Service]
           /\ fails' \in [Sup -> 0 .. FailLimit - 1]
           /\ up' \in BOOLEAN /\ capture' \in BOOLEAN
           /\ held' \subseteq Sup \X Holder
<1>1. CASE SupEnds(s)
  BY <1>1 DEF SupEnds, TypeOK, droid
<1>2. ASSUME NEW svc \in Service, ServiceEnds(s, svc)
      PROVE  /\ running' \in [Sup -> SUBSET Service]
             /\ capture' \in BOOLEAN /\ held' \subseteq Sup \X Holder
             /\ UNCHANGED <<sup, lock, started, fails, up>>
  BY <1>2 DEF ServiceEnds, Leave, TypeOK
<1> QED
  BY <1>1, <1>2 DEF TypeOK

LEMMA ScriptType ==
    ASSUME TypeOK, NEW s \in Sup, Start(s) \/ Script(s)
    PROVE  TypeOK'
<1>1. CASE Start(s)
  BY <1>1 DEF Start, TypeOK, ToKill, Alive, Cleaning, Process, droid
<1>2. CASE Kill(s)
  <2>1. PICK v \in victims[s] :
          /\ victims' = [victims EXCEPT ![s] = @ \ {v}]
          /\ \/ v \in Sup /\ SupEnds(v)
             \/ v \in Process /\ ServiceEnds(v[1], v[2])
             \/ v \notin Alive /\ UNCHANGED <<procs, droid>>
    BY <1>2 DEF Kill
  <2>2. /\ victims' \in [Sup -> SUBSET (Sup \cup Process)]
        /\ raced' \in BOOLEAN /\ events' \in 0 .. MaxEvents
    BY <1>2, <2>1 DEF Kill, TypeOK
  <2>3. CASE v \in Sup /\ SupEnds(v)
    BY <2>2, <2>3, EndsType DEF TypeOK
  <2>4. CASE v \in Process /\ ServiceEnds(v[1], v[2])
    BY <2>2, <2>4, EndsType DEF TypeOK, Process
  <2>5. CASE UNCHANGED <<procs, droid>>
    BY <2>2, <2>5 DEF TypeOK, procs, droid
  <2> QED
    BY <2>1, <2>3, <2>4, <2>5
<1>3. CASE Killed(s)
  BY <1>3 DEF Killed, TypeOK, Cleaning, run, droid
<1>4. CASE Boot(s)
  BY <1>4 DEF Boot, TypeOK, Living, run, droid, Toggle
<1> QED
  BY <1>1, <1>2, <1>3, <1>4 DEF Script

LEMMA TypeStep == TypeOK /\ [Next]_vars => TypeOK'
<1> SUFFICES ASSUME TypeOK, [Next]_vars PROVE TypeOK'
  OBVIOUS
<1>1. CASE Droid
  BY <1>1, DroidType
<1>2. CASE Crash
  <2>1. events' \in 0 .. MaxEvents
    BY <1>2, EventInRange DEF Crash, TypeOK
  <2> QED
    BY <1>2, <2>1, EndsType DEF Crash, TypeOK, run
<1>3. ASSUME NEW s \in Sup, Start(s) \/ Script(s) PROVE TypeOK'
  BY <1>3, ScriptType
<1>4. ASSUME NEW s \in Sup, Main(s) \/ ProbeMisled(s) \/ CycleAstray(s)
      PROVE  TypeOK'
  BY <1>4, MainType
<1>5. CASE UNCHANGED vars
  BY <1>5 DEF TypeOK, vars, procs, run, droid
<1> QED
  BY <1>1, <1>2, <1>3, <1>4, <1>5 DEF Next

-----------------------------------------------------------------------------
\* The lock.  A supervisor becomes active by taking it, and gives it back only
\* by ending.
SameSup == UNCHANGED <<sup, lock>>
StaysUp(s) == /\ UNCHANGED lock
              /\ sup[s] \in Active
              /\ \E x \in Active : sup' = [sup EXCEPT ![s] = x]
StaysDown(s) == /\ UNCHANGED lock
                /\ sup[s] \notin Active
                /\ \E x \in {"kill", "boot", "lock", "gone"} :
                      sup' = [sup EXCEPT ![s] = x]

LEMMA LockStep == TypeOK /\ LockInv /\ [Next]_vars => LockInv'
<1> SUFFICES ASSUME TypeOK, LockInv, [Next]_vars PROVE LockInv'
  OBVIOUS
<1>1. CASE SameSup
  BY <1>1 DEF SameSup, LockInv
<1>2. ASSUME NEW s \in Sup, StaysUp(s) PROVE LockInv'
  BY <1>2 DEF StaysUp, LockInv, TypeOK
<1>3. ASSUME NEW s \in Sup, StaysDown(s) PROVE LockInv'
  BY <1>3 DEF StaysDown, LockInv, TypeOK, Active
<1>4. ASSUME NEW s \in Sup, SupEnds(s) PROVE LockInv'
  BY <1>4, SupAssumption DEF SupEnds, LockInv, TypeOK, Active, Living
<1>5. ASSUME NEW s \in Sup, NEW svc \in Service, ServiceEnds(s, svc) PROVE SameSup
  BY <1>5 DEF ServiceEnds, SameSup
<1>6. CASE Droid
  BY <1>1, <1>6 DEF Droid, Hold, Drop, Stall, ServerStops, SameSup, procs
<1>7. CASE Crash
  BY <1>1, <1>4, <1>5, <1>7 DEF Crash
<1>8. ASSUME NEW s \in Sup, Start(s) \/ Script(s) PROVE LockInv'
  <2>1. CASE Start(s)
    BY <1>3, <2>1 DEF Start, StaysDown, Active
  <2>2. CASE Kill(s)
    <3>1. PICK v \in victims[s] :
            \/ v \in Sup /\ SupEnds(v)
            \/ v \in Process /\ ServiceEnds(v[1], v[2])
            \/ UNCHANGED procs
      BY <2>2 DEF Kill
    <3> QED
      BY <1>1, <1>4, <1>5, <3>1 DEF Process, procs, SameSup
  <2>3. CASE Killed(s)
    BY <1>3, <2>3 DEF Killed, StaysDown, Active
  <2>4. CASE Boot(s)
    BY <1>3, <2>4 DEF Boot, StaysDown, Active
  <2> QED
    BY <1>8, <2>1, <2>2, <2>3, <2>4 DEF Script
<1>9. ASSUME NEW s \in Sup, Main(s) \/ ProbeMisled(s) \/ CycleAstray(s)
      PROVE  LockInv'
  <2>1. CASE TakeLock(s)
    <3>1. CASE LockFree
      BY <2>1, <3>1, SupAssumption DEF TakeLock, LockFree, LockInv, TypeOK, Active
    <3>2. CASE ~LockFree
      BY <1>3, <2>1, <3>2 DEF TakeLock, StaysDown, Active
    <3> QED
      BY <3>1, <3>2
  <2>2. CASE SpawnFirst(s)
    BY <1>1, <1>2, <2>2 DEF SpawnFirst, StaysUp, SameSup, Active, TypeOK
  <2>3. ASSUME Bad(s), sup[s] = "watch", UNCHANGED lock
        PROVE  SameSup \/ StaysUp(s)
    BY <2>3 DEF Bad, StaysUp, SameSup, Active
  <2>4. CASE Probe(s)
    BY <1>1, <1>2, <2>3, <2>4 DEF Probe, Good, SameSup
  <2>5. CASE ProbeMisled(s)
    BY <1>1, <1>2, <2>3, <2>5 DEF ProbeMisled
  <2>6. CASE Respawn(s)
    BY <1>1, <2>6 DEF Respawn, SameSup
  <2>7. CASE CycleStop(s) \/ CycleStart(s) \/ CycleAstray(s) \/ Bounce(s)
    BY <1>2, <2>7
       DEF CycleStop, CycleStart, CycleAstray, Bounce, StaysUp, Active
  <2> QED
    BY <1>9, <2>1, <2>2, <2>4, <2>5, <2>6, <2>7 DEF Main
<1>10. CASE UNCHANGED vars
  BY <1>1, <1>10 DEF vars, procs, SameSup
<1> QED
  BY <1>6, <1>7, <1>8, <1>9, <1>10 DEF Next

-----------------------------------------------------------------------------
\* An active supervisor that moves on stays one, and nobody else moves.
LEMMA UpStays ==
    ASSUME TypeOK, NEW s \in Sup, StaysUp(s)
    PROVE  /\ sup[s] \in Active /\ sup'[s] \in Active
           /\ \A r \in Sup : r # s => sup'[r] = sup[r]
<1>1. sup \in [Sup -> {"new", "gone"} \cup Cleaning \cup Living]
  BY DEF TypeOK
<1>2. PICK x \in Active : sup' = [sup EXCEPT ![s] = x]
  BY DEF StaysUp
<1>3. sup[s] \in Active
  BY DEF StaysUp
<1> QED
  BY <1>1, <1>2, <1>3

\* The clean-up.  Steps that only move an active supervisor on.
LEMMA CleanMoves ==
    ASSUME CleanInv, TypeOK, NEW s \in Sup, StaysUp(s),
           UNCHANGED <<running, victims, raced>>
    PROVE  CleanInv'
<1>1. \A r \in Sup : sup'[r] \in Active <=> sup[r] \in Active
  BY UpStays
<1>2. \A r \in Sup : \/ sup'[r] = sup[r]
                     \/ /\ sup[r] \notin {"kill", "boot", "lock"}
                        /\ sup'[r] \notin {"kill", "boot", "lock"}
  BY UpStays DEF Active
<1>3. UnderWay => UnderWay'
  BY <1>2 DEF UnderWay, Cleaning
<1> QED
  BY <1>1, <1>2, <1>3 DEF CleanInv, AllListed, NothingLeft, OneHousehold

\* A spawn between two runs: the household is the spawner's own.
LEMMA CleanSpawn ==
    ASSUME CleanInv, TypeOK, LockInv, NEW s \in Sup, sup[s] \in Active,
           NEW svc \in Service, Spawn(s, svc), SameSup \/ StaysUp(s)
    PROVE  CleanInv'
<1> SUFFICES ASSUME ~raced' PROVE (AllListed /\ NothingLeft /\ OneHousehold)'
  BY DEF CleanInv
<1>1. ~raced /\ ~UnderWay
  BY DEF Spawn
<1>2. \A r \in Sup : sup[r] # "kill" /\ sup[r] # "boot" /\ sup[r] # "lock"
  BY <1>1 DEF UnderWay, Cleaning
<1>3. \A r \in Sup : r # s => sup'[r] = sup[r]
  BY UpStays DEF SameSup
<1>4. sup'[s] \in Active
  BY UpStays DEF SameSup
<1>5. \A r \in Sup : sup'[r] # "kill" /\ sup'[r] # "boot" /\ sup'[r] # "lock"
  BY <1>2, <1>3, <1>4 DEF Active
<1>6. AllListed'
  BY <1>5 DEF AllListed
<1>7. NothingLeft'
  BY <1>5 DEF NothingLeft
<1>8. \A t \in Sup : t # s => running[t] = {} /\ sup[t] \notin Active
  <2>1. \A t \in Sup : sup[t] \in Active <=> lock = t
    BY DEF LockInv
  <2>2. \A t \in Sup : t # s => sup[t] \notin Active
    BY <2>1
  <2>3. OneHousehold /\ ~UnderWay
    BY <1>1 DEF CleanInv
  <2>4. \A t \in Sup : t # s /\ running[t] # {} => sup[s] \notin Active
    BY <2>3 DEF OneHousehold
  <2> QED
    BY <2>2, <2>4
<1>9. \A t \in Sup : t # s => running'[t] = running[t]
  BY DEF Spawn, TypeOK
<1>10. \A t \in Sup : t # s => running'[t] = {} /\ sup'[t] \notin Active
  BY <1>3, <1>8, <1>9
<1>11. OneHousehold'
  <2> SUFFICES ASSUME NEW r \in Sup, NEW t \in Sup, r # t, running'[r] # {}
               PROVE  running'[t] = {} /\ sup'[t] \notin Active
    BY DEF OneHousehold, Active
  <2>1. r = s
    BY <1>10
  <2> QED
    BY <1>10, <2>1
<1> QED
  BY <1>6, <1>7, <1>11

\* A service ends, and leaves the list of the run that ended it.
LEMMA CleanServiceEnds ==
    ASSUME CleanInv, TypeOK, NEW s \in Sup, NEW svc \in Service,
           ServiceEnds(s, svc), UNCHANGED raced,
           \A r, t \in Sup : \A x \in Service :
              <<t, x>> # <<s, svc>> /\ <<t, x>> \in victims[r]
                 => <<t, x>> \in victims'[r]
    PROVE  CleanInv'
<1>1. UNCHANGED sup /\ running' = [running EXCEPT ![s] = @ \ {svc}]
  BY DEF ServiceEnds
<1>2. \A t \in Sup : running'[t] \subseteq running[t] /\ running[t] \subseteq Service
  BY <1>1 DEF TypeOK
<1>3. svc \notin running'[s]
  BY <1>1 DEF TypeOK
<1>4. \A t \in Sup : \A x \in running'[t] : <<t, x>> # <<s, svc>>
  BY <1>3
<1>5. AllListed => AllListed'
  BY <1>1, <1>2, <1>4 DEF AllListed
<1>6. NothingLeft => NothingLeft'
  BY <1>1, <1>2 DEF NothingLeft
<1>7. OneHousehold => OneHousehold'
  BY <1>1, <1>2 DEF OneHousehold, UnderWay
<1> QED
  BY <1>5, <1>6, <1>7 DEF CleanInv

\* A supervisor ends: one in front of the lock is the last run under way only
\* when nothing is left.
LEMMA CleanSupEnds ==
    ASSUME CleanInv, TypeOK, NEW s \in Sup, SupEnds(s), UNCHANGED raced,
           \A r, t \in Sup : \A x \in Service :
              <<t, x>> \in victims[r] => <<t, x>> \in victims'[r]
    PROVE  CleanInv'
<1>1. /\ UNCHANGED running /\ sup[s] \in Living
      /\ \A r \in Sup : sup'[r] = IF r = s THEN "gone" ELSE sup[r]
  BY DEF SupEnds, TypeOK
<1>2. \A t \in Sup : running[t] \subseteq Service
  BY DEF TypeOK
<1>3. AllListed => AllListed'
  BY <1>1, <1>2 DEF AllListed
<1>4. NothingLeft => NothingLeft'
  BY <1>1 DEF NothingLeft
<1>5. NothingLeft /\ OneHousehold => OneHousehold'
  <2>1. CASE sup[s] = "lock"
    BY <1>1, <2>1 DEF NothingLeft, OneHousehold
  <2>2. CASE sup[s] # "lock"
    <3>1. UnderWay => UnderWay'
      BY <1>1, <2>2 DEF UnderWay, Living, Active, Cleaning
    <3> QED
      BY <1>1, <3>1 DEF OneHousehold, Active
  <2> QED
    BY <2>1, <2>2
<1> QED
  BY <1>3, <1>4, <1>5 DEF CleanInv

-----------------------------------------------------------------------------
\* The stages of a run.
LEMMA CleanStart ==
    ASSUME CleanInv, TypeOK, NEW s \in Sup, Start(s) PROVE CleanInv'
<1> SUFFICES ASSUME ~raced' PROVE (AllListed /\ NothingLeft /\ OneHousehold)'
  BY DEF CleanInv
<1>1. /\ sup[s] = "new" /\ UNCHANGED running
      /\ \A r \in Sup : sup'[r] = IF r = s THEN "kill" ELSE sup[r]
      /\ \A r \in Sup : victims'[r] = IF r = s THEN Alive ELSE victims[r]
  BY DEF Start, TypeOK, ToKill
<1>2. ~raced \/ ~UnderWay
  BY DEF Start
<1>3. \A t \in Sup : \A x \in running[t] : <<t, x>> \in Alive
  BY DEF Alive, Process, TypeOK
<1>4. AllListed'
  BY <1>1, <1>2, <1>3 DEF CleanInv, AllListed, UnderWay, Cleaning
<1>5. NothingLeft'
  BY <1>1, <1>2 DEF CleanInv, NothingLeft, UnderWay, Cleaning
<1>6. UnderWay'
  BY <1>1 DEF UnderWay, Cleaning
<1> QED
  BY <1>4, <1>5, <1>6 DEF OneHousehold

LEMMA CleanKill ==
    ASSUME CleanInv, TypeOK, NEW s \in Sup, Kill(s) PROVE CleanInv'
<1>1. PICK v \in victims[s] :
        /\ victims' = [victims EXCEPT ![s] = @ \ {v}]
        /\ \/ v \in Sup /\ SupEnds(v)
           \/ v \in Process /\ ServiceEnds(v[1], v[2])
           \/ v \notin Alive /\ UNCHANGED <<procs, droid>>
  BY DEF Kill
<1>2. UNCHANGED raced
  BY DEF Kill
<1>3. \A r \in Sup : \A p \in victims[r] : p # v => p \in victims'[r]
  BY <1>1 DEF TypeOK
<1>4. CASE v \in Sup /\ SupEnds(v)
  <2>1. \A t \in Sup, x \in Service : <<t, x>> # v
    BY <1>4, SupAssumption
  <2> QED
    BY <1>2, <1>3, <1>4, <2>1, CleanSupEnds
<1>5. CASE v \in Process /\ ServiceEnds(v[1], v[2])
  <2>1. PICK t \in Sup, x \in Service : v = <<t, x>>
    BY <1>5 DEF Process
  <2> QED
    BY <1>2, <1>3, <1>5, <2>1, CleanServiceEnds
<1>6. CASE v \notin Alive /\ UNCHANGED <<procs, droid>>
  <2>1. UNCHANGED <<sup, running>>
    BY <1>6 DEF procs
  <2>2. \A t \in Sup : \A x \in running[t] : <<t, x>> # v
    BY <1>6 DEF Alive, Process, TypeOK
  <2>3. AllListed => AllListed'
    BY <1>3, <2>1, <2>2 DEF AllListed
  <2> QED
    BY <1>2, <2>1, <2>3 DEF CleanInv, NothingLeft, OneHousehold, UnderWay
<1> QED
  BY <1>1, <1>4, <1>5, <1>6

LEMMA CleanKilled ==
    ASSUME CleanInv, TypeOK, NEW s \in Sup, Killed(s) PROVE CleanInv'
<1>1. /\ sup[s] = "kill" /\ victims[s] = {}
      /\ UNCHANGED <<running, victims, raced>>
      /\ \A r \in Sup : sup'[r] = IF r = s THEN "boot" ELSE sup[r]
  BY DEF Killed, TypeOK, run
<1>2. AllListed => \A t \in Sup : running[t] = {}
  BY <1>1 DEF AllListed
<1> QED
  BY <1>1, <1>2 DEF CleanInv, AllListed, NothingLeft, OneHousehold

LEMMA CleanBoot ==
    ASSUME CleanInv, TypeOK, NEW s \in Sup, Boot(s) PROVE CleanInv'
<1>1. /\ sup[s] = "boot" /\ UNCHANGED <<running, victims, raced>>
      /\ \E x \in {"lock", "gone"} :
            \A r \in Sup : sup'[r] = IF r = s THEN x ELSE sup[r]
  BY DEF Boot, TypeOK, run
<1> QED
  BY <1>1 DEF CleanInv, AllListed, NothingLeft, OneHousehold

LEMMA CleanTakeLock ==
    ASSUME CleanInv, TypeOK, NEW s \in Sup, TakeLock(s) PROVE CleanInv'
<1>1. /\ sup[s] = "lock" /\ UNCHANGED <<running, victims, raced>>
      /\ \E x \in {"spawn", "gone"} :
            \A r \in Sup : sup'[r] = IF r = s THEN x ELSE sup[r]
  BY DEF TakeLock, TypeOK, run
<1> QED
  BY <1>1 DEF CleanInv, AllListed, NothingLeft, OneHousehold

LEMMA CleanMain ==
    ASSUME SupInv, NEW s \in Sup, Main(s) \/ ProbeMisled(s) \/ CycleAstray(s)
    PROVE  CleanInv'
<1> USE DEF SupInv
<1>1. CASE TakeLock(s)
  BY <1>1, CleanTakeLock
<1>2. CASE SpawnFirst(s)
  <2>1. sup[s] \in Active /\ (SameSup \/ StaysUp(s))
    BY <1>2 DEF SpawnFirst, Active, StaysUp, SameSup, TypeOK
  <2>2. PICK svc \in Service : Spawn(s, svc)
    BY <1>2 DEF SpawnFirst
  <2> QED
    BY <2>1, <2>2, CleanSpawn
<1>3. CASE Respawn(s)
  <2>1. sup[s] \in Active /\ SameSup
    BY <1>3 DEF Respawn, Active, SameSup
  <2>2. PICK svc \in Service : Spawn(s, svc)
    BY <1>3 DEF Respawn, Ended
  <2> QED
    BY <2>1, <2>2, CleanSpawn
<1>4. CASE Bounce(s)
  <2>1. StaysUp(s)
    BY <1>4 DEF Bounce, StaysUp, Active
  <2>2. Spawn(s, Keepalive) /\ Keepalive \in Service /\ sup[s] \in Active
    BY <1>4, ServiceAssumption DEF Bounce, Active
  <2> QED
    BY <2>1, <2>2, CleanSpawn
<1>5. ASSUME SameSup \/ StaysUp(s), UNCHANGED <<running, run>> PROVE CleanInv'
  <2>1. CASE SameSup
    BY <1>5, <2>1
       DEF SameSup, run, CleanInv, AllListed, NothingLeft, OneHousehold, UnderWay
  <2>2. CASE StaysUp(s)
    BY <1>5, <2>2, CleanMoves DEF run
  <2> QED
    BY <1>5, <2>1, <2>2
<1>6. ASSUME Bad(s), sup[s] = "watch", UNCHANGED lock
      PROVE  SameSup \/ StaysUp(s)
  BY <1>6 DEF Bad, StaysUp, SameSup, Active
<1>7. CASE Probe(s)
  <2>1. SameSup \/ StaysUp(s)
    BY <1>6, <1>7 DEF Probe, Good, SameSup
  <2> QED
    BY <1>5, <1>7, <2>1 DEF Probe, run
<1>8. CASE ProbeMisled(s)
  BY <1>5, <1>6, <1>8 DEF ProbeMisled, run
<1>9. CASE CycleStop(s) \/ CycleStart(s) \/ CycleAstray(s)
  <2>1. StaysUp(s)
    BY <1>9 DEF CycleStop, CycleStart, CycleAstray, StaysUp, Active
  <2> QED
    BY <1>5, <1>9, <2>1 DEF CycleStop, CycleStart, CycleAstray, run
<1> QED
  BY <1>1, <1>2, <1>3, <1>4, <1>7, <1>8, <1>9 DEF Main

LEMMA CleanStep == SupInv /\ [Next]_vars => CleanInv'
<1> SUFFICES ASSUME SupInv, [Next]_vars PROVE CleanInv'
  OBVIOUS
<1>1. ASSUME UNCHANGED <<sup, running, victims, raced>> PROVE CleanInv'
  BY <1>1
     DEF SupInv, CleanInv, AllListed, NothingLeft, OneHousehold, UnderWay
<1>2. CASE Droid
  BY <1>1, <1>2 DEF Droid, Hold, Drop, Stall, ServerStops, procs, run
<1>3. CASE Crash
  <2>1. UNCHANGED <<victims, raced>>
    BY <1>3 DEF Crash, run
  <2>2. PICK s \in Sup : SupEnds(s) \/ \E svc \in Service : ServiceEnds(s, svc)
    BY <1>3 DEF Crash
  <2>3. CASE SupEnds(s)
    BY <2>1, <2>3, CleanSupEnds DEF SupInv
  <2>4. ASSUME NEW svc \in Service, ServiceEnds(s, svc) PROVE CleanInv'
    BY <2>1, <2>4, CleanServiceEnds DEF SupInv
  <2> QED
    BY <2>2, <2>3, <2>4
<1>4. ASSUME NEW s \in Sup, Start(s) \/ Script(s) PROVE CleanInv'
  BY <1>4, CleanStart, CleanKill, CleanKilled, CleanBoot DEF Script, SupInv
<1>5. ASSUME NEW s \in Sup, Main(s) \/ ProbeMisled(s) \/ CycleAstray(s)
      PROVE  CleanInv'
  BY <1>5, CleanMain
<1>6. CASE UNCHANGED vars
  BY <1>1, <1>6 DEF vars, procs, run
<1> QED
  BY <1>2, <1>3, <1>4, <1>5, <1>6 DEF Next

-----------------------------------------------------------------------------
\* The inductive invariant: who holds the lock, and what the clean-ups of the
\* script (step 0) leave of earlier supervisors and their services.
THEOREM SupInvariance == Spec => []SupInv
<1>1. SupInv /\ [Next]_vars => SupInv'
  BY TypeStep, LockStep, CleanStep DEF SupInv
<1> QED
  BY <1>1, SupInitOK, PTL DEF Spec

\* Every variable of the host stays in its range.
THEOREM SupTypeCorrect == Spec => []TypeOK
<1>1. SupInv => TypeOK
  BY DEF SupInv
<1> QED
  BY <1>1, SupInvariance, PTL

\* "One instance only (a lock port guarantees that)": of any number of
\* supervisors at most one spawns, probes and cycles.
THEOREM SingleSupervisor == Spec => []OneSupervisor
<1>1. SupInv => OneSupervisor
  BY DEF SupInv, LockInv, OneSupervisor
<1> QED
  BY <1>1, SupInvariance, PTL

\* A service that runs twice was spawned by a supervisor that was still alive
\* while a run of the script was on its way from its clean-up to its launch.
THEOREM DuplicatesNeedARace == Spec => []NoDuplicates
<1>1. ASSUME SupInv PROVE NoDuplicates
  <2> SUFFICES ASSUME ~raced, \A r \in Sup : sup[r] # "kill",
                      NEW svc \in Service, NEW s \in Sup, NEW t \in Sup,
                      s # t, svc \in running[s], svc \in running[t]
               PROVE  FALSE
    BY DEF NoDuplicates, Duplicated
  <2>1. NothingLeft /\ OneHousehold
    BY <1>1 DEF SupInv, CleanInv
  <2>2. CASE UnderWay
    BY <2>1, <2>2 DEF UnderWay, Cleaning, NothingLeft
  <2>3. CASE ~UnderWay
    BY <2>1, <2>3 DEF OneHousehold
  <2> QED
    BY <2>2, <2>3
<1> QED
  BY <1>1, SupInvariance, PTL
=============================================================================
