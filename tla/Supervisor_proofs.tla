-------------------------- MODULE Supervisor_proofs --------------------------
(***************************************************************************)
(* Types, one supervisor, no process that is not its own, and a state file *)
(* that is true, for any number of commands, supervisors, components and   *)
(* pids.                                                                   *)
(*                                                                         *)
(* The invariant adds what each place of Invoke-Supervisor relies on: no   *)
(* process before the start, none at the places of the components that are *)
(* still to be started, the old process gone where a new one is started,   *)
(* and all of them gone when the files are removed and the mutex released. *)
(***************************************************************************)
EXTENDS Supervisor, TLAPS

Active == {"prepare", "clear", "start", "state", "loop", "check", "restart", "restarted",
           "finally", "clean", "release"}

SupType ==
    [at : {"none", "mutex", "gone"} \cup Active,
     i : DOMAIN Components,
     processes : [Names -> Pids \cup {NoPid}],
     restartCounts : [Names -> 0..MaxRestarts]]

\* What a supervisor relies on, by its place.
Place(s) ==
    /\ sup[s].at \in {"none", "mutex", "prepare", "clear"} =>
         sup[s].i = 1 /\ \A n \in Names : sup[s].processes[n] = NoPid
    /\ sup[s].at = "start" =>
         \A j \in DOMAIN Components : j >= sup[s].i => sup[s].processes[Components[j]] = NoPid
    /\ sup[s].at = "restart" => HasExited(sup[s].processes[Components[sup[s].i]])
    /\ sup[s].at \in {"clean", "release"} => \A n \in Names : HasExited(sup[s].processes[n])

Places == \A s \in Supervisors : Place(s)

\* The mutex goes with the supervisor that created it.
HolderActive == holder # NoOne => holder \in Supervisors /\ sup[holder].at \in Active

\* Of the types, those that the rest of the invariant needs.
Types ==
    /\ children \subseteq [name : Names, pid : Pids, up : BOOLEAN]
    /\ sup \in [Supervisors -> SupType]

IInv == Types /\ OneSupervisor /\ HolderActive /\ ChildrenOwned /\ StateFileTrue /\ Places

-----------------------------------------------------------------------------
LEMMA NotStartedType == NotStarted \in SupType
<1>1. 1 \in DOMAIN Components
  BY SupervisorAssumption
<1>2. NoState \in [Names -> Pids \cup {NoPid}] /\ [n \in Names |-> 0] \in [Names -> 0..MaxRestarts]
  BY SupervisorAssumption DEF NoState
<1> QED BY <1>1, <1>2 DEF NotStarted, SupType

LEMMA InitInvariant == Init => IInv
<1> SUFFICES ASSUME Init PROVE IInv
  OBVIOUS
<1>1. Types
  BY NotStartedType, Zenon DEF Init, Types
<1>2. \A s \in Supervisors : sup[s] = NotStarted
  BY Zenon DEF Init
<1>3. OneSupervisor
  BY <1>2 DEF OneSupervisor, NotStarted
<1>4. ChildrenOwned /\ HolderActive
  BY Zenon DEF Init, ChildrenOwned, HolderActive
<1>5. StateFileTrue
  BY <1>2 DEF StateFileTrue, NotStarted
<1>6. Places
  BY <1>2 DEF Places, Place, NotStarted, NoState
<1> QED BY <1>1, <1>3, <1>4, <1>5, <1>6 DEF IInv

-----------------------------------------------------------------------------
(* Steps of one supervisor.                                                *)

\* The step changes the variables of s only, to r.
Moves(s, r) == sup' = [sup EXCEPT ![s] = r]

LEMMA MovesFacts ==
    ASSUME Types, NEW s \in Supervisors, NEW r \in SupType, Moves(s, r)
    PROVE  /\ sup' \in [Supervisors -> SupType]
           /\ sup'[s] = r
           /\ \A t \in Supervisors : t # s => sup'[t] = sup[t]
BY DEF Moves, Types

\* What another supervisor relies on is kept, if it has no processes or no process
\* starts or ends.
LEMMA PlaceKept ==
    ASSUME NEW t \in Supervisors, Place(t), sup'[t] = sup[t],
           children' = children \/ sup[t].at \in {"none", "mutex", "gone"}
    PROVE  Place(t)'
<1>1. CASE children' = children
  BY <1>1, Zenon DEF Place, HasExited
<1>2. CASE sup[t].at \in {"none", "mutex", "gone"}
  <2>1. sup[t].at \notin {"start", "restart", "clean", "release"}
    BY <1>2
  <2> QED BY <2>1, Zenon DEF Place
<1> QED BY <1>1, <1>2

\* A step of the supervisor that holds the mutex, between two places where it does,
\* that starts and stops no process.
LEMMA QuietStep ==
    ASSUME IInv, NEW s \in Supervisors, NEW r \in SupType, Moves(s, r),
           sup[s].at \in Active, r.at \in Active, r.processes = sup[s].processes,
           holder' = holder, children' = children, lost' = lost
    PROVE  /\ holder = s
           /\ OneSupervisor'
           /\ HolderActive'
           /\ ChildrenOwned'
           /\ \A t \in Supervisors : t # s => sup'[t].at \in {"none", "mutex", "gone"}
           /\ \A t \in Supervisors : t # s => Place(t)'
<1> USE DEF IInv
<1>1. /\ sup'[s] = r
      /\ \A t \in Supervisors : t # s => sup'[t] = sup[t]
  BY MovesFacts
<1>2. holder = s
  BY DEF OneSupervisor, Active
<1>3. \A t \in Supervisors : t # s => sup[t].at \in {"none", "mutex", "gone"}
  BY <1>2 DEF OneSupervisor, Types, SupType
<1>4. OneSupervisor' /\ HolderActive'
  BY <1>1, <1>2 DEF OneSupervisor, HolderActive
<1>5. ChildrenOwned'
  BY <1>1, <1>2 DEF ChildrenOwned
<1>6. \A t \in Supervisors : t # s => Place(t)'
  BY <1>1 DEF Places, Place, HasExited
<1> QED BY <1>1, <1>2, <1>3, <1>4, <1>5, <1>6

LEMMA QuietInvariant ==
    ASSUME IInv, NEW s \in Supervisors, NEW r \in SupType, Moves(s, r),
           sup[s].at \in Active, r.at \in Active, r.processes = sup[s].processes,
           holder' = holder, children' = children, lost' = lost,
           r.at \in {"loop", "check", "restart"} => state' \in {NoState, r.processes},
           Place(s)'
    PROVE  IInv'
<1>1. Types'
  BY MovesFacts, Zenon DEF IInv, Types
<1>2. /\ OneSupervisor' /\ HolderActive' /\ ChildrenOwned'
      /\ \A t \in Supervisors : t # s => sup'[t].at \in {"none", "mutex", "gone"}
      /\ \A t \in Supervisors : t # s => Place(t)'
  BY QuietStep, Zenon
<1>3. sup'[s] = r
  BY MovesFacts, Zenon DEF IInv
<1>4. StateFileTrue'
  BY <1>2, <1>3 DEF StateFileTrue
<1>5. Places'
  BY <1>2, Zenon DEF Places
<1> QED BY <1>1, <1>2, <1>4, <1>5, Zenon DEF IInv

\* The try block ends.
LEMMA FinallyStep ==
    ASSUME IInv, NEW s \in Supervisors, sup[s].at \in Active, ToFinally(s),
           holder' = holder, children' = children, lost' = lost
    PROVE  IInv'
<1> DEFINE r == [NotStarted EXCEPT !.at = "finally", !.processes = sup[s].processes]
<1>1. r \in SupType /\ r.at = "finally" /\ r.processes = sup[s].processes
  <2>1. sup[s].processes \in [Names -> Pids \cup {NoPid}]
    BY DEF IInv, Types, SupType
  <2>2. NotStarted \in SupType
    BY NotStartedType
  <2> QED BY <2>1, <2>2 DEF SupType, Active
<1>2. Moves(s, r)
  BY Zenon DEF Moves, ToFinally
<1> HIDE DEF r
<1>3. sup'[s] = r
  BY <1>1, <1>2, MovesFacts DEF IInv
<1>4. Place(s)'
  BY <1>1, <1>3 DEF Place
<1> QED BY <1>1, <1>2, <1>4, QuietInvariant DEF Active

\* Only the place changes.
LEMMA GotoStep ==
    ASSUME IInv, NEW s \in Supervisors, NEW at \in Active, sup[s].at \in Active, Goto(s, at),
           holder' = holder, children' = children, lost' = lost,
           at \in {"loop", "check", "restart"} => state' \in {NoState, sup[s].processes},
           at = "prepare" => FALSE,
           at = "clear" => sup[s].at = "prepare",
           at = "start" => sup[s].at = "clear",
           at = "restart" => FALSE,
           at \in {"clean", "release"} => \A n \in Names : HasExited(sup[s].processes[n])
    PROVE  IInv'
<1> DEFINE r == [sup[s] EXCEPT !.at = at]
<1>1. sup[s] \in SupType
  BY DEF IInv, Types
<1>2. r \in SupType /\ r.at = at /\ r.processes = sup[s].processes /\ r.i = sup[s].i
  BY <1>1 DEF SupType
<1>3. Moves(s, r)
  BY Zenon DEF Moves, Goto
<1> HIDE DEF r
<1>4. sup'[s] = r
  BY <1>2, <1>3, MovesFacts DEF IInv
<1>5. Place(s)'
  <2>1. at = "clear" => sup[s].i = 1 /\ \A n \in Names : sup[s].processes[n] = NoPid
    BY DEF IInv, Places, Place
  <2>2. at = "start" => \A n \in Names : sup[s].processes[n] = NoPid
    BY DEF IInv, Places, Place
  <2>3. \A j \in DOMAIN Components : Components[j] \in Names
    BY DEF Names
  <2> QED BY <1>2, <1>4, <2>1, <2>2, <2>3 DEF Place, HasExited, Active
<1> QED BY <1>2, <1>3, <1>5, QuietInvariant

LEMMA SupMutexPreserves == ASSUME IInv, NEW s \in Supervisors, SupMutex(s) PROVE IInv'
<1> USE DEF IInv
<1>1. sup[s] \in SupType /\ sup[s].at = "mutex" /\ children' = children /\ lost' = lost /\ state' = state
  BY DEF Types, SupMutex
<1>2. CASE SupervisorRunning
  <2> DEFINE r == [NotStarted EXCEPT !.at = "gone"]
  <2>1. r \in SupType /\ r.at = "gone"
    BY NotStartedType DEF SupType, NotStarted
  <2>2. Moves(s, r) /\ holder' = holder
    BY <1>2, Zenon DEF SupMutex, Ends, Moves
  <2> HIDE DEF r
  <2>3. /\ sup' \in [Supervisors -> SupType] /\ sup'[s] = r
        /\ \A t \in Supervisors : t # s => sup'[t] = sup[t]
    BY <2>1, <2>2, MovesFacts
  <2>4. Types'
    BY <1>1, <2>3, Zenon DEF Types
  <2>5. OneSupervisor' /\ StateFileTrue'
    BY <1>1, <2>1, <2>2, <2>3 DEF OneSupervisor, StateFileTrue
  <2>8. holder \in Supervisors /\ sup[holder].at \in Active /\ holder # s
    BY <1>1, <1>2 DEF HolderActive, SupervisorRunning, Active
  <2>9. HolderActive'
    BY <2>2, <2>3, <2>8 DEF HolderActive
  <2>6. ChildrenOwned'
    <3> SUFFICES ASSUME ~lost, NEW p \in children
                 PROVE  holder # NoOne /\ p.pid = sup'[holder].processes[p.name]
      BY <1>1, <2>2 DEF ChildrenOwned
    <3>1. holder # NoOne /\ p.pid = sup[holder].processes[p.name]
      BY DEF ChildrenOwned
    <3> QED
      BY <2>3, <2>8, <3>1
  <2>7. Places'
    BY <1>1, <2>1, <2>3 DEF Places, Place, HasExited
  <2> QED BY <2>4, <2>5, <2>6, <2>7, <2>9
<1>3. CASE ~SupervisorRunning
  <2> DEFINE r == [sup[s] EXCEPT !.at = "prepare"]
  <2>1. r \in SupType /\ r.at = "prepare" /\ r.i = sup[s].i /\ r.processes = sup[s].processes
    BY <1>1 DEF SupType, Active
  <2>2. Moves(s, r) /\ holder' = s /\ holder = NoOne
    BY <1>3, Zenon DEF SupMutex, Goto, Moves, SupervisorRunning
  <2> HIDE DEF r
  <2>3. /\ sup' \in [Supervisors -> SupType] /\ sup'[s] = r
        /\ \A t \in Supervisors : t # s => sup'[t] = sup[t]
    BY <2>1, <2>2, MovesFacts
  <2>4. Types'
    BY <1>1, <2>3, Zenon DEF Types
  <2>5. NoOne \notin Supervisors
    BY SupervisorAssumption
  <2>6. OneSupervisor' /\ HolderActive'
    BY <2>1, <2>2, <2>3, <2>5 DEF OneSupervisor, HolderActive, Active
  <2>7. ChildrenOwned'
    BY <1>1, <2>2, Zenon DEF ChildrenOwned
  <2>8. StateFileTrue'
    BY <1>1, <2>1, <2>3 DEF StateFileTrue
  <2>9. Places'
    BY <1>1, <2>1, <2>3 DEF Places, Place, HasExited
  <2> QED BY <2>4, <2>6, <2>7, <2>8, <2>9
<1> QED BY <1>2, <1>3

LEMMA SupPreparePreserves == ASSUME IInv, NEW s \in Supervisors, SupPrepare(s) PROVE IInv'
<1>1. /\ sup[s].at = "prepare"
      /\ Goto(s, "clear") \/ ToFinally(s)
      /\ holder' = holder /\ children' = children /\ lost' = lost
  BY Zenon DEF SupPrepare
<1>2. sup[s].at \in Active /\ "clear" \in Active
  BY <1>1 DEF Active
<1>3. CASE Goto(s, "clear")
  BY <1>1, <1>2, <1>3, GotoStep
<1>4. CASE ToFinally(s)
  BY <1>1, <1>2, <1>4, FinallyStep, Zenon
<1> QED BY <1>1, <1>3, <1>4

LEMMA SupClearPreserves == ASSUME IInv, NEW s \in Supervisors, SupClear(s) PROVE IInv'
<1>1. /\ sup[s].at = "clear" /\ Goto(s, "start")
      /\ holder' = holder /\ children' = children /\ lost' = lost
  BY Zenon DEF SupClear
<1>2. sup[s].at \in Active /\ "start" \in Active
  BY <1>1 DEF Active
<1> QED BY <1>1, <1>2, GotoStep

LEMMA SupCleanPreserves == ASSUME IInv, NEW s \in Supervisors, SupClean(s) PROVE IInv'
<1>1. /\ sup[s].at = "clean" /\ Goto(s, "release")
      /\ holder' = holder /\ children' = children /\ lost' = lost
  BY Zenon DEF SupClean
<1>2. sup[s].at \in Active /\ "release" \in Active
  BY <1>1 DEF Active
<1>3. \A n \in Names : HasExited(sup[s].processes[n])
  BY <1>1 DEF IInv, Places, Place
<1> QED BY <1>1, <1>2, <1>3, GotoStep

LEMMA SupStatePreserves == ASSUME IInv, NEW s \in Supervisors, SupState(s) PROVE IInv'
<1>1. /\ sup[s].at = "state"
      /\ (state' = sup[s].processes /\ Goto(s, "loop")) \/ ToFinally(s)
      /\ holder' = holder /\ children' = children /\ lost' = lost
  BY Zenon DEF SupState, WriteState, WriteStateFails
<1>2. sup[s].at \in Active /\ "loop" \in Active
  BY <1>1 DEF Active
<1>3. CASE state' = sup[s].processes /\ Goto(s, "loop")
  BY <1>1, <1>2, <1>3, GotoStep
<1>4. CASE ToFinally(s)
  BY <1>1, <1>2, <1>4, FinallyStep, Zenon
<1> QED BY <1>1, <1>3, <1>4

\* The foreach goes on to a component, or back to the test of the loop.
LEMMA ForeachStep ==
    ASSUME IInv, NEW s \in Supervisors, sup[s].at \in Active,
           NEW at \in {"check", "loop"}, NEW i \in DOMAIN Components,
           sup' = [sup EXCEPT ![s].at = at, ![s].i = i],
           holder' = holder, children' = children, lost' = lost,
           state' \in {NoState, sup[s].processes}
    PROVE  IInv'
<1> DEFINE r == [sup[s] EXCEPT !.at = at, !.i = i]
<1>1. sup[s] \in SupType
  BY DEF IInv, Types
<1>2. r \in SupType /\ r.at = at /\ r.processes = sup[s].processes
  BY <1>1 DEF SupType, Active
<1>3. Moves(s, r)
  BY <1>1 DEF Moves, IInv, Types, SupType
<1> HIDE DEF r
<1>4. sup'[s] = r
  BY <1>2, <1>3, MovesFacts DEF IInv
<1>5. Place(s)'
  BY <1>2, <1>4 DEF Place
<1>6. r.at \in Active
  BY <1>2 DEF Active
<1> QED BY <1>2, <1>3, <1>5, <1>6, QuietInvariant

LEMMA FollowingPlace == ASSUME NEW i \in DOMAIN Components PROVE Following(i) \in DOMAIN Components
<1>1. DOMAIN Components = 1..Len(Components) /\ Len(Components) \in Nat
  BY SupervisorAssumption
<1> QED BY <1>1, SupervisorAssumption DEF Following

LEMMA SupLoopPreserves == ASSUME IInv, NEW s \in Supervisors, SupLoop(s) PROVE IInv'
<1>1. /\ sup[s].at = "loop" /\ state' = state
      /\ sup' = [sup EXCEPT ![s].at = "check", ![s].i = 1] \/ ToFinally(s)
      /\ holder' = holder /\ children' = children /\ lost' = lost
  BY Zenon DEF SupLoop
<1>2. sup[s].at \in Active /\ state \in {NoState, sup[s].processes}
  BY <1>1 DEF Active, IInv, StateFileTrue
<1>3. CASE sup' = [sup EXCEPT ![s].at = "check", ![s].i = 1]
  <2>1. 1 \in DOMAIN Components
    BY SupervisorAssumption
  <2> QED BY <1>1, <1>2, <1>3, <2>1, ForeachStep
<1>4. CASE ToFinally(s)
  BY <1>1, <1>2, <1>4, FinallyStep, Zenon
<1> QED BY <1>1, <1>3, <1>4

\* Advance, when the state file is true.
LEMMA AdvanceStep ==
    ASSUME IInv, NEW s \in Supervisors, sup[s].at \in Active, Advance(s),
           holder' = holder, children' = children, lost' = lost,
           state' \in {NoState, sup[s].processes}
    PROVE  IInv'
<1> DEFINE at == IF sup[s].i < Len(Components) THEN "check" ELSE "loop"
           i == Following(sup[s].i)
<1>1. at \in {"check", "loop"}
  OBVIOUS
<1>2. i \in DOMAIN Components
  <2>1. sup[s].i \in DOMAIN Components
    BY DEF IInv, Types, SupType
  <2> QED BY <2>1, FollowingPlace
<1>3. sup' = [sup EXCEPT ![s].at = at, ![s].i = i]
  BY DEF Advance
<1> HIDE DEF at, i
<1> QED BY <1>1, <1>2, <1>3, ForeachStep

LEMMA SupRestartedPreserves == ASSUME IInv, NEW s \in Supervisors, SupRestarted(s) PROVE IInv'
<1>1. /\ sup[s].at = "restarted"
      /\ (state' = sup[s].processes /\ Advance(s)) \/ ToFinally(s)
      /\ holder' = holder /\ children' = children /\ lost' = lost
  BY Zenon DEF SupRestarted, WriteState, WriteStateFails
<1>2. sup[s].at \in Active
  BY <1>1 DEF Active
<1>3. CASE state' = sup[s].processes /\ Advance(s)
  BY <1>1, <1>2, <1>3, AdvanceStep
<1>4. CASE ToFinally(s)
  BY <1>1, <1>2, <1>4, FinallyStep, Zenon
<1> QED BY <1>1, <1>3, <1>4

LEMMA SupCheckPreserves == ASSUME IInv, NEW s \in Supervisors, SupCheck(s) PROVE IInv'
<1> DEFINE n == Components[sup[s].i]
<1>1. /\ sup[s].at = "check" /\ state' = state
      /\ holder' = holder /\ children' = children /\ lost' = lost
  BY Zenon DEF SupCheck
<1>2. sup[s].at \in Active /\ state \in {NoState, sup[s].processes}
  BY <1>1 DEF Active, IInv, StateFileTrue
<1>3. CASE ~HasExited(sup[s].processes[n])
  <2>1. Advance(s)
    BY <1>3, Zenon DEF SupCheck
  <2> QED BY <1>1, <1>2, <2>1, AdvanceStep
<1>4. CASE HasExited(sup[s].processes[n])
  <2>1. PICK stayed_up \in BOOLEAN :
          LET count == (IF stayed_up THEN 0 ELSE sup[s].restartCounts[n]) + 1
          IN  IF count > MaxRestarts
                THEN ToFinally(s)
                ELSE sup' = [sup EXCEPT ![s].at = "restart", ![s].restartCounts[n] = count]
    BY <1>4, Zenon DEF SupCheck
  <2> DEFINE count == (IF stayed_up THEN 0 ELSE sup[s].restartCounts[n]) + 1
  <2>2. CASE count > MaxRestarts
    <3>1. ToFinally(s)
      BY <2>1, <2>2, Zenon
    <3> QED BY <1>1, <1>2, <3>1, FinallyStep, Zenon
  <2>3. CASE ~(count > MaxRestarts)
    <3> DEFINE r == [sup[s] EXCEPT !.at = "restart", !.restartCounts[n] = count]
    <3>1. sup[s] \in SupType /\ n \in Names
      BY DEF IInv, Types, SupType, Names
    <3>2. count \in 0..MaxRestarts
      <4>1. sup[s].restartCounts[n] \in Nat
        BY <3>1, SupervisorAssumption DEF SupType
      <4>2. count \in Nat
        BY <4>1
      <4> QED BY <2>3, <4>2, SupervisorAssumption
    <3>3. sup' = [sup EXCEPT ![s].at = "restart", ![s].restartCounts[n] = count]
      BY <2>1, <2>3, Zenon
    <3> HIDE DEF count, n
    <3>4. r \in SupType /\ r.at = "restart" /\ r.processes = sup[s].processes /\ r.i = sup[s].i
      BY <3>1, <3>2 DEF SupType, Active
    <3>5. Moves(s, r)
      BY <3>1, <3>3 DEF Moves, IInv, Types, SupType
    <3> HIDE DEF r
    <3>6. sup'[s] = r
      BY <3>4, <3>5, MovesFacts DEF IInv
    <3>7. Place(s)'
      BY <1>1, <1>4, <3>4, <3>6 DEF Place, HasExited, n
    <3>8. r.at \in Active
      BY <3>4 DEF Active
    <3> QED BY <1>1, <1>2, <3>4, <3>5, <3>7, <3>8, QuietInvariant
  <2> QED BY <2>2, <2>3
<1> QED BY <1>3, <1>4

-----------------------------------------------------------------------------
(* Processes are started and stopped.                                      *)

\* A new process has a pid that nobody else has or remembers.
LEMMA NewPidFresh ==
    ASSUME FreePids # {}
    PROVE  /\ NewPid \in Pids
           /\ HasExited(NewPid)
           /\ \A t \in Supervisors, m \in Names : sup[t].processes[m] # NewPid
<1>1. NewPid \in FreePids
  BY Zenon DEF NewPid
<1> QED BY <1>1, Zenon DEF FreePids

\* Start-Component, where the component has no process that runs.
LEMMA StartStep ==
    ASSUME IInv, NEW s \in Supervisors, sup[s].at \in Active,
           NEW next \in {"start", "state", "restarted"}, NEW k \in DOMAIN Components,
           StartComponent(s, next, k),
           holder' = holder,
           HasExited(sup[s].processes[Components[sup[s].i]]),
           next = "start" => /\ sup[s].at = "start"
                             /\ k = sup[s].i + 1
    PROVE  IInv'
<1> USE DEF IInv
<1> DEFINE n == Components[sup[s].i]
<1>1. sup[s] \in SupType /\ sup[s].i \in DOMAIN Components /\ n \in Names
  BY DEF Types, SupType, Names
<1>2. holder = s
  BY DEF OneSupervisor, Active
<1>3. \A t \in Supervisors : t # s => sup[t].at \in {"none", "mutex", "gone"}
  BY <1>2 DEF OneSupervisor, Types, SupType
<1>4. CASE ToFinally(s) /\ UNCHANGED <<children, faults, lost>>
  BY <1>4, FinallyStep
<1>5. CASE /\ Launched(n)
           /\ sup' = [sup EXCEPT ![s].at = next, ![s].i = k, ![s].processes[n] = NewPid]
           /\ UNCHANGED <<faults, lost>>
  <2> DEFINE r == [sup[s] EXCEPT !.at = next, !.i = k, !.processes[n] = NewPid]
  <2>1. NewPid \in Pids /\ HasExited(NewPid)
    BY <1>5, NewPidFresh DEF Launched
  <2> HIDE DEF n
  <2>2. /\ r \in SupType /\ r.at = next /\ r.i = k /\ r.processes[n] = NewPid
        /\ \A m \in Names : m # n => r.processes[m] = sup[s].processes[m]
    BY <1>1, <2>1 DEF SupType, Active
  <2>3. Moves(s, r)
    BY <1>1, <1>5 DEF Moves, Types, SupType
  <2> HIDE DEF r
  <2>4. /\ sup' \in [Supervisors -> SupType] /\ sup'[s] = r
        /\ \A t \in Supervisors : t # s => sup'[t] = sup[t]
    BY <2>2, <2>3, MovesFacts
  <2>5. Types'
    <3>1. [name |-> n, pid |-> NewPid, up |-> FALSE] \in [name : Names, pid : Pids, up : BOOLEAN]
      BY <1>1, <2>1, Zenon
    <3> QED BY <1>5, <2>4, <3>1, Zenon DEF Types, Launched
  <2>6. OneSupervisor' /\ HolderActive'
    BY <1>2, <1>3, <2>2, <2>4 DEF OneSupervisor, HolderActive, Active
  <2>7. ChildrenOwned'
    <3> SUFFICES ASSUME ~lost, NEW p \in children'
                 PROVE  holder # NoOne /\ p.pid = sup'[s].processes[p.name]
      BY <1>2, <1>5 DEF ChildrenOwned
    <3>1. holder # NoOne
      BY <1>2, SupervisorAssumption
    <3>2. CASE p \in children
      <4>1. p.pid = sup[s].processes[p.name] /\ p.name \in Names
        BY <1>2, <3>2 DEF ChildrenOwned, Types
      <4>2. p.name # n
        BY <3>2, <4>1 DEF HasExited, n
      <4> QED BY <2>2, <2>4, <3>1, <4>1, <4>2
    <3>3. CASE p = [name |-> n, pid |-> NewPid, up |-> FALSE]
      <4>1. p.name = n /\ p.pid = NewPid
        BY <3>3
      <4> QED BY <2>2, <2>4, <3>1, <4>1
    <3> QED BY <1>5, <3>2, <3>3, Zenon DEF Launched
  <2>8. StateFileTrue'
    BY <1>3, <2>2, <2>4 DEF StateFileTrue
  <2>9. Places'
    <3>1. \A t \in Supervisors : t # s => Place(t)'
      BY <1>3, <2>4, PlaceKept, Zenon DEF Places
    <3>2. Place(s)'
      <4>1. CASE next = "start"
        <5> SUFFICES ASSUME NEW j \in DOMAIN Components, j >= k
                     PROVE  r.processes[Components[j]] = NoPid
          BY <2>2, <2>4, <4>1 DEF Place
        <5>1. sup[s].i \in Nat /\ j \in Nat /\ k = sup[s].i + 1
          BY <1>1, <4>1, SupervisorAssumption
        <5>2. j >= sup[s].i /\ j # sup[s].i
          BY <5>1
        <5>3. Components[j] # n /\ Components[j] \in Names
          BY <1>1, <5>2, SupervisorAssumption DEF n, Names
        <5>4. sup[s].processes[Components[j]] = NoPid
          BY <4>1, <5>2 DEF Places, Place
        <5> QED BY <2>2, <5>3, <5>4
      <4>2. CASE next # "start"
        BY <2>2, <2>4, <4>2 DEF Place
      <4> QED BY <4>1, <4>2
    <3> QED BY <3>1, <3>2 DEF Places
  <2> QED BY <2>5, <2>6, <2>7, <2>8, <2>9
<1>6. CASE Launched(n) /\ Fault(2) /\ lost' = TRUE /\ ToFinally(s)
  <2> DEFINE r == [NotStarted EXCEPT !.at = "finally", !.processes = sup[s].processes]
  <2>1. r \in SupType /\ r.at = "finally"
    BY <1>1, NotStartedType DEF SupType, Active
  <2>2. Moves(s, r)
    BY <1>6, Zenon DEF Moves, ToFinally
  <2> HIDE DEF r
  <2>3. /\ sup' \in [Supervisors -> SupType] /\ sup'[s] = r
        /\ \A t \in Supervisors : t # s => sup'[t] = sup[t]
    BY <2>1, <2>2, MovesFacts
  <2>4. Types'
    <3>1. NewPid \in Pids
      BY <1>6, NewPidFresh DEF Launched
    <3>2. [name |-> n, pid |-> NewPid, up |-> FALSE] \in [name : Names, pid : Pids, up : BOOLEAN]
      BY <1>1, <3>1, Zenon
    <3> QED BY <1>6, <2>3, <3>2, Zenon DEF Types, Launched
  <2>5. OneSupervisor' /\ HolderActive'
    BY <1>2, <1>3, <2>1, <2>3 DEF OneSupervisor, HolderActive, Active
  <2>6. ChildrenOwned'
    BY <1>6, Zenon DEF ChildrenOwned
  <2>7. StateFileTrue'
    BY <1>3, <2>1, <2>3 DEF StateFileTrue
  <2>8. Places'
    <3>1. \A t \in Supervisors : t # s => Place(t)'
      BY <1>3, <2>3, PlaceKept, Zenon DEF Places
    <3>2. Place(s)'
      BY <2>1, <2>3 DEF Place
    <3> QED BY <3>1, <3>2, Zenon DEF Places
  <2> QED BY <2>4, <2>5, <2>6, <2>7, <2>8
<1> QED BY <1>4, <1>5, <1>6, Zenon DEF StartComponent

LEMMA SupStartPreserves == ASSUME IInv, NEW s \in Supervisors, SupStart(s) PROVE IInv'
<1> DEFINE next == IF sup[s].i < Len(Components) THEN "start" ELSE "state"
           k == Following(sup[s].i)
<1>1. sup[s].at = "start" /\ StartComponent(s, next, k) /\ holder' = holder
  BY Zenon DEF SupStart
<1>2. sup[s].i \in DOMAIN Components /\ sup[s].i \in Nat
  BY SupervisorAssumption DEF IInv, Types, SupType
<1>3. k \in DOMAIN Components /\ next \in {"start", "state", "restarted"}
  BY <1>2, FollowingPlace
<1>4. HasExited(sup[s].processes[Components[sup[s].i]])
  <2>1. sup[s].processes[Components[sup[s].i]] = NoPid
    BY <1>1, <1>2 DEF IInv, Places, Place
  <2>2. \A p \in children : p.pid # NoPid
    BY SupervisorAssumption DEF IInv, Types, NoPid
  <2> QED BY <2>1, <2>2 DEF HasExited
<1>5. next = "start" => sup[s].at = "start" /\ k = sup[s].i + 1
  BY <1>1 DEF Following
<1>6. sup[s].at \in Active
  BY <1>1 DEF Active
<1> HIDE DEF next, k
<1> QED BY <1>1, <1>3, <1>4, <1>5, <1>6, StartStep

LEMMA SupRestartPreserves == ASSUME IInv, NEW s \in Supervisors, SupRestart(s) PROVE IInv'
<1>1. sup[s].at = "restart" /\ StartComponent(s, "restarted", sup[s].i) /\ holder' = holder
  BY Zenon DEF SupRestart
<1>2. sup[s].i \in DOMAIN Components
  BY DEF IInv, Types, SupType
<1>3. HasExited(sup[s].processes[Components[sup[s].i]])
  BY <1>1 DEF IInv, Places, Place
<1>4. sup[s].at \in Active /\ "restarted" \in {"start", "state", "restarted"}
  BY <1>1 DEF Active
<1> QED BY <1>1, <1>2, <1>3, <1>4, StartStep

\* Processes end, and nothing else changes.
LEMMA ChildrenEnd ==
    ASSUME IInv, children' \subseteq children,
           sup' = sup, holder' = holder, state' = state, lost' = lost
    PROVE  IInv'
<1> USE DEF IInv
<1>1. Types'
  BY DEF Types
<1>2. OneSupervisor' /\ HolderActive' /\ StateFileTrue'
  BY Zenon DEF OneSupervisor, HolderActive, StateFileTrue
<1>3. ChildrenOwned'
  BY DEF ChildrenOwned
<1>4. Places'
  BY DEF Places, Place, HasExited
<1> QED BY <1>1, <1>2, <1>3, <1>4

LEMMA SupFinallyPreserves == ASSUME IInv, NEW s \in Supervisors, SupFinally(s) PROVE IInv'
<1>1. sup[s].at = "finally" /\ holder' = holder /\ state' = state /\ lost' = lost
  BY Zenon DEF SupFinally
<1>2. CASE Running(s) = {}
  <2>1. Goto(s, "clean") /\ children' = children
    BY <1>2, Zenon DEF SupFinally
  <2>2. \A n \in Names : HasExited(sup[s].processes[n])
    BY <1>2 DEF Running, Names
  <2>3. sup[s].at \in Active /\ "clean" \in Active
    BY <1>1 DEF Active
  <2> QED BY <1>1, <2>1, <2>2, <2>3, GotoStep
<1>3. CASE Running(s) # {}
  <2>1. children' \subseteq children /\ sup' = sup
    BY <1>3, Zenon DEF SupFinally
  <2> QED BY <1>1, <2>1, ChildrenEnd
<1> QED BY <1>2, <1>3

\* The supervisor ends and its mutex with it, when nothing of it runs or all is lost.
LEMMA EndStep ==
    ASSUME IInv, NEW s \in Supervisors, Ends(s),
           holder' = IF holder = s THEN NoOne ELSE holder,
           children' = children, state' = state,
           lost' \/ (lost' = lost /\ holder = s /\ \A n \in Names : HasExited(sup[s].processes[n]))
    PROVE  IInv'
<1> USE DEF IInv
<1> DEFINE r == [NotStarted EXCEPT !.at = "gone"]
<1>1. r \in SupType /\ r.at = "gone"
  BY NotStartedType DEF SupType, NotStarted
<1>2. Moves(s, r)
  BY Zenon DEF Ends, Moves
<1> HIDE DEF r
<1>3. /\ sup' \in [Supervisors -> SupType] /\ sup'[s] = r
      /\ \A t \in Supervisors : t # s => sup'[t] = sup[t]
  BY <1>1, <1>2, MovesFacts
<1>4. Types'
  BY <1>3, Zenon DEF Types
<1>5. OneSupervisor'
  BY <1>1, <1>3 DEF OneSupervisor
<1>6. HolderActive'
  BY <1>3 DEF HolderActive
<1>7. ChildrenOwned'
  <2>1. CASE lost'
    BY <2>1, Zenon DEF ChildrenOwned
  <2>2. CASE lost' = lost /\ holder = s /\ \A n \in Names : HasExited(sup[s].processes[n])
    <3> SUFFICES ASSUME ~lost, NEW p \in children PROVE FALSE
      BY <2>2 DEF ChildrenOwned
    <3>1. p.pid = sup[s].processes[p.name] /\ p.name \in Names
      BY <2>2 DEF ChildrenOwned, Types
    <3> QED BY <2>2, <3>1 DEF HasExited
  <2> QED BY <2>1, <2>2
<1>8. StateFileTrue'
  BY <1>1, <1>3 DEF StateFileTrue
<1>9. Places'
  <2>1. \A t \in Supervisors : t # s => Place(t)'
    BY <1>3, PlaceKept, Zenon DEF Places
  <2>2. Place(s)'
    BY <1>1, <1>3 DEF Place
  <2> QED BY <2>1, <2>2, Zenon DEF Places
<1> QED BY <1>4, <1>5, <1>6, <1>7, <1>8, <1>9

LEMMA SupReleasePreserves == ASSUME IInv, NEW s \in Supervisors, SupRelease(s) PROVE IInv'
<1>1. /\ sup[s].at = "release" /\ holder' = NoOne /\ Ends(s)
      /\ children' = children /\ state' = state /\ lost' = lost
  BY Zenon DEF SupRelease
<1>2. \A n \in Names : HasExited(sup[s].processes[n])
  BY <1>1 DEF IInv, Places, Place
<1>3. holder = s
  BY <1>1 DEF IInv, OneSupervisor
<1> QED BY <1>1, <1>2, <1>3, EndStep

LEMMA KillPreserves == ASSUME IInv, NEW s \in Supervisors, Kill(s) PROVE IInv'
<1>1. /\ holder' = (IF holder = s THEN NoOne ELSE holder) /\ Ends(s)
      /\ children' = children /\ state' = state /\ lost' = TRUE
  BY Zenon DEF Kill
<1> QED BY <1>1, EndStep, Zenon

-----------------------------------------------------------------------------
(* Commands and components.                                                *)

LEMMA SpawnPreserves == ASSUME IInv, NEW c \in Commands, StartSpawn(c) PROVE IInv'
<1> USE DEF IInv
<1>0. PICK s \in Supervisors : s = CHOOSE t \in Supervisors : sup[t].at = "none"
  BY Zenon DEF StartSpawn
<1> DEFINE r == [sup[s] EXCEPT !.at = "mutex"]
<1>1. sup[s].at = "none"
  BY <1>0, Zenon DEF StartSpawn
<1>2. /\ Goto(s, "mutex") /\ holder' = holder /\ children' = children /\ state' = state
      /\ lost' = lost
  BY <1>0, Zenon DEF StartSpawn
<1>3. /\ r \in SupType /\ r.at = "mutex" /\ r.i = sup[s].i
      /\ r.processes = sup[s].processes
  BY <1>1 DEF Types, SupType
<1>4. Moves(s, r)
  BY <1>2, Zenon DEF Goto, Moves
<1> HIDE DEF r
<1>5. /\ sup' \in [Supervisors -> SupType] /\ sup'[s] = r
      /\ \A t \in Supervisors : t # s => sup'[t] = sup[t]
  BY <1>1, <1>3, <1>4, MovesFacts
<1>6. holder # s
  BY <1>1, SupervisorAssumption DEF HolderActive, Active
<1>7. Types'
  BY <1>2, <1>5, Zenon DEF Types
<1>8. OneSupervisor' /\ HolderActive' /\ StateFileTrue'
  BY <1>2, <1>3, <1>5, <1>6 DEF OneSupervisor, HolderActive, StateFileTrue
<1>9. ChildrenOwned'
  BY <1>2, <1>5, <1>6 DEF ChildrenOwned, HolderActive
<1>10. Places'
  <2>1. \A t \in Supervisors : t # s => Place(t)'
    BY <1>2, <1>5, PlaceKept, Zenon DEF Places
  <2>2. sup[s].i = 1 /\ \A n \in Names : sup[s].processes[n] = NoPid
    BY <1>1 DEF Places, Place
  <2>3. Place(s)'
    BY <1>3, <1>5, <2>2 DEF Place
  <2> QED BY <2>1, <2>3, Zenon DEF Places
<1> QED BY <1>7, <1>8, <1>9, <1>10

\* The other steps of the commands leave supervisors and processes alone; stop may
\* remove the state file.
LEMMA CommandPreserves == ASSUME IInv, NEW c \in Commands, CommandStep(c) PROVE IInv'
<1>1. CASE StartSpawn(c)
  BY <1>1, SpawnPreserves
<1>2. CASE ~StartSpawn(c)
  <2>1. /\ holder' = holder /\ children' = children /\ sup' = sup /\ lost' = lost
        /\ state' = state \/ state' = NoState
    BY <1>2, Zenon DEF CommandStep, StartTest, StartPorts, StartClear, StartMutex, StartHealth,
       StartRecheck, StartGiveUp, StopTest, StopForget, StopRequest
  <2>2. Types' /\ OneSupervisor' /\ HolderActive' /\ ChildrenOwned'
    BY <2>1, Zenon DEF IInv, Types, OneSupervisor, HolderActive, ChildrenOwned
  <2>3. StateFileTrue'
    BY <2>1 DEF IInv, StateFileTrue
  <2>4. Places'
    BY <2>1, Zenon DEF IInv, Places, Place, HasExited
  <2> QED BY <2>2, <2>3, <2>4 DEF IInv
<1> QED BY <1>1, <1>2

LEMMA BindPreserves == ASSUME IInv, NEW p \in children, Bind(p) PROVE IInv'
<1> USE DEF IInv
<1> DEFINE q == [p EXCEPT !.up = TRUE]
<1>1. /\ children' = (children \ {p}) \cup {q}
      /\ holder' = holder /\ sup' = sup /\ state' = state /\ lost' = lost
  BY Zenon DEF Bind
<1>2. q \in [name : Names, pid : Pids, up : BOOLEAN] /\ q.name = p.name /\ q.pid = p.pid
  BY Zenon DEF Types
<1> HIDE DEF q
<1>3. Types'
  BY <1>1, <1>2, Zenon DEF Types
<1>4. OneSupervisor' /\ HolderActive' /\ StateFileTrue'
  BY <1>1, Zenon DEF OneSupervisor, HolderActive, StateFileTrue
<1>5. ChildrenOwned'
  BY <1>1, <1>2 DEF ChildrenOwned
<1>6. Places'
  BY <1>1, <1>2 DEF Places, Place, HasExited
<1> QED BY <1>3, <1>4, <1>5, <1>6

LEMMA ExitPreserves == ASSUME IInv, NEW p \in children, Exit(p) PROVE IInv'
<1>1. /\ children' \subseteq children
      /\ holder' = holder /\ sup' = sup /\ state' = state /\ lost' = lost
  BY Zenon DEF Exit
<1> QED BY <1>1, ChildrenEnd

LEMMA NextPreserves == IInv /\ [Next]_vars => IInv'
<1> SUFFICES ASSUME IInv, [Next]_vars PROVE IInv'
  OBVIOUS
<1>1. CASE UNCHANGED vars
  BY <1>1, ChildrenEnd, Zenon DEF vars
<1>2. ASSUME NEW s \in Supervisors, SupervisorStep(s) PROVE IInv'
  BY <1>2, SupMutexPreserves, SupPreparePreserves, SupClearPreserves, SupStartPreserves,
     SupStatePreserves, SupLoopPreserves, SupCheckPreserves, SupRestartPreserves,
     SupRestartedPreserves, SupFinallyPreserves, SupCleanPreserves, SupReleasePreserves, Zenon
     DEF SupervisorStep
<1>3. CASE Next
  BY <1>2, <1>3, KillPreserves, CommandPreserves, BindPreserves, ExitPreserves, Zenon DEF Next
<1> QED BY <1>1, <1>3

-----------------------------------------------------------------------------
(* The types of the commands, the files and the faults.                    *)

Pidmap == [Names -> Pids \cup {NoPid}]

CmdType ==
    [at : {"begin", "ports", "clear", "spawn", "mutex", "health", "recheck",
           "give up", "forget", "request", "done"},
     supervisor : Supervisors \cup {NoOne}]

FileTypes ==
    /\ stop_request \in BOOLEAN /\ lost \in BOOLEAN
    /\ state \in Pidmap
    /\ faults \in 0..MaxFaults

TInv == FileTypes /\ cmd \in [Commands -> CmdType]

LEMMA InitTypes == Init => TInv
<1> SUFFICES ASSUME Init PROVE TInv
  OBVIOUS
<1>1. state \in Pidmap
  BY DEF Init, NoState, Pidmap
<1>2. faults \in 0..MaxFaults
  BY SupervisorAssumption DEF Init
<1>3. cmd \in [Commands -> CmdType]
  <2>1. [at |-> "begin", supervisor |-> NoOne] \in CmdType
    BY DEF CmdType
  <2> QED BY <2>1, Zenon DEF Init
<1> QED BY <1>1, <1>2, <1>3, Zenon DEF Init, TInv, FileTypes

\* A fault is counted within its bound.
LEMMA FaultBound ==
    ASSUME FileTypes, NEW w \in {1, 2}, Fault(w)
    PROVE  faults' \in 0..MaxFaults
BY SupervisorAssumption DEF FileTypes, Fault

\* Every step leaves the state file as it was, removes it, or writes a table of processes.
LEMMA SupervisorTypes ==
    ASSUME IInv, TInv, NEW s \in Supervisors, SupervisorStep(s) \/ Kill(s)
    PROVE  TInv'
<1>1. cmd' = cmd
  BY Zenon DEF SupervisorStep, SupMutex, SupPrepare, SupClear, SupStart, SupState, SupLoop,
     SupCheck, SupRestart, SupRestarted, SupFinally, SupClean, SupRelease, Kill
<1>2. state' \in Pidmap
  <2>1. state' = state \/ state' = NoState \/ state' = sup[s].processes
    <3>1. state' \in {state, NoState} => state' = state \/ state' = NoState
      OBVIOUS
    <3> QED BY <3>1, Zenon DEF SupervisorStep, SupMutex, SupPrepare, SupClear, SupStart, SupState,
            SupLoop, SupCheck, SupRestart, SupRestarted, SupFinally, SupClean, SupRelease, Kill,
            WriteState, WriteStateFails
  <2>2. NoState \in Pidmap
    BY DEF NoState, Pidmap
  <2>3. sup[s].processes \in Pidmap
    BY DEF IInv, Types, SupType, Pidmap
  <2> QED BY <2>1, <2>2, <2>3, Zenon DEF TInv, FileTypes
<1>3. stop_request' \in BOOLEAN /\ lost' \in BOOLEAN
  <2>1. /\ stop_request' = stop_request \/ stop_request' = FALSE
        /\ lost' = lost \/ lost' = TRUE
    BY Zenon DEF SupervisorStep, SupMutex, SupPrepare, SupClear, SupStart, SupState, SupLoop,
       SupCheck, SupRestart, SupRestarted, SupFinally, SupClean, SupRelease, Kill,
       StartComponent
  <2> QED BY <2>1, Zenon DEF TInv, FileTypes
<1>4. faults' \in 0..MaxFaults
  <2>1. faults' = faults \/ Fault(2)
    BY Zenon DEF SupervisorStep, SupMutex, SupPrepare, SupClear, SupStart, SupState, SupLoop,
       SupCheck, SupRestart, SupRestarted, SupFinally, SupClean, SupRelease, Kill,
       StartComponent
  <2> QED BY <2>1, FaultBound DEF TInv, FileTypes
<1> QED BY <1>1, <1>2, <1>3, <1>4, Zenon DEF TInv, FileTypes

\* A command moves to a place of its own and remembers only the supervisor it started.
LEMMA CommandTypes == ASSUME IInv, TInv, NEW c \in Commands, CommandStep(c) PROVE TInv'
<1>1. FileTypes'
  <2>1. /\ faults' = faults /\ lost' = lost
        /\ state' = state \/ state' = NoState
        /\ stop_request' = stop_request \/ stop_request' = TRUE \/ stop_request' = FALSE
    BY Zenon DEF CommandStep, StartTest, StartPorts, StartClear, StartSpawn, StartMutex,
       StartHealth, StartRecheck, StartGiveUp, StopTest, StopForget, StopRequest
  <2>2. NoState \in Pidmap
    BY DEF NoState, Pidmap
  <2> QED BY <2>1, <2>2, Zenon DEF TInv, FileTypes
<1>2. cmd' \in [Commands -> CmdType]
  <2>1. cmd \in [Commands -> CmdType] /\ cmd[c] \in CmdType
    BY Zenon DEF TInv
  <2>2. ASSUME NEW r \in CmdType, cmd' = [cmd EXCEPT ![c] = r] PROVE cmd' \in [Commands -> CmdType]
    BY <2>1, <2>2, Zenon
  <2>3. CASE Returns(c)
    <3>1. [at |-> "done", supervisor |-> NoOne] \in CmdType
      BY DEF CmdType
    <3> QED BY <2>2, <2>3, <3>1, Zenon DEF Returns
  <2>4. CASE StartSpawn(c)
    <3> DEFINE s == CHOOSE t \in Supervisors : sup[t].at = "none"
    <3>1. s \in Supervisors /\ cmd' = [cmd EXCEPT ![c] = [at |-> "mutex", supervisor |-> s]]
      BY <2>4, Zenon DEF StartSpawn
    <3> HIDE DEF s
    <3>2. [at |-> "mutex", supervisor |-> s] \in CmdType
      BY <3>1 DEF CmdType
    <3> QED BY <2>2, <3>1, <3>2, Zenon
  <2>5. ASSUME NEW at \in {"ports", "clear", "spawn", "health", "recheck", "give up", "forget",
                           "request"}, Proceed(c, at)
        PROVE  cmd' \in [Commands -> CmdType]
    <3>1. [cmd[c] EXCEPT !.at = at] \in CmdType
      BY <2>1 DEF CmdType
    <3> QED BY <2>2, <2>5, <3>1, Zenon DEF Proceed
  <2>6. \/ Returns(c) \/ StartSpawn(c)
        \/ Proceed(c, "ports") \/ Proceed(c, "clear") \/ Proceed(c, "spawn")
        \/ Proceed(c, "health") \/ Proceed(c, "recheck") \/ Proceed(c, "give up")
        \/ Proceed(c, "forget") \/ Proceed(c, "request")
    <3>1. StopTest(c) => Proceed(c, "request") \/ Proceed(c, "forget")
      BY DEF StopTest
    <3>2. StartHealth(c) => Returns(c) \/ Proceed(c, "recheck") \/ Proceed(c, "give up")
      BY DEF StartHealth
    <3> QED BY <3>1, <3>2, Zenon DEF CommandStep, StartTest, StartPorts, StartClear, StartMutex,
            StartRecheck, StartGiveUp, StopForget, StopRequest
  <2> QED BY <2>3, <2>4, <2>5, <2>6
<1> QED BY <1>1, <1>2, Zenon DEF TInv

LEMMA NextTypes == IInv /\ TInv /\ [Next]_vars => TInv'
<1> SUFFICES ASSUME IInv, TInv, [Next]_vars PROVE TInv'
  OBVIOUS
<1>1. CASE UNCHANGED vars
  BY <1>1, Zenon DEF vars, TInv, FileTypes
<1>2. ASSUME NEW p \in children, Bind(p) PROVE TInv'
  BY <1>2, Zenon DEF Bind, TInv, FileTypes
<1>3. ASSUME NEW p \in children, Exit(p) PROVE TInv'
  <2>1. /\ Fault(1)
        /\ UNCHANGED <<stop_request, state, cmd, lost>>
    BY <1>3, Zenon DEF Exit
  <2>2. faults' \in 0..MaxFaults
    BY <2>1, FaultBound DEF TInv
  <2> QED BY <2>1, <2>2, Zenon DEF TInv, FileTypes
<1>4. CASE Next
  BY <1>2, <1>3, <1>4, SupervisorTypes, CommandTypes, Zenon DEF Next
<1> QED BY <1>1, <1>4

-----------------------------------------------------------------------------
\* The variables of tracefox.ps1 keep their types for any number of processes and faults;
\* in particular Invoke-Supervisor never restarts a component more often than it allows,
\* and the state file names pids or nothing.
THEOREM TypeCorrect == Spec => []TypeOK
<1>1. IInv /\ TInv => TypeOK
  <2> SUFFICES ASSUME IInv, TInv PROVE TypeOK
    OBVIOUS
  <2>1. holder \in Supervisors \cup {NoOne}
    BY Zenon DEF IInv, HolderActive
  <2>2. sup \in [Supervisors ->
                   [at : {"none", "mutex", "prepare", "clear", "start", "state", "loop", "check",
                          "restart", "restarted", "finally", "clean", "release", "gone"},
                    i : DOMAIN Components,
                    processes : [Names -> Pids \cup {NoPid}],
                    restartCounts : [Names -> 0..MaxRestarts]]]
    <3>1. {"none", "mutex", "gone"} \cup Active
            = {"none", "mutex", "prepare", "clear", "start", "state", "loop", "check",
               "restart", "restarted", "finally", "clean", "release", "gone"}
      BY DEF Active
    <3> QED BY <3>1, Zenon DEF IInv, Types, SupType
  <2> QED BY <2>1, <2>2, Zenon DEF TypeOK, IInv, TInv, FileTypes, Types, Pidmap, CmdType
<1>2. Init => IInv /\ TInv
  BY InitInvariant, InitTypes
<1>3. IInv /\ TInv /\ [Next]_vars => (IInv /\ TInv)'
  BY NextPreserves, NextTypes
<1> QED BY <1>1, <1>2, <1>3, PTL DEF Spec

\* Of any number of supervisors that start at once, one goes on (createdNew), and it
\* alone acts until it has released the mutex.
THEOREM OneSupervisorAtATime == Spec => []OneSupervisor
<1>1. IInv => OneSupervisor
  BY DEF IInv
<1> QED BY <1>1, InitInvariant, NextPreserves, PTL DEF Spec

\* Unless a supervisor is killed or loses a process while starting it, every component
\* that runs belongs to the supervisor that holds the mutex; when there is none, none
\* runs.
THEOREM NoOrphans == Spec => []ChildrenOwned
<1>1. IInv => ChildrenOwned
  BY DEF IInv
<1> QED BY <1>1, InitInvariant, NextPreserves, PTL DEF Spec

\* Write-State keeps the state file true while the supervisor watches, whatever earlier
\* supervisors left behind and whenever stop removes it.
THEOREM StateFileNamesProcesses == Spec => []StateFileTrue
<1>1. IInv => StateFileTrue
  BY DEF IInv
<1> QED BY <1>1, InitInvariant, NextPreserves, PTL DEF Spec
=============================================================================
