----------------------------- MODULE Supervisor ------------------------------
(***************************************************************************)
(* windows/tracefox.ps1: the commands start and stop, the supervisor they  *)
(* start and stop, and the components the supervisor keeps running.        *)
(*                                                                         *)
(* They share the named mutex, which exists as long as a supervisor holds  *)
(* it, the stop request file, the state file and the ports.  Commands and  *)
(* supervisors are processes that interleave between any two accesses to   *)
(* these; a component may exit and a supervisor be killed at any time.  A  *)
(* wait of Wait-ForCondition may time out whenever its condition does not  *)
(* hold.  Opening the mutex to test it is one step with closing it, and a  *)
(* process Stop-Process stops ends within the five seconds it is given.    *)
(***************************************************************************)
EXTENDS Naturals, Sequences, FiniteSets, FiniteSetsExt

CONSTANTS
    Components,     \* the sequence victoriametrics, forwarder, grafana
    Commands,       \* processes that run one command each
    Supervisors,    \* processes that run Invoke-Supervisor
    NoOne,          \* not a process
    Pids,           \* process ids, enough for one to be free
    MaxRestarts,    \* 3, the restarts Invoke-Supervisor tries
    Web,            \* the components whose health is asked over HTTP
    MaxFaults       \* bound: components that exit, supervisors that are lost or lose one

ASSUME SupervisorAssumption ==
    /\ Components \in Seq(STRING) /\ Len(Components) > 0
    /\ \A i, j \in DOMAIN Components : Components[i] = Components[j] => i = j
    /\ NoOne \notin Supervisors \cup Commands
    /\ MaxRestarts \in Nat /\ MaxFaults \in Nat
    /\ Pids \subseteq Nat \ {0}

VARIABLES
    holder,         \* the supervisor that holds the mutex, or NoOne
    stop_request,   \* StopRequestFile exists
    state,          \* StateFile: the pids it names, or NoState
    children,       \* components that run: [name, pid, up], up once the port is bound
    sup,            \* supervisors: where they are and their local variables
    cmd,            \* commands: where they are, and the supervisor a start has started
    faults,         \* faults so far
    lost            \* a supervisor was killed, or lost a process it started

vars == <<holder, stop_request, state, children, sup, cmd, faults, lost>>

Names == {Components[i] : i \in DOMAIN Components}
NoPid == 0
NoState == [n \in Names |-> NoPid]
NotStarted ==
    [at |-> "none", i |-> 1, processes |-> NoState, restartCounts |-> [n \in Names |-> 0]]

Init ==
    /\ holder = NoOne
    /\ stop_request \in BOOLEAN     \* a request may be left from an earlier day
    /\ state = NoState
    /\ children = {}
    /\ sup = [s \in Supervisors |-> NotStarted]
    /\ cmd = [c \in Commands |-> [at |-> "begin", supervisor |-> NoOne]]
    /\ faults = 0 /\ lost = FALSE

\* Test-SupervisorRunning
SupervisorRunning == holder # NoOne

HasExited(pid) == \A p \in children : p.pid # pid

\* Assert-PortsAvailable does not throw.
PortsAvailable == \A p \in children : ~p.up

\* Test-PortableHealth: the processes the state file names run, and someone answers
\* on the ports.
PortableHealth ==
    /\ \A n \in Names : ~HasExited(state[n])
    /\ \A n \in Web : \E p \in children : p.name = n /\ p.up

-----------------------------------------------------------------------------
(* Invoke-Supervisor.                                                      *)

\* A fault within the bound: a component that exits weighs one, a loss two.
Fault(weight) == faults + weight <= MaxFaults /\ faults' = faults + weight

Goto(s, at) == sup' = [sup EXCEPT ![s].at = at]

\* The try block ends; finally uses only the processes.
ToFinally(s) == sup' = [sup EXCEPT ![s] = [NotStarted EXCEPT !.at = "finally",
                                                             !.processes = sup[s].processes]]

\* The process ends, and its variables with it.
Ends(s) == sup' = [sup EXCEPT ![s] = [NotStarted EXCEPT !.at = "gone"]]

\* Mutant: a supervisor that did not create the mutex goes on.
SupMutexShared(s) ==
    /\ sup[s].at = "mutex"
    /\ holder' = s /\ Goto(s, "prepare")
    /\ UNCHANGED <<stop_request, state, children, cmd, faults, lost>>

\* Only the supervisor that creates the mutex goes on.
SupMutex(s) ==
    /\ sup[s].at = "mutex"
    /\ IF SupervisorRunning
         THEN Ends(s) /\ UNCHANGED holder
         ELSE Goto(s, "prepare") /\ holder' = s
    /\ UNCHANGED <<stop_request, state, children, cmd, faults, lost>>

\* Configuration, runtime and ports; any of them may throw, busy ports must.
SupPrepare(s) ==
    /\ sup[s].at = "prepare"
    /\ \/ PortsAvailable /\ Goto(s, "clear")
       \/ ToFinally(s)
    /\ UNCHANGED <<holder, stop_request, state, children, cmd, faults, lost>>

SupClear(s) ==
    /\ sup[s].at = "clear"
    /\ stop_request' = FALSE
    /\ Goto(s, "start")
    /\ UNCHANGED <<holder, state, children, cmd, faults, lost>>

\* The place after the i-th component in a pass over them.
Following(i) == IF i < Len(Components) THEN i + 1 ELSE 1

\* The pids no process has and no variable or file names.
FreePids ==
    {pid \in Pids : /\ HasExited(pid)
                    /\ \A n \in Names : state[n] # pid
                    /\ \A s \in Supervisors, n \in Names : sup[s].processes[n] # pid}

NewPid == CHOOSE pid \in FreePids : TRUE

\* Start-LoggedProcess: the process runs.
Launched(n) ==
    /\ FreePids # {}
    /\ children' = children \cup {[name |-> n, pid |-> NewPid, up |-> FALSE]}

\* Start-Component for the i-th component.  An exception leads to finally: before the
\* process is created, or in the log line after it, when no variable names it yet.
StartComponent(s, next, i) ==
    LET n == Components[sup[s].i]
    IN  \/ /\ Launched(n)
           /\ sup' = [sup EXCEPT ![s].at = next, ![s].i = i, ![s].processes[n] = NewPid]
           /\ UNCHANGED <<faults, lost>>
        \/ /\ ToFinally(s)
           /\ UNCHANGED <<children, faults, lost>>
        \/ /\ Launched(n)
           /\ Fault(2) /\ lost' = TRUE
           /\ ToFinally(s)

\* The components in their order.  After the first the supervisor waits for its health,
\* or 30 seconds, and goes on either way.
SupStart(s) ==
    /\ sup[s].at = "start"
    /\ StartComponent(s, IF sup[s].i < Len(Components) THEN "start" ELSE "state",
                         Following(sup[s].i))
    /\ UNCHANGED <<holder, stop_request, state, cmd>>

\* Write-State: the file is written, ...
WriteState(s) == state' = sup[s].processes

\* ... or an exception leaves it as it was or empty.
WriteStateFails(s) == state' \in {state, NoState} /\ ToFinally(s)

\* Mutant: the stop request is removed only once everything has started.
SupStateClears(s) ==
    /\ sup[s].at = "state"
    /\ (WriteState(s) /\ Goto(s, "loop")) \/ WriteStateFails(s)
    /\ stop_request' = FALSE
    /\ UNCHANGED <<holder, children, cmd, faults, lost>>

SupState(s) ==
    /\ sup[s].at = "state"
    /\ (WriteState(s) /\ Goto(s, "loop")) \/ WriteStateFails(s)
    /\ UNCHANGED <<holder, stop_request, children, cmd, faults, lost>>

\* while (-not (Test-Path StopRequestFile))
SupLoop(s) ==
    /\ sup[s].at = "loop"
    /\ IF stop_request THEN ToFinally(s)
                       ELSE sup' = [sup EXCEPT ![s].at = "check", ![s].i = 1]
    /\ UNCHANGED <<holder, stop_request, state, children, cmd, faults, lost>>

\* Mutant: the foreach leaves out the last component.
AdvanceShort(s) ==
    sup' = [sup EXCEPT ![s].at = IF sup[s].i + 1 < Len(Components) THEN "check" ELSE "loop",
                       ![s].i = IF @ + 1 < Len(Components) THEN @ + 1 ELSE 1]

\* To the next component of the foreach, or back to the loop.
Advance(s) ==
    sup' = [sup EXCEPT ![s].at = IF sup[s].i < Len(Components) THEN "check" ELSE "loop",
                       ![s].i = Following(@)]

\* Mutant: the restarts are counted but not limited.
SupCheckNoLimit(s) ==
    LET n == Components[sup[s].i]
    IN  /\ sup[s].at = "check"
        /\ IF ~HasExited(sup[s].processes[n])
             THEN Advance(s)
             ELSE \E stayed_up \in BOOLEAN :
                    LET count == (IF stayed_up THEN 0 ELSE sup[s].restartCounts[n]) + 1
                    IN  sup' = [sup EXCEPT ![s].restartCounts[n] = count, ![s].at = "restart"]
        /\ UNCHANGED <<holder, stop_request, state, children, cmd, faults, lost>>

\* One component that has exited, after a minute or before, or has not.
SupCheck(s) ==
    LET n == Components[sup[s].i]
    IN  /\ sup[s].at = "check"
        /\ IF ~HasExited(sup[s].processes[n])
             THEN Advance(s)
             ELSE \E stayed_up \in BOOLEAN :
                    LET count == (IF stayed_up THEN 0 ELSE sup[s].restartCounts[n]) + 1
                    IN  IF count > MaxRestarts
                          THEN ToFinally(s)
                          ELSE sup' = [sup EXCEPT ![s].at = "restart",
                                                  ![s].restartCounts[n] = count]
        /\ UNCHANGED <<holder, stop_request, state, children, cmd, faults, lost>>

SupRestart(s) ==
    /\ sup[s].at = "restart"
    /\ StartComponent(s, "restarted", sup[s].i)
    /\ UNCHANGED <<holder, stop_request, state, cmd>>

\* Mutant: the state file keeps the pid of the process that exited.
SupRestartedNoState(s) ==
    /\ sup[s].at = "restarted"
    /\ Advance(s)
    /\ UNCHANGED <<holder, stop_request, state, children, cmd, faults, lost>>

SupRestarted(s) ==
    /\ sup[s].at = "restarted"
    /\ (WriteState(s) /\ Advance(s)) \/ WriteStateFails(s)
    /\ UNCHANGED <<holder, stop_request, children, cmd, faults, lost>>

\* The processes of a supervisor that still run, by their place in the order of starting.
Running(s) == {i \in DOMAIN Components : ~HasExited(sup[s].processes[Components[i]])}

\* Mutant: only one process is stopped.
SupFinallyFirstOnly(s) ==
    /\ sup[s].at = "finally"
    /\ IF Running(s) = {}
         THEN Goto(s, "clean") /\ UNCHANGED children
         ELSE LET last == Max(Running(s))
              IN  /\ children' = {p \in children : p.pid # sup[s].processes[Components[last]]}
                  /\ Goto(s, "clean")
    /\ UNCHANGED <<holder, stop_request, state, cmd, faults, lost>>

\* finally: Stop-ChildProcess for the processes that run, in the reverse order, ...
SupFinally(s) ==
    /\ sup[s].at = "finally"
    /\ IF Running(s) = {}
         THEN Goto(s, "clean") /\ UNCHANGED children
         ELSE LET last == Max(Running(s))
              IN  /\ children' = {p \in children : p.pid # sup[s].processes[Components[last]]}
                  /\ UNCHANGED sup
    /\ UNCHANGED <<holder, stop_request, state, cmd, faults, lost>>

\* ... then the two files, ...
SupClean(s) ==
    /\ sup[s].at = "clean"
    /\ state' = NoState /\ stop_request' = FALSE
    /\ Goto(s, "release")
    /\ UNCHANGED <<holder, children, cmd, faults, lost>>

\* ... then the mutex.
SupRelease(s) ==
    /\ sup[s].at = "release"
    /\ holder' = NoOne
    /\ Ends(s)
    /\ UNCHANGED <<stop_request, state, children, cmd, faults, lost>>

SupervisorStep(s) ==
    \/ SupMutex(s) \/ SupPrepare(s) \/ SupClear(s) \/ SupStart(s)
    \/ SupState(s) \/ SupLoop(s) \/ SupCheck(s) \/ SupRestart(s) \/ SupRestarted(s)
    \/ SupFinally(s) \/ SupClean(s) \/ SupRelease(s)

-----------------------------------------------------------------------------
(* Invoke-Start.                                                           *)

Proceed(c, at) == cmd' = [cmd EXCEPT ![c].at = at]

\* The command ends.
Returns(c) == cmd' = [cmd EXCEPT ![c] = [at |-> "done", supervisor |-> NoOne]]

\* Test-SupervisorRunning; a supervisor that runs is left alone.
StartTest(c) ==
    /\ cmd[c].at = "begin"
    /\ IF SupervisorRunning THEN Returns(c) ELSE Proceed(c, "ports")
    /\ UNCHANGED <<holder, stop_request, state, children, sup, faults, lost>>

\* Ensure-Runtime, Get-TraceFoxConfig and Assert-PortsAvailable may throw.
StartPorts(c) ==
    /\ cmd[c].at = "ports"
    /\ \/ PortsAvailable /\ Proceed(c, "clear")
       \/ Returns(c)
    /\ UNCHANGED <<holder, stop_request, state, children, sup, faults, lost>>

StartClear(c) ==
    /\ cmd[c].at = "clear"
    /\ stop_request' = FALSE
    /\ Proceed(c, "spawn")
    /\ UNCHANGED <<holder, state, children, sup, faults, lost>>

\* Start-Process of this script with the command supervise.
StartSpawn(c) ==
    /\ cmd[c].at = "spawn"
    /\ \E s \in Supervisors : sup[s].at = "none"
    /\ LET s == CHOOSE t \in Supervisors : sup[t].at = "none"
       IN  /\ Goto(s, "mutex")
           /\ cmd' = [cmd EXCEPT ![c] = [at |-> "mutex", supervisor |-> s]]
    /\ UNCHANGED <<holder, stop_request, state, children, faults, lost>>

\* The mutex within 15 seconds, or an exception.
StartMutex(c) ==
    /\ cmd[c].at = "mutex"
    /\ IF SupervisorRunning THEN Proceed(c, "health") ELSE Returns(c)
    /\ UNCHANGED <<holder, stop_request, state, children, sup, faults, lost>>

SupervisorExited(c) == sup[cmd[c].supervisor].at = "gone"

\* Health within 120 seconds, or a stop request; an exception if the supervisor exits.
StartHealth(c) ==
    /\ cmd[c].at = "health"
    /\ \/ SupervisorExited(c) /\ Returns(c)
       \/ ~SupervisorExited(c) /\ Proceed(c, IF PortableHealth THEN "recheck" ELSE "give up")
    /\ UNCHANGED <<holder, stop_request, state, children, sup, faults, lost>>

\* Once more after three seconds.
StartRecheck(c) ==
    /\ cmd[c].at = "recheck"
    /\ IF ~SupervisorExited(c) /\ PortableHealth THEN Returns(c) ELSE Proceed(c, "give up")
    /\ UNCHANGED <<holder, stop_request, state, children, sup, faults, lost>>

StartGiveUp(c) ==
    /\ cmd[c].at = "give up"
    /\ stop_request' = TRUE
    /\ Returns(c)
    /\ UNCHANGED <<holder, state, children, sup, faults, lost>>

-----------------------------------------------------------------------------
(* Invoke-Stop.                                                            *)

StopTest(c) ==
    /\ cmd[c].at = "begin"
    /\ Proceed(c, IF SupervisorRunning THEN "request" ELSE "forget")
    /\ UNCHANGED <<holder, stop_request, state, children, sup, faults, lost>>

\* "TraceFox is already stopped."
StopForget(c) ==
    /\ cmd[c].at = "forget"
    /\ state' = NoState
    /\ Returns(c)
    /\ UNCHANGED <<holder, stop_request, children, sup, faults, lost>>

\* The request; the wait of 20 seconds for the mutex to go changes nothing.
StopRequest(c) ==
    /\ cmd[c].at = "request"
    /\ stop_request' = TRUE
    /\ Returns(c)
    /\ UNCHANGED <<holder, state, children, sup, faults, lost>>

CommandStep(c) ==
    \/ StartTest(c) \/ StartPorts(c) \/ StartClear(c) \/ StartSpawn(c) \/ StartMutex(c)
    \/ StartHealth(c) \/ StartRecheck(c) \/ StartGiveUp(c)
    \/ StopTest(c) \/ StopForget(c) \/ StopRequest(c)

-----------------------------------------------------------------------------
(* The components and the system.                                          *)

\* A component binds its port if no other process has it, ...
Bind(p) ==
    /\ ~p.up
    /\ ~ \E q \in children : q.name = p.name /\ q.up
    /\ children' = (children \ {p}) \cup {[p EXCEPT !.up = TRUE]}
    /\ UNCHANGED <<holder, stop_request, state, sup, cmd, faults, lost>>

\* ... and exits, because another has it or for a reason of its own.
Exit(p) ==
    /\ Fault(1)
    /\ children' = children \ {p}
    /\ UNCHANGED <<holder, stop_request, state, sup, cmd, lost>>

\* The supervisor is ended from outside, or by an exception in its finally block: its
\* mutex goes with it, its processes and files stay.
Kill(s) ==
    /\ Fault(2) /\ lost' = TRUE
    /\ sup[s].at \notin {"none", "gone"}
    /\ Ends(s)
    /\ holder' = IF holder = s THEN NoOne ELSE holder
    /\ UNCHANGED <<stop_request, state, children, cmd>>

Next ==
    \/ \E s \in Supervisors : SupervisorStep(s) \/ Kill(s)
    \/ \E c \in Commands : CommandStep(c)
    \/ \E p \in children : Bind(p) \/ Exit(p)

Spec == Init /\ [][Next]_vars

\* Windows runs the supervisors: as long as one has a step to take, one takes a step.
\* Nothing is assumed of the commands and the components.
FairSpec == Spec /\ WF_vars(\E s \in Supervisors : SupervisorStep(s))

-----------------------------------------------------------------------------
(* Properties.                                                             *)

\* The variables keep their types; no component is restarted more often than
\* Invoke-Supervisor allows.
TypeOK ==
    /\ holder \in Supervisors \cup {NoOne}
    /\ stop_request \in BOOLEAN /\ lost \in BOOLEAN
    /\ state \in [Names -> Pids \cup {NoPid}]
    /\ children \subseteq [name : Names, pid : Pids, up : BOOLEAN]
    /\ sup \in [Supervisors ->
                  [at : {"none", "mutex", "prepare", "clear", "start", "state", "loop", "check",
                         "restart", "restarted", "finally", "clean", "release", "gone"},
                   i : DOMAIN Components,
                   processes : [Names -> Pids \cup {NoPid}],
                   restartCounts : [Names -> 0..MaxRestarts]]]
    /\ cmd \in [Commands ->
                  [at : {"begin", "ports", "clear", "spawn", "mutex", "health", "recheck",
                         "give up", "forget", "request", "done"},
                   supervisor : Supervisors \cup {NoOne}]]
    /\ faults \in 0..MaxFaults

\* However many start commands overlap, at most one supervisor is between creating the
\* mutex and releasing it, and it is the one that holds it (Invoke-Supervisor's
\* createdNew test).
OneSupervisor ==
    \A s \in Supervisors : sup[s].at \notin {"none", "mutex", "gone"} => holder = s

\* Unless a supervisor was killed or lost a process it had started, every component
\* that runs is the one its supervisor has in its table: restarts leave no second copy,
\* and once the mutex is gone, which is what start, stop and status ask, nothing runs.
ChildrenOwned ==
    ~lost => \A p \in children : holder # NoOne /\ p.pid = sup[holder].processes[p.name]

\* While a supervisor watches its components, the state file names exactly the
\* processes it watches, unless a stop command has removed the file: no pid of a
\* process that was replaced, and none of an earlier supervisor that was killed.
StateFileTrue ==
    \A s \in Supervisors :
        sup[s].at \in {"loop", "check", "restart"} => state \in {NoState, sup[s].processes}

\* The supervisor that holds the mutex is at one of these places.
HolderAt(places) == holder # NoOne /\ sup[holder].at \in places

\* A component that has exited while the supervisor watches is started again, or the
\* supervisor gives up and exits; it never goes on with a component missing.
CrashHandled ==
    \A n \in Names :
        (HolderAt({"loop", "check"}) /\ HasExited(sup[holder].processes[n]))
            ~> (holder = NoOne \/ ~HasExited(sup[holder].processes[n]))

\* A stop request made after the supervisor removed the old one ends the supervisor,
\* at whatever point of starting, watching or restarting it is: unless a start command
\* that tested for a supervisor before there was one is about to remove the request.
StopHonoured ==
    (/\ stop_request
     /\ HolderAt({"start", "state", "loop", "check", "restart", "restarted"})
     /\ \A c \in Commands : cmd[c].at \notin {"ports", "clear"})
        ~> holder = NoOne

=============================================================================
