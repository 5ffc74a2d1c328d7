----------------------------- MODULE ProcHistory -----------------------------
(***************************************************************************)
(* src/agent/src/proc.c: the watched processes and the table of their CPU  *)
(* ticks (tracker_scan_proc, history_gc, find_slot, and the loop of        *)
(* proc_collect that counts instances).                                    *)
(*                                                                         *)
(* One watch group, whose list is in the order of /proc, by pid.  The      *)
(* kernel starts and ends processes at any time, and may give out a pid    *)
(* again before the tracker has noticed that its last owner is gone.       *)
(***************************************************************************)
EXTENDS Naturals, FiniteSets, FiniteSetsExt

CONSTANTS
    Pids,          \* numbers of the processes that match the watched prefix
    PidHash,       \* PID_HASH
    ProcTrack,     \* TF_PROC_TRACK
    MaxProcTicks,  \* bound: ticks a process consumes
    MaxReuses      \* bound: pids given out again while the tracker lists the last owner

PidSlots == 0..(ProcTrack - 1)

ASSUME ProcHistoryAssumption ==
    /\ Pids \subseteq Nat \ {0} /\ IsFiniteSet(Pids)
    /\ ProcTrack \in Nat \ {0} /\ PidHash \in [Pids -> PidSlots]
    /\ MaxProcTicks \in Nat /\ MaxReuses \in Nat

VARIABLES
    running, cpu_ticks,  \* the kernel's processes
    reuses,              \* pids given out again early
    list, history,       \* ctx->watch_groups[0].list, ctx->history
    stage, pending,      \* "idle" or "scan", and the pids the loop has still to visit
    counted,             \* the instances in inst_count
    last_ticks,          \* history: the ticks last read of every listed process, 0 for none
    difference,          \* history: the last difference taken
    shared               \* history: a process was given another one's slot

processes == <<running, cpu_ticks, reuses>>
proc_vars == <<processes, list, history, stage, pending, counted, last_ticks, difference, shared>>

FreeEntry == [pid |-> 0, ticks |-> 0]
NoDifference == [pid |-> 0, owner |-> 0, previous |-> 0, known |-> 0]

ProcHistoryInit ==
    /\ running = {} /\ cpu_ticks = [p \in Pids |-> 0] /\ reuses = 0
    /\ list = {} /\ history = [i \in PidSlots |-> FreeEntry]
    /\ stage = "idle" /\ pending = {} /\ counted = {}
    /\ last_ticks = [p \in Pids |-> 0] /\ difference = NoDifference /\ shared = FALSE

-----------------------------------------------------------------------------
(* The kernel.                                                             *)

StartProcess(p) ==
    /\ p \notin running
    /\ p \in list => reuses < MaxReuses
    /\ reuses' = IF p \in list THEN reuses + 1 ELSE reuses
    /\ running' = running \cup {p}
    /\ UNCHANGED cpu_ticks

RunProcess(p) ==
    /\ p \in running
    /\ cpu_ticks[p] < MaxProcTicks
    /\ cpu_ticks' = [cpu_ticks EXCEPT ![p] = @ + 1]
    /\ UNCHANGED <<running, reuses>>

EndProcess(p) ==
    /\ p \in running
    /\ running' = running \ {p}
    /\ cpu_ticks' = [cpu_ticks EXCEPT ![p] = 0]
    /\ UNCHANGED reuses

ProcKernel ==
    /\ \E p \in Pids : StartProcess(p) \/ RunProcess(p) \/ EndProcess(p)
    /\ UNCHANGED <<list, history, stage, pending, counted, last_ticks, difference, shared>>

-----------------------------------------------------------------------------
(* The table.                                                              *)

Mine(p, i) == history[i].pid \in {0, p}

\* find_slot: the hashed slot if it is the process's own or free, else the first
\* such slot of the table, else the hashed slot, whoever owns it.
FindSlot(p) ==
    IF Mine(p, PidHash[p]) THEN PidHash[p]
    ELSE IF \E i \in PidSlots : Mine(p, i) THEN Min({i \in PidSlots : Mine(p, i)})
    ELSE PidHash[p]

\* Mutant: the reading is stored in a slot that has none, and kept there.
StoreTicksOnce(i, p) ==
    [pid |-> IF history[i].pid = 0 THEN p ELSE history[i].pid,
     ticks |-> IF history[i].pid = 0 THEN cpu_ticks[p] ELSE history[i].ticks]

\* What the loop leaves in the slot find_slot gave it: only a free slot changes
\* hands.
StoreTicks(i, p) ==
    [pid |-> IF history[i].pid = 0 THEN p ELSE history[i].pid, ticks |-> cpu_ticks[p]]

history_gc(i, live) == IF history[i].pid \in live THEN history[i] ELSE FreeEntry

-----------------------------------------------------------------------------
(* proc_collect                                                            *)

\* tracker_add_pid for one process after the other: the list has room for the
\* first ProcTrack of them.
ListedPids == {p \in running : Cardinality({q \in running : q < p}) < ProcTrack}

\* tracker_scan_proc, when it is time for it and /proc can be opened.
tracker_scan_proc ==
    /\ list' = ListedPids
    /\ history' = [i \in PidSlots |-> history_gc(i, ListedPids)]
    /\ last_ticks' = [p \in Pids |-> IF p \in ListedPids THEN last_ticks[p] ELSE 0]

begin_pids ==
    /\ stage = "idle"
    /\ tracker_scan_proc \/ UNCHANGED <<list, history, last_ticks>>
    /\ stage' = "scan" /\ pending' = list'
    /\ UNCHANGED <<processes, counted, difference, shared>>

\* One turn of the loop: a process that is gone, or has not used a tick, is
\* skipped; one without an earlier reading is remembered and not counted.
collect_pid ==
    /\ stage = "scan" /\ pending # {}
    /\ LET p == Min(pending)
           i == FindSlot(p)
           previous == IF history[i].pid = 0 THEN 0 ELSE history[i].ticks
       IN  /\ pending' = pending \ {p}
           /\ IF p \notin running \/ cpu_ticks[p] = 0
                THEN UNCHANGED <<history, counted, last_ticks, difference, shared>>
                ELSE /\ history' = [history EXCEPT ![i] = StoreTicks(i, p)]
                     /\ counted' = IF previous = 0 \/ cpu_ticks[p] < previous
                                     THEN counted ELSE counted \cup {p}
                     /\ last_ticks' = [last_ticks EXCEPT ![p] = cpu_ticks[p]]
                     /\ difference' = [pid |-> p, owner |-> history[i].pid,
                                     previous |-> previous, known |-> last_ticks[p]]
                     /\ shared' = (shared \/ history[i].pid \notin {0, p})
    /\ UNCHANGED <<processes, list, stage>>

\* The count goes into the payload.
end_pids ==
    /\ stage = "scan" /\ pending = {}
    /\ stage' = "idle" /\ counted' = {} /\ difference' = NoDifference
    /\ UNCHANGED <<processes, list, history, pending, last_ticks, shared>>

ProcHistoryNext == ProcKernel \/ begin_pids \/ collect_pid \/ end_pids

ProcHistorySpec == ProcHistoryInit /\ [][ProcHistoryNext]_proc_vars

-----------------------------------------------------------------------------
(* Properties.                                                             *)

\* Every variable has its type, and the table holds listed processes only:
\* nothing of a process outlives the scan that misses it.
ProcTypeOK ==
    /\ running \subseteq Pids /\ cpu_ticks \in [Pids -> 0..MaxProcTicks] /\ reuses \in 0..MaxReuses
    /\ list \subseteq Pids
    /\ history \in [PidSlots -> [pid : Pids \cup {0}, ticks : 0..MaxProcTicks]]
    /\ \A i \in PidSlots : history[i].pid \in list \cup {0}
    /\ stage \in {"idle", "scan"} /\ pending \subseteq list /\ counted \subseteq list
    /\ last_ticks \in [Pids -> 0..MaxProcTicks]
    /\ difference \in [pid : Pids \cup {0}, owner : Pids \cup {0},
                     previous : 0..MaxProcTicks, known : 0..MaxProcTicks]
    /\ shared \in BOOLEAN

\* A process may come to own several slots, with ticks of different ages, when
\* garbage collection frees one that find_slot tries earlier.  It is the newest
\* of them that find_slot returns: until two processes share a slot, a
\* difference is taken from the last reading, or not at all.
MeasuredFromLastReading ==
    ~shared /\ difference.previous # 0 => difference.previous = difference.known

\* proc.c:106, "linear probing (avoids conflicts)": as long as the table has a
\* slot for every listed process no process is given another one's.
ProbingAvoidsConflicts ==
    Cardinality(list) <= ProcTrack => difference.owner \in {0, difference.pid}
=============================================================================
