---------------------------- MODULE ThreadHistory ----------------------------
(***************************************************************************)
(* src/agent/src/proc.c: the table that remembers the CPU ticks of every   *)
(* thread from one collection to the next (find_thread_slot,               *)
(* thread_history_gc, and the part of collect_thread_group and             *)
(* proc_collect that uses them).                                           *)
(*                                                                         *)
(* A thread is its (pid, tid) pair, named by a number; 0 marks a free slot,*)
(* as in the code.  The kernel may start and end threads, and reuse their  *)
(* numbers, at any time, in the middle of a collection too.                *)
(***************************************************************************)
EXTENDS Naturals, Integers, FiniteSets

CONSTANTS
    Threads,     \* (pid, tid) pairs
    Hash,        \* THREAD_HASH
    Track,       \* TF_THREAD_TRACK
    GenMod,      \* 2^32: thread_generation is a uint32_t
    MaxStart,    \* bound: incarnations of a thread number
    MaxTicks     \* bound: ticks a thread consumes

Slots == 0..(Track - 1)

ASSUME ConstantsAssumption ==
    /\ Threads \subseteq Nat \ {0}
    /\ Track \in Nat \ {0} /\ Hash \in [Threads -> Slots]
    /\ GenMod \in Nat \ {0, 1}
    /\ MaxStart \in Nat /\ MaxTicks \in Nat

VARIABLES
    alive, starttime, ticks,   \* the kernel's threads
    thread_history, thread_generation,
    phase, todo,               \* "idle" or "scan", and the threads still to be read
    cur, prev,                 \* history: what this and the last collection read
    measured                   \* history: the last reading, with the slot's ticks

kernel == <<alive, starttime, ticks>>
history_vars == <<kernel, thread_history, thread_generation, phase, todo, cur, prev, measured>>

FreeSlot == [tid |-> 0, starttime |-> 0, ticks |-> 0, generation |-> 0]
Unread == [starttime |-> 0, ticks |-> 0]
Nothing == [tid |-> 0, starttime |-> 0, previous |-> 0]

HistoryInit ==
    /\ alive = {}
    /\ starttime = [t \in Threads |-> 0] /\ ticks = [t \in Threads |-> 0]
    /\ thread_history = [i \in Slots |-> FreeSlot] /\ thread_generation = 0
    /\ phase = "idle" /\ todo = {}
    /\ cur = [t \in Threads |-> Unread] /\ prev = [t \in Threads |-> Unread]
    /\ measured = Nothing

-----------------------------------------------------------------------------
(* The kernel.                                                             *)

StartThread(t) ==
    /\ t \notin alive
    /\ starttime[t] < MaxStart
    /\ alive' = alive \cup {t}
    /\ starttime' = [starttime EXCEPT ![t] = @ + 1]
    /\ UNCHANGED ticks

RunThread(t) ==
    /\ t \in alive
    /\ ticks[t] < MaxTicks
    /\ ticks' = [ticks EXCEPT ![t] = @ + 1]
    /\ UNCHANGED <<alive, starttime>>

EndThread(t) ==
    /\ t \in alive
    /\ alive' = alive \ {t}
    /\ ticks' = [ticks EXCEPT ![t] = 0]
    /\ UNCHANGED starttime

Kernel ==
    /\ \E t \in Threads : StartThread(t) \/ RunThread(t) \/ EndThread(t)
    /\ UNCHANGED <<thread_history, thread_generation, phase, todo, cur, prev, measured>>

-----------------------------------------------------------------------------
(* The table.                                                              *)

Probe(t, p) == (Hash[t] + p) % Track

\* The probe loop stops at the thread's own slot or at a free one.
Stops(t, p) == thread_history[Probe(t, p)].tid \in {0, t}

FirstStop(t, p) == Stops(t, p) /\ \A r \in 0..(p - 1) : ~Stops(t, r)

\* Mutant: keeps the ticks of an earlier thread with the same number.
PreviousTicksAnyStart(t, i) ==
    IF thread_history[i].tid = t THEN thread_history[i].ticks ELSE 0

\* slot->ticks as find_thread_slot leaves it: 0 for a new slot, and for one that
\* an earlier thread with the same number has used.
PreviousTicks(t, i) ==
    IF thread_history[i].tid = t /\ thread_history[i].starttime = starttime[t]
      THEN thread_history[i].ticks ELSE 0

\* Mutant: keeps what the last collection read and this one did not.
thread_history_gcKeeps(i) ==
    IF thread_history[i].generation + 1 < thread_generation THEN FreeSlot ELSE thread_history[i]

thread_history_gc(i) ==
    IF thread_history[i].tid # 0 /\ thread_history[i].generation # thread_generation
      THEN FreeSlot ELSE thread_history[i]

-----------------------------------------------------------------------------
(* proc_collect                                                            *)

NextGeneration == (thread_generation + 1) % GenMod

\* A new generation; when the counter wraps the table is forgotten.  What is read
\* is any part of what is alive: a directory may not open, and a scan stops at
\* its limit.
begin_collect ==
    /\ phase = "idle"
    /\ IF NextGeneration = 0
         THEN thread_generation' = 1 /\ thread_history' = [i \in Slots |-> FreeSlot]
         ELSE thread_generation' = NextGeneration /\ UNCHANGED thread_history
    /\ phase' = "scan"
    /\ todo' \in SUBSET alive
    /\ UNCHANGED <<kernel, cur, prev, measured>>

\* collect_thread_group, for one entry of a task directory.  The stat file of a
\* thread that has ended cannot be read.
thread_gone(t) == t \notin alive /\ UNCHANGED <<thread_history, cur, measured>>

thread_found(t, i) ==
    /\ t \in alive
    /\ measured' = [tid |-> t, starttime |-> starttime[t], previous |-> PreviousTicks(t, i)]
    /\ thread_history' = [thread_history EXCEPT ![i] =
           [tid |-> t, starttime |-> starttime[t], ticks |-> ticks[t],
            generation |-> thread_generation]]
    /\ cur' = [cur EXCEPT ![t] = [starttime |-> starttime[t], ticks |-> ticks[t]]]

\* find_thread_slot has returned NULL; the group is flagged as truncated.
thread_no_slot(t) ==
    /\ t \in alive
    /\ \A p \in Slots : ~Stops(t, p)
    /\ measured' = [tid |-> t, starttime |-> starttime[t], previous |-> 0]
    /\ UNCHANGED <<thread_history, cur>>

collect_thread(t) ==
    /\ phase = "scan" /\ t \in todo
    /\ \/ thread_gone(t)
       \/ \E p \in Slots : FirstStop(t, p) /\ thread_found(t, Probe(t, p))
       \/ thread_no_slot(t)
    /\ todo' = todo \ {t}
    /\ UNCHANGED <<kernel, thread_generation, phase, prev>>

end_collect ==
    /\ phase = "scan" /\ todo = {}
    /\ thread_history' = [i \in Slots |-> thread_history_gc(i)]
    /\ phase' = "idle"
    /\ prev' = cur
    /\ cur' = [t \in Threads |-> Unread]
    /\ measured' = Nothing
    /\ UNCHANGED <<kernel, thread_generation, todo>>

HistoryNext == Kernel \/ begin_collect \/ (\E t \in Threads : collect_thread(t)) \/ end_collect

HistorySpec == HistoryInit /\ [][HistoryNext]_history_vars

-----------------------------------------------------------------------------
(* Properties.                                                             *)

Reading == [starttime : 0..MaxStart, ticks : 0..MaxTicks]

\* Every variable has its type: the generation keeps the width of its counter.
TypeOK ==
    /\ alive \subseteq Threads
    /\ starttime \in [Threads -> 0..MaxStart] /\ ticks \in [Threads -> 0..MaxTicks]
    /\ thread_history \in
          [Slots -> [tid : Threads \cup {0}, starttime : 0..MaxStart,
                     ticks : 0..MaxTicks, generation : 0..(GenMod - 1)]]
    /\ thread_generation \in 0..(GenMod - 1)
    /\ phase \in {"idle", "scan"} /\ todo \subseteq Threads
    /\ cur \in [Threads -> Reading] /\ prev \in [Threads -> Reading]
    /\ measured \in [tid : Threads \cup {0}, starttime : 0..MaxStart, previous : 0..MaxTicks]

\* CPU time is charged to the thread that used it: a difference is only ever
\* taken from what the last collection read of the same incarnation of the same
\* thread, whatever collided, ended, was reused or was collected as garbage.
ChargedToItself ==
    measured.previous # 0 =>
        prev[measured.tid] = [starttime |-> measured.starttime, ticks |-> measured.previous]

\* Between collections the table holds what the last collection read: one slot
\* for every thread that was given one, and nothing of threads that were not
\* read.
TableIsLastReading ==
    phase = "idle" =>
        /\ \A i \in Slots : thread_history[i].tid # 0 =>
               LET s == thread_history[i]
               IN  prev[s.tid] = [starttime |-> s.starttime, ticks |-> s.ticks]
        /\ \A i, j \in Slots : i # j /\ thread_history[i].tid # 0 =>
               thread_history[i].tid # thread_history[j].tid

\* README: tracefox_thread_cpu_pct is the thread's CPU usage.  A thread that the
\* last collection has read, with ticks on its clock, is measured against that.
KnownThreadsMeasured ==
    measured.tid # 0 /\ prev[measured.tid].starttime = measured.starttime =>
        measured.previous = prev[measured.tid].ticks
=============================================================================
