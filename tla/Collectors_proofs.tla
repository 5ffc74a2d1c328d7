-------------------------- MODULE Collectors_proofs --------------------------
(***************************************************************************)
(* What main pushes, for every content of /proc, any number of samples and *)
(* failed reads, and every configuration: no payload of an earlier sample; *)
(* processes charged against the interval they ran in; CPU shares that add *)
(* up; every disk reported, with the rate of the interval it was counted   *)
(* in.  The threads are in Threads_proofs.  The table of the processes is  *)
(* a specification of its own, ProcHistory, and comes first.               *)
(*                                                                         *)
(* Two invariants follow the collectors in the order main calls them.  The *)
(* shares follow from sums of rounded quotients, and the disks from an     *)
(* invariant of the cache that every turn of the loop over /proc/diskstats *)
(* keeps.                                                                  *)
(***************************************************************************)
EXTENDS Collectors, ProcHistory, Sums_proofs

-----------------------------------------------------------------------------
(* ProcHistory: a process is measured from its own last reading.           *)
(*                                                                         *)
(* A process may own several slots.  find_slot tries the hashed slot, then *)
(* the others from 0 on, and returns one that is free or the process's own;*)
(* so a reading always goes to a slot no later, in this order, than any the*)
(* process owns.  The invariant is that the first slot a process owns has  *)
(* its last reading, and it is inductive because garbage collection frees  *)
(* all slots of a process or none.                                         *)

\* Slot i is tried no later than slot j when p is looked up.
Before(p, i, j) == i = PidHash[p] \/ (j # PidHash[p] /\ i <= j)

\* i is the first slot p owns in the order of the search.
FirstOwned(p, i) ==
    /\ history[i].pid = p
    /\ \A j \in PidSlots : history[j].pid = p => Before(p, i, j)

FirstIsNewest ==
    ~shared => \A p \in Pids, i \in PidSlots : FirstOwned(p, i) => history[i].ticks = last_ticks[p]

Idle == stage = "idle" => pending = {} /\ counted = {} /\ difference = NoDifference

HistoryInv == ProcTypeOK /\ Idle /\ FirstIsNewest /\ MeasuredFromLastReading

-----------------------------------------------------------------------------
\* Zenon proves the leaves below that do not name SMT.
USE Zenon

\* A set of naturals that is not empty has a least element, and Min is it.
LEMMA MinIsLeast ==
    ASSUME NEW S \in SUBSET Nat, S # {}
    PROVE  Min(S) \in S /\ \A x \in S : Min(S) <= x
<1>1. PICK x \in S : \A y \in S : x <= y
  BY LeastNatural
<1> QED
  BY <1>1 DEF Min

\* find_slot returns a slot that is free or the process's own if there is one, and
\* then one that it tries no later than any such slot.
LEMMA FindSlotFirst ==
    ASSUME ProcTypeOK, NEW p \in Pids
    PROVE  /\ FindSlot(p) \in PidSlots
           /\ Mine(p, FindSlot(p)) =>
                \A j \in PidSlots : Mine(p, j) => Before(p, FindSlot(p), j)
<1> DEFINE M == {i \in PidSlots : Mine(p, i)}
<1>1. PidHash[p] \in PidSlots
  BY ProcHistoryAssumption
<1>2. M \in SUBSET Nat
  BY ProcHistoryAssumption, SMT DEF PidSlots
<1>3. CASE Mine(p, PidHash[p])
  BY <1>1, <1>3 DEF FindSlot, Before
<1>4. CASE ~Mine(p, PidHash[p]) /\ M # {}
  <2>1. Min(M) \in M /\ \A j \in M : Min(M) <= j
    <3> HIDE DEF M
    <3> QED BY <1>2, <1>4, MinIsLeast
  <2>2. FindSlot(p) = Min(M)
    BY <1>4 DEF FindSlot
  <2>3. \A j \in PidSlots : Mine(p, j) => j # PidHash[p]
    BY <1>4
  <2> HIDE DEF M
  <2>4. \A j \in PidSlots : Mine(p, j) => j \in M
    BY DEF M
  <2>5. Min(M) \in PidSlots
    BY <2>1 DEF M
  <2> QED BY <2>1, <2>2, <2>3, <2>4, <2>5 DEF Before
<1>5. CASE ~Mine(p, PidHash[p]) /\ M = {}
  BY <1>1, <1>5 DEF FindSlot
<1> QED BY <1>3, <1>4, <1>5

-----------------------------------------------------------------------------
LEMMA InitInvariant == ProcHistoryInit => HistoryInv
<1> SUFFICES ASSUME ProcHistoryInit PROVE HistoryInv
  OBVIOUS
<1>1. ProcTypeOK
  <2>1. cpu_ticks \in [Pids -> 0..MaxProcTicks] /\ last_ticks \in [Pids -> 0..MaxProcTicks] /\ reuses \in 0..MaxReuses
    BY ProcHistoryAssumption, SMT DEF ProcHistoryInit
  <2>2. history \in [PidSlots -> [pid : Pids \cup {0}, ticks : 0..MaxProcTicks]]
    BY ProcHistoryAssumption, SMT DEF ProcHistoryInit, FreeEntry
  <2>3. \A i \in PidSlots : history[i].pid \in list \cup {0}
    BY DEF ProcHistoryInit, FreeEntry
  <2>4. difference \in [pid : Pids \cup {0}, owner : Pids \cup {0},
                     previous : 0..MaxProcTicks, known : 0..MaxProcTicks]
    BY ProcHistoryAssumption, SMT DEF ProcHistoryInit, NoDifference
  <2>5. shared \in BOOLEAN /\ stage \in {"idle", "scan"}
        /\ running \subseteq Pids /\ list \subseteq Pids /\ pending \subseteq list /\ counted \subseteq list
    BY DEF ProcHistoryInit
  <2> QED BY <2>1, <2>2, <2>3, <2>4, <2>5 DEF ProcTypeOK
<1>2. FirstIsNewest
  BY ProcHistoryAssumption DEF ProcHistoryInit, FirstIsNewest, FirstOwned, FreeEntry
<1>3. Idle /\ MeasuredFromLastReading
  BY DEF ProcHistoryInit, Idle, MeasuredFromLastReading, NoDifference
<1> QED BY <1>1, <1>2, <1>3 DEF HistoryInv

\* The kernel touches nothing of the agent.
LEMMA KernelPreserves == HistoryInv /\ ProcKernel => HistoryInv'
<1> SUFFICES ASSUME HistoryInv, ProcKernel PROVE HistoryInv'
  OBVIOUS
<1> USE DEF HistoryInv
<1>1. ProcTypeOK'
  <2>1. running' \subseteq Pids /\ cpu_ticks' \in [Pids -> 0..MaxProcTicks] /\ reuses' \in 0..MaxReuses
    <3>1. running \subseteq Pids /\ cpu_ticks \in [Pids -> 0..MaxProcTicks] /\ reuses \in 0..MaxReuses
      BY DEF ProcTypeOK
    <3>2. PICK p \in Pids : StartProcess(p) \/ RunProcess(p) \/ EndProcess(p)
      BY DEF ProcKernel
    <3>3. CASE StartProcess(p)
      BY <3>1, <3>3, ProcHistoryAssumption, SMT DEF StartProcess
    <3>4. CASE RunProcess(p)
      BY <3>1, <3>4, ProcHistoryAssumption, SMT DEF RunProcess
    <3>5. CASE EndProcess(p)
      BY <3>1, <3>5, ProcHistoryAssumption, SMT DEF EndProcess
    <3> QED BY <3>2, <3>3, <3>4, <3>5
  <2> QED BY <2>1 DEF ProcTypeOK, ProcKernel
<1>2. FirstIsNewest'
  BY DEF FirstIsNewest, FirstOwned, ProcKernel
<1>3. Idle' /\ MeasuredFromLastReading'
  BY DEF Idle, MeasuredFromLastReading, ProcKernel
<1> QED BY <1>1, <1>2, <1>3

\* The start of a collection, with or without a scan of /proc.
LEMMA BeginPreserves == HistoryInv /\ begin_pids => HistoryInv'
<1> SUFFICES ASSUME HistoryInv, begin_pids PROVE HistoryInv'
  OBVIOUS
<1> USE DEF HistoryInv
<1>1. CASE tracker_scan_proc
  <2>1. list' = ListedPids /\ pending' = ListedPids /\ stage' = "scan" /\ counted' = {}
        /\ difference' = NoDifference /\ shared' = shared /\ processes' = processes
    BY <1>1 DEF begin_pids, tracker_scan_proc, Idle
  <2>2. \A i \in PidSlots : history'[i] = IF history[i].pid \in ListedPids THEN history[i] ELSE FreeEntry
    BY <1>1 DEF tracker_scan_proc, history_gc
  <2>3. \A p \in Pids : last_ticks'[p] = IF p \in ListedPids THEN last_ticks[p] ELSE 0
    BY <1>1 DEF tracker_scan_proc
  <2>4. ProcTypeOK'
    <3>1. history' \in [PidSlots -> [pid : Pids \cup {0}, ticks : 0..MaxProcTicks]]
      BY <1>1, ProcHistoryAssumption, SMT DEF tracker_scan_proc, history_gc, ProcTypeOK, FreeEntry
    <3>2. \A i \in PidSlots : history'[i].pid \in list' \cup {0}
      BY <2>1, <2>2, SMT DEF FreeEntry
    <3>3. last_ticks' \in [Pids -> 0..MaxProcTicks]
      BY <1>1, ProcHistoryAssumption, SMT DEF tracker_scan_proc, ProcTypeOK
    <3>4. difference' = difference /\ counted' = counted
      BY DEF begin_pids
    <3>5. ListedPids \subseteq Pids
      BY DEF ListedPids, ProcTypeOK
    <3> QED BY <2>1, <3>1, <3>2, <3>3, <3>4, <3>5 DEF ProcTypeOK, processes
  <2>5. FirstIsNewest'
    <3> SUFFICES ASSUME ~shared, NEW p \in Pids, NEW i \in PidSlots, FirstOwned(p, i)'
                 PROVE  history'[i].ticks = last_ticks'[p]
      BY <2>1 DEF FirstIsNewest
    <3>1. p # 0
      BY ProcHistoryAssumption
    <3>2. history'[i].pid = p
      BY DEF FirstOwned
    <3>3. history[i].pid \in ListedPids /\ history'[i] = history[i]
      BY <2>2, <3>1, <3>2, SMT DEF FreeEntry
    <3>4. p \in ListedPids
      BY <3>2, <3>3
    <3>5. \A j \in PidSlots : history[j].pid = p => history'[j].pid = p
      BY <2>2, <3>4
    <3>6. FirstOwned(p, i)
      BY <3>2, <3>3, <3>5 DEF FirstOwned, Before
    <3>7. history[i].ticks = last_ticks[p]
      BY <3>6 DEF FirstIsNewest
    <3> QED BY <2>3, <3>3, <3>4, <3>7
  <2>6. Idle' /\ MeasuredFromLastReading'
    BY <2>1 DEF Idle, MeasuredFromLastReading, NoDifference
  <2> QED BY <2>4, <2>5, <2>6
<1>2. CASE UNCHANGED <<list, history, last_ticks>>
  <2>1. list' = list /\ history' = history /\ last_ticks' = last_ticks /\ pending' = list
        /\ stage' = "scan" /\ counted' = counted /\ difference' = difference /\ shared' = shared
        /\ running' = running /\ cpu_ticks' = cpu_ticks /\ reuses' = reuses
    BY <1>2 DEF begin_pids, processes
  <2>2. ProcTypeOK'
    BY <2>1 DEF ProcTypeOK
  <2>3. FirstIsNewest' /\ MeasuredFromLastReading'
    BY <2>1 DEF FirstIsNewest, FirstOwned, MeasuredFromLastReading
  <2>4. Idle'
    BY <2>1 DEF Idle
  <2> QED BY <2>2, <2>3, <2>4
<1> QED BY <1>1, <1>2 DEF begin_pids

\* One turn of the loop: the reading goes to the slot that find_slot returned.
LEMMA CollectPreserves == HistoryInv /\ collect_pid => HistoryInv'
<1> SUFFICES ASSUME HistoryInv, collect_pid PROVE HistoryInv'
  OBVIOUS
<1> USE DEF HistoryInv
<1> DEFINE p == Min(pending)
           i == FindSlot(p)
           previous == IF history[i].pid = 0 THEN 0 ELSE history[i].ticks
<1>1. p \in pending
  <2>1. pending \in SUBSET Nat /\ pending # {}
    BY ProcHistoryAssumption DEF ProcTypeOK, collect_pid
  <2> QED BY <2>1, MinIsLeast
<1> HIDE DEF p
<1>2. p \in Pids /\ p \in list /\ p # 0
  BY <1>1, ProcHistoryAssumption DEF ProcTypeOK
<1>3. /\ i \in PidSlots
      /\ Mine(p, i) => \A j \in PidSlots : Mine(p, j) => Before(p, i, j)
  BY <1>2, FindSlotFirst
<1> HIDE DEF i
<1>4. /\ pending' = pending \ {p} /\ stage = "scan" /\ stage' = stage /\ list' = list
      /\ running' = running /\ cpu_ticks' = cpu_ticks /\ reuses' = reuses
  BY DEF collect_pid, processes, p, i
<1>5. CASE p \notin running \/ cpu_ticks[p] = 0
  <2>1. history' = history /\ counted' = counted /\ last_ticks' = last_ticks /\ difference' = difference
        /\ shared' = shared
    BY <1>5 DEF collect_pid, p, i
  <2>2. ProcTypeOK'
    BY <1>4, <2>1 DEF ProcTypeOK
  <2>3. FirstIsNewest' /\ MeasuredFromLastReading'
    BY <2>1 DEF FirstIsNewest, FirstOwned, MeasuredFromLastReading
  <2>4. Idle'
    BY <1>4 DEF Idle
  <2> QED BY <2>2, <2>3, <2>4
<1>6. CASE ~(p \notin running \/ cpu_ticks[p] = 0)
  <2>1. /\ history' = [history EXCEPT ![i] = StoreTicks(i, p)]
        /\ counted' = IF previous = 0 \/ cpu_ticks[p] < previous THEN counted ELSE counted \cup {p}
        /\ last_ticks' = [last_ticks EXCEPT ![p] = cpu_ticks[p]]
        /\ difference' = [pid |-> p, owner |-> history[i].pid, previous |-> previous,
                        known |-> last_ticks[p]]
        /\ shared' = (shared \/ history[i].pid \notin {0, p})
    BY <1>6 DEF collect_pid, p, i
  <2>2. /\ history \in [PidSlots -> [pid : Pids \cup {0}, ticks : 0..MaxProcTicks]]
        /\ \A j \in PidSlots : history[j].pid \in list \cup {0}
        /\ cpu_ticks[p] \in 0..MaxProcTicks /\ last_ticks \in [Pids -> 0..MaxProcTicks]
    BY <1>2 DEF ProcTypeOK
  <2>3. previous \in 0..MaxProcTicks
    BY <1>3, <2>2, ProcHistoryAssumption, SMT
  <2>5. ProcTypeOK'
    <3>1. history' \in [PidSlots -> [pid : Pids \cup {0}, ticks : 0..MaxProcTicks]]
      BY <1>2, <1>3, <2>1, <2>2 DEF StoreTicks
    <3>2. \A j \in PidSlots : history'[j].pid \in list \cup {0}
      BY <1>2, <1>3, <2>1, <2>2 DEF StoreTicks
    <3>3. last_ticks' \in [Pids -> 0..MaxProcTicks]
      BY <1>2, <2>1, <2>2
    <3>4. difference' \in [pid : Pids \cup {0}, owner : Pids \cup {0},
                         previous : 0..MaxProcTicks, known : 0..MaxProcTicks]
      <4>1. history[i].pid \in Pids \cup {0} /\ last_ticks[p] \in 0..MaxProcTicks
        BY <1>2, <1>3, <2>2
      <4> HIDE DEF previous
      <4> QED BY <1>2, <2>1, <2>3, <4>1
    <3>5. shared' \in BOOLEAN
      BY <2>1
    <3>6. counted' \subseteq list /\ pending' \subseteq list
      BY <1>2, <1>4, <2>1 DEF ProcTypeOK
    <3> QED BY <1>4, <3>1, <3>2, <3>3, <3>4, <3>5, <3>6 DEF ProcTypeOK
  <2>6. CASE history[i].pid \notin {0, p}
    <3>1. shared'
      BY <2>1, <2>6
    <3>2. FirstIsNewest' /\ MeasuredFromLastReading'
      BY <3>1 DEF FirstIsNewest, MeasuredFromLastReading
    <3>3. Idle'
      BY <1>4 DEF Idle
    <3> QED BY <2>5, <3>2, <3>3
  <2>7. CASE history[i].pid \in {0, p}
    <3>1. Mine(p, i) /\ (shared' <=> shared)
      BY <2>1, <2>7 DEF Mine
    <3>2. history'[i] = [pid |-> p, ticks |-> cpu_ticks[p]]
          /\ \A j \in PidSlots \ {i} : history'[j] = history[j]
      BY <1>3, <2>1, <2>2, <2>7 DEF StoreTicks
    <3>3. \A j \in PidSlots : history[j].pid = p => Before(p, i, j)
      BY <1>3, <3>1 DEF Mine
    <3>4. FirstIsNewest'
      <4> SUFFICES ASSUME ~shared, NEW q \in Pids, NEW k \in PidSlots, FirstOwned(q, k)'
                   PROVE  history'[k].ticks = last_ticks'[q]
        BY <3>1 DEF FirstIsNewest
      <4>1. history'[k].pid = q /\ \A j \in PidSlots : history'[j].pid = q => Before(q, k, j)
        BY DEF FirstOwned, Before
      <4>2. CASE q = p
        <5>1. Before(p, k, i)
          BY <1>3, <3>2, <4>1, <4>2, SMT
        <5>2. k # i => Before(p, i, k)
          BY <3>2, <3>3, <4>1, <4>2
        <5>3. k = i
          BY <1>3, <5>1, <5>2, ProcHistoryAssumption, SMT DEF Before, PidSlots
        <5> QED BY <1>2, <2>1, <2>2, <3>2, <4>2, <5>3, SMT
      <4>3. CASE q # p
        <5>1. k # i /\ history'[k] = history[k] /\ last_ticks'[q] = last_ticks[q]
          BY <2>1, <2>2, <3>2, <4>1, <4>3, SMT
        <5>2. \A j \in PidSlots : history[j].pid = q => history'[j].pid = q
          BY <1>2, <2>7, <3>2, <4>3, ProcHistoryAssumption
        <5>3. FirstOwned(q, k)
          BY <4>1, <5>1, <5>2 DEF FirstOwned
        <5>4. history[k].ticks = last_ticks[q]
          BY <5>3 DEF FirstIsNewest
        <5> QED BY <5>1, <5>4
      <4> QED BY <4>2, <4>3
    <3>5. MeasuredFromLastReading'
      <4> SUFFICES ASSUME ~shared, previous # 0 PROVE previous = last_ticks[p]
        BY <2>1, <3>1 DEF MeasuredFromLastReading
      <4>1. history[i].pid = p /\ previous = history[i].ticks
        BY <2>7
      <4>2. FirstOwned(p, i)
        BY <3>3, <4>1 DEF FirstOwned
      <4> QED BY <1>2, <1>3, <4>1, <4>2 DEF FirstIsNewest
    <3>6. Idle'
      BY <1>4 DEF Idle
    <3> QED BY <2>5, <3>4, <3>5, <3>6
  <2> QED BY <2>6, <2>7
<1> QED BY <1>5, <1>6

LEMMA EndPreserves == HistoryInv /\ end_pids => HistoryInv'
<1> SUFFICES ASSUME HistoryInv, end_pids PROVE HistoryInv'
  OBVIOUS
<1> USE DEF HistoryInv
<1>1. /\ stage' = "idle" /\ counted' = {} /\ difference' = NoDifference /\ pending' = {} /\ pending' = pending
      /\ list' = list /\ history' = history /\ last_ticks' = last_ticks /\ shared' = shared
      /\ running' = running /\ cpu_ticks' = cpu_ticks /\ reuses' = reuses
  BY DEF end_pids, processes
<1>2. NoDifference \in [pid : Pids \cup {0}, owner : Pids \cup {0},
                  previous : 0..MaxProcTicks, known : 0..MaxProcTicks]
  BY ProcHistoryAssumption, SMT DEF NoDifference
<1>3. ProcTypeOK'
  BY <1>1, <1>2 DEF ProcTypeOK
<1>4. FirstIsNewest'
  BY <1>1 DEF FirstIsNewest, FirstOwned
<1>5. Idle' /\ MeasuredFromLastReading'
  BY <1>1 DEF Idle, MeasuredFromLastReading, NoDifference
<1> QED BY <1>3, <1>4, <1>5

LEMMA NextPreserves == HistoryInv /\ [ProcHistoryNext]_proc_vars => HistoryInv'
<1> SUFFICES ASSUME HistoryInv, [ProcHistoryNext]_proc_vars PROVE HistoryInv'
  OBVIOUS
<1>1. CASE UNCHANGED proc_vars
  <2>1. UNCHANGED <<running, cpu_ticks, reuses, list, history, stage, pending, counted, last_ticks, difference, shared>>
    BY <1>1 DEF proc_vars, processes
  <2> QED BY <2>1 DEF HistoryInv, ProcTypeOK, Idle, FirstIsNewest, FirstOwned, MeasuredFromLastReading
<1> QED BY <1>1, KernelPreserves, BeginPreserves, CollectPreserves, EndPreserves DEF ProcHistoryNext

-----------------------------------------------------------------------------
\* The table of proc.c keeps its types and holds listed processes only.
THEOREM TypeCorrect == ProcHistorySpec => []ProcTypeOK
<1>1. HistoryInv => ProcTypeOK
  BY DEF HistoryInv
<1> QED BY <1>1, InitInvariant, NextPreserves, PTL DEF ProcHistorySpec

\* Until two processes share a slot, proc_collect measures a process from the last
\* reading it took of it, or not at all: of the slots a process owns, find_slot
\* never returns one that is out of date.
THEOREM MeasuredFromOwnLastReading == ProcHistorySpec => []MeasuredFromLastReading
<1>1. HistoryInv => MeasuredFromLastReading
  BY DEF HistoryInv
<1> QED BY <1>1, InitInvariant, NextPreserves, PTL DEF ProcHistorySpec

-----------------------------------------------------------------------------
\* No two watched processes have the same hash.
NoCollisions == \A p, q \in Pids : PidHash[p] = PidHash[q] => p = q

\* Every slot in use is the one its process hashes to.
Placed == \A i \in PidSlots : history[i].pid # 0 => PidHash[history[i].pid] = i

OwnSlotOnly == difference.owner \in {0, difference.pid}

PlacedInv == HistoryInv /\ Placed /\ ~shared /\ OwnSlotOnly

LEMMA InitPlaced == ProcHistoryInit => PlacedInv
<1> SUFFICES ASSUME ProcHistoryInit PROVE PlacedInv
  OBVIOUS
<1>1. Placed /\ ~shared /\ OwnSlotOnly
  BY DEF ProcHistoryInit, FreeEntry, NoDifference, Placed, OwnSlotOnly
<1> QED BY <1>1, InitInvariant DEF PlacedInv

\* find_slot returns the slot that a process hashes to, free or its own.
LEMMA FindSlotPlaced ==
    ASSUME NoCollisions, PlacedInv, NEW p \in Pids
    PROVE  FindSlot(p) = PidHash[p] /\ PidHash[p] \in PidSlots /\ history[PidHash[p]].pid \in {0, p}
<1>1. PidHash[p] \in PidSlots
  BY ProcHistoryAssumption
<1>2. history[PidHash[p]].pid \in Pids \cup {0}
  BY <1>1 DEF PlacedInv, HistoryInv, ProcTypeOK
<1>3. history[PidHash[p]].pid # 0 => PidHash[history[PidHash[p]].pid] = PidHash[p]
  BY <1>1 DEF PlacedInv, Placed
<1>4. history[PidHash[p]].pid \in {0, p}
  BY <1>2, <1>3 DEF NoCollisions
<1> QED BY <1>1, <1>4 DEF FindSlot, Mine

LEMMA CollectPlaced ==
    ASSUME NoCollisions, PlacedInv, collect_pid
    PROVE  Placed' /\ ~shared' /\ OwnSlotOnly'
<1> DEFINE p == Min(pending)
<1>1. p \in Pids /\ p # 0
  <2>1. pending \in SUBSET Nat /\ pending # {} /\ pending \subseteq Pids /\ Pids \subseteq Nat \ {0}
    BY ProcHistoryAssumption DEF PlacedInv, HistoryInv, ProcTypeOK, collect_pid
  <2> QED BY <2>1, MinIsLeast
<1>2. FindSlot(p) = PidHash[p] /\ PidHash[p] \in PidSlots /\ history[PidHash[p]].pid \in {0, p}
  BY <1>1, FindSlotPlaced
<1>3. CASE p \notin running \/ cpu_ticks[p] = 0
  <2>1. UNCHANGED <<history, difference, shared>>
    BY <1>3 DEF collect_pid
  <2> QED BY <2>1 DEF PlacedInv, Placed, OwnSlotOnly
<1>4. CASE ~(p \notin running \/ cpu_ticks[p] = 0)
  <2> DEFINE i == FindSlot(p)
             previous == IF history[i].pid = 0 THEN 0 ELSE history[i].ticks
  <2>1. /\ history' = [history EXCEPT ![i] = StoreTicks(i, p)]
        /\ difference' = [pid |-> p, owner |-> history[i].pid,
                        previous |-> previous, known |-> last_ticks[p]]
        /\ shared' = (shared \/ history[i].pid \notin {0, p})
    BY <1>4 DEF collect_pid
  <2>2. ~shared' /\ OwnSlotOnly'
    BY <1>2, <2>1 DEF PlacedInv, OwnSlotOnly
  <2>3. StoreTicks(i, p).pid = p
    BY <1>1, <1>2 DEF StoreTicks
  <2>4. DOMAIN history = PidSlots
    BY DEF PlacedInv, HistoryInv, ProcTypeOK
  <2>5. \A j \in PidSlots : history'[j] = IF j = PidHash[p] THEN StoreTicks(i, p) ELSE history[j]
    BY <1>2, <2>1, <2>4
  <2>6. Placed'
    BY <1>2, <2>3, <2>5 DEF PlacedInv, Placed
  <2> QED BY <2>2, <2>6
<1> QED BY <1>3, <1>4

LEMMA NextPlaced == NoCollisions /\ PlacedInv /\ [ProcHistoryNext]_proc_vars => PlacedInv'
<1> SUFFICES ASSUME NoCollisions, PlacedInv, [ProcHistoryNext]_proc_vars PROVE PlacedInv'
  OBVIOUS
<1>1. HistoryInv'
  BY NextPreserves DEF PlacedInv
<1>2. CASE UNCHANGED <<history, difference, shared>>
  BY <1>1, <1>2 DEF PlacedInv, Placed, OwnSlotOnly
<1>3. CASE begin_pids
  <2>1. UNCHANGED <<difference, shared>> /\ (tracker_scan_proc \/ UNCHANGED history)
    BY <1>3 DEF begin_pids
  <2>2. CASE tracker_scan_proc
    BY <1>1, <2>1, <2>2 DEF tracker_scan_proc, history_gc, FreeEntry, PlacedInv, Placed, OwnSlotOnly
  <2> QED BY <1>2, <2>1, <2>2
<1>4. CASE collect_pid
  BY <1>1, <1>4, CollectPlaced DEF PlacedInv
<1>5. CASE end_pids
  BY <1>1, <1>5 DEF end_pids, NoDifference, PlacedInv, Placed, OwnSlotOnly
<1>6. ProcKernel \/ UNCHANGED proc_vars => UNCHANGED <<history, difference, shared>>
  BY DEF ProcKernel, proc_vars
<1> QED BY <1>2, <1>3, <1>4, <1>5, <1>6 DEF ProcHistoryNext

\* The comment at find_slot, "linear probing (avoids conflicts)", is true where no
\* two watched processes hash to the same slot, whatever is started, ended and
\* reused: none is given another one's slot, and a difference is always taken from
\* the process's own last reading.
THEOREM OwnSlotUnlessCollision ==
    NoCollisions =>
        (ProcHistorySpec => [](ProbingAvoidsConflicts /\ (difference.previous # 0 =>
                                                         difference.previous = difference.known)))
<1>1. PlacedInv => /\ ProbingAvoidsConflicts
                   /\ difference.previous # 0 => difference.previous = difference.known
  BY DEF PlacedInv, OwnSlotOnly, ProbingAvoidsConflicts, HistoryInv, MeasuredFromLastReading
<1>2. ASSUME NoCollisions
      PROVE  ProcHistorySpec => [](ProbingAvoidsConflicts /\ (difference.previous # 0 =>
                                                             difference.previous = difference.known))
  <2>1. PlacedInv /\ [ProcHistoryNext]_proc_vars => PlacedInv'
    BY <1>2, NextPlaced
  <2> QED BY <1>1, <2>1, InitPlaced, PTL DEF ProcHistorySpec
<1> QED BY <1>2

-----------------------------------------------------------------------------
(* The order of the collectors.                                            *)

\* The collectors main has called in this sample, by the place it is at.
Called(p) ==
    \/ p \in {"cpu"} /\ pc \in {"mem", "net", "disk", "fs", "proc", "push"}
    \/ p \in {"mem", "load"} /\ pc \in {"net", "disk", "fs", "proc", "push"}
    \/ p = "net" /\ pc \in {"disk", "fs", "proc", "push"}
    \/ p = "disk" /\ pc \in {"fs", "proc", "push"}
    \/ p = "fs" /\ pc \in {"proc", "push"}
    \/ p = "proc" /\ pc = "push"

\* A collector that has been called has written its payload or cleared it.
Fresh ==
    /\ DOMAIN written = Payloads
    /\ \A p \in Payloads : Called(p) /\ written[p] = "before" => p = "load" /\ written["mem"] = "zero"

\* No reading is stale when the agent starts.
LEMMA InitFresh == Init => Fresh
BY DEF Init, Fresh, Called, Payloads

\* Every step keeps the readings as fresh as Fresh says.
LEMMA NextFresh == Fresh /\ [Next]_vars => Fresh'
<1> SUFFICES ASSUME Fresh, [Next]_vars PROVE Fresh'
  OBVIOUS
<1> USE DEF Fresh, Called, Payloads
<1>1. CASE cpu_collect \/ cpu_collect_fails
  <2>1. /\ pc = "cpu" /\ pc' = "mem"
        /\ \E x \in {"zero", "now"} : written' = [written EXCEPT !["cpu"] = x]
    BY <1>1 DEF cpu_collect, cpu_collect_fails
  <2> QED BY <2>1
<1>2. CASE mem_collect
  <2>1. /\ pc = "mem" /\ pc' = "net"
        /\ \E x \in {"zero", "now"} : written' = [written EXCEPT !["mem"] = "now", !["load"] = x]
    BY <1>2 DEF mem_collect
  <2> QED BY <2>1
<1>3. CASE mem_collect_fails
  <2>1. pc = "mem" /\ pc' = "net" /\ written' = [written EXCEPT !["mem"] = "zero"]
    BY <1>3 DEF mem_collect_fails
  <2> QED BY <2>1
<1>4. CASE net_collect
  <2>1. /\ pc = "net" /\ pc' = "disk"
        /\ \E x \in {"zero", "now"} : written' = [written EXCEPT !["net"] = x]
    BY <1>4 DEF net_collect, ListCollect
  <2> QED BY <2>1
<1>5. CASE fs_collect
  <2>1. /\ pc = "fs" /\ pc' = "proc"
        /\ \E x \in {"zero", "now"} : written' = [written EXCEPT !["fs"] = x]
    BY <1>5 DEF fs_collect, ListCollect
  <2> QED BY <2>1
<1>6. CASE disk_collect \/ disk_collect_fails
  <2>1. /\ pc = "disk" /\ pc' = "fs"
        /\ \E x \in {"zero", "now"} : written' = [written EXCEPT !["disk"] = x]
    BY <1>6 DEF disk_collect, disk_collect_fails
  <2> QED BY <2>1
<1>7. CASE proc_collect
  <2>1. /\ pc = "proc" /\ pc' = "push"
        /\ \E x \in {"zero", "now"} : written' = [written EXCEPT !["proc"] = x]
    BY <1>7 DEF proc_collect
  <2> QED BY <2>1
<1>8. CASE push
  <2>1. pc' = "cpu" /\ DOMAIN written' = Payloads
    BY <1>8 DEF push
  <2> QED BY <2>1
<1>9. CASE reload
  <2>1. pc' = "cpu" /\ DOMAIN written' = Payloads
    BY <1>9 DEF reload
  <2> QED BY <2>1
<1>10. CASE UNCHANGED vars
  <2>1. pc' = pc /\ written' = written
    BY <1>10 DEF vars
  <2> QED BY <2>1
<1> QED BY <1>1, <1>2, <1>3, <1>4, <1>5, <1>6, <1>7, <1>8, <1>9, <1>10 DEF Next

Sampling == {"mem", "net", "disk", "fs", "proc"}

\* felt is 2 once a read has failed in this sample and 1 in the sample after it.  Without
\* a failure the readings of the CPU and of the processes are of the same sample.
Spans ==
    /\ pc \in Sampling \cup {"cpu", "push"} /\ felt \in {0, 1, 2}
    /\ "span" \in DOMAIN cpu
    /\ cfg.disabled => \A g \in 1..Watched : proc[g] = None
    /\ pc = "cpu" /\ felt = 0 => \A g \in 1..Watched : proc[g] \in {None, cpu.span}
    /\ pc \in Sampling /\ felt # 2 => cpu.span = 0
    /\ pc \in Sampling /\ felt = 0 => \A g \in 1..Watched : proc[g] \in {None, sctx}
    /\ pc = "push" /\ felt # 2 => cpu.span = 0 /\ \A g \in 1..Watched : proc[g] \in {None, 0}
    /\ last.kind = "proc" => pc = "push"

IInv == Spans /\ SharesOverOneInterval

\* The counters span nothing when the agent starts.
LEMMA InitSpans == Init => IInv
BY SMT DEF Init, IInv, Spans, SharesOverOneInterval, Sampling, NoPayload, proc_init, cpu_init

\* A failed read is felt for two samples.
LEMMA Feeling == (Fault => felt' = 2) /\ (NoFault => felt' = felt)
BY DEF Fault, NoFault

\* A collector between those of the CPU and of the processes.
LEMMA Between ==
    ASSUME IInv, pc \in Sampling, pc' \in Sampling, felt' = felt \/ felt' = 2,
           cfg' = cfg, cpu' = cpu, sctx' = sctx, proc' = proc, last'.kind # "proc"
    PROVE  IInv'
BY SMT DEF IInv, Spans, SharesOverOneInterval, Sampling

\* Every step keeps the spans, collector by collector.
LEMMA NextSpans == IInv /\ [Next]_vars => IInv'
<1> SUFFICES ASSUME IInv, [Next]_vars PROVE IInv'
  OBVIOUS
<1>1. CASE cpu_collect
  <2>1. /\ pc = "cpu" /\ pc' = "mem" /\ felt' = felt /\ cfg' = cfg /\ proc' = proc
        /\ sctx' = cpu.span /\ last'.kind # "proc"
        /\ cpu' = [since |-> [c \in Classes |-> 0], span |-> 0]
    <3>1. /\ pc = "cpu" /\ pc' = "mem" /\ cfg' = cfg /\ proc' = proc /\ NoFault
          /\ cpu' = [since |-> [c \in Classes |-> 0], span |-> 0]
      BY <1>1 DEF cpu_collect
    <3>2. PICK tk \in Ticks :
             LET diff == [c \in Classes |-> cpu.since[c] + tk[c]]
             IN  IF cpu.span = None
                   THEN sctx' = None /\ last' = NoPayload
                   ELSE /\ sctx' = cpu.span
                        /\ last' = [kind |-> "cpu", diff |-> diff,
                                    share |-> [c \in Classes |-> CpuShare(diff, c)]]
      BY <1>1 DEF cpu_collect
    <3>3. sctx' = cpu.span
      BY <3>2
    <3>4. \A a, b : [kind |-> "cpu", diff |-> a, share |-> b].kind # "proc"
      OBVIOUS
    <3>5. last'.kind # "proc"
      BY <3>2, <3>4, SMT DEF NoPayload
    <3> QED BY <3>1, <3>3, <3>5, Feeling
  <2>2. cpu'.span = 0 /\ "span" \in DOMAIN cpu'
    BY <2>1
  <2> QED BY <2>1, <2>2 DEF IInv, Spans, SharesOverOneInterval, Sampling
<1>2. CASE cpu_collect_fails
  <2>1. /\ pc' = "mem" /\ felt' = 2 /\ cfg' = cfg /\ proc' = proc /\ last' = NoPayload
    BY <1>2, Feeling DEF cpu_collect_fails
  <2>2. "span" \in DOMAIN cpu'
    <3>1. cpu' = cpu \/ \E x : cpu' = [cpu EXCEPT !.since = x]
      BY <1>2 DEF cpu_collect_fails
    <3> QED BY <3>1 DEF IInv, Spans
  <2> QED BY <2>1, <2>2, SMT DEF IInv, Spans, SharesOverOneInterval, Sampling, NoPayload
<1>3. CASE mem_collect \/ mem_collect_fails
  <2>1. /\ pc = "mem" /\ pc' = "net" /\ cfg' = cfg /\ cpu' = cpu /\ sctx' = sctx
        /\ proc' = proc /\ last' = NoPayload /\ (felt' = felt \/ felt' = 2)
    BY <1>3, Feeling DEF mem_collect, mem_collect_fails
  <2> QED BY <2>1, Between DEF Sampling, NoPayload
<1>4. CASE net_collect \/ fs_collect
  <2>1. /\ pc \in {"net", "fs"} /\ pc' \in {"disk", "proc"} /\ cfg' = cfg /\ cpu' = cpu
        /\ sctx' = sctx /\ proc' = proc /\ (felt' = felt \/ felt' = 2)
    BY <1>4, Feeling DEF net_collect, fs_collect, ListCollect
  <2>2. last' = NoPayload \/ \E k \in {"net", "fs"} : \E x : last' = [kind |-> k, entries |-> x]
    BY <1>4 DEF net_collect, fs_collect, ListCollect
  <2>3. last'.kind # "proc"
    BY <2>2, SMT DEF NoPayload
  <2> QED BY <2>1, <2>3, Between DEF Sampling
<1>5. CASE disk_collect \/ disk_collect_fails
  <2>1. /\ pc = "disk" /\ pc' = "fs" /\ cfg' = cfg /\ cpu' = cpu
        /\ sctx' = sctx /\ proc' = proc /\ (felt' = felt \/ felt' = 2)
    BY <1>5, Feeling DEF disk_collect, disk_collect_fails
  <2>2. \/ last' = NoPayload
        \/ \E x, y, z : last' = [kind |-> "disk", entries |-> x, listed |-> y, before |-> z]
    BY <1>5 DEF disk_collect, disk_collect_fails
  <2>3. last'.kind # "proc"
    BY <2>2, SMT DEF NoPayload
  <2> QED BY <2>1, <2>3, Between DEF Sampling
<1>6. CASE proc_collect
  <2>1. pc = "proc" /\ pc' = "push" /\ cfg' = cfg /\ cpu' = cpu /\ sctx' = sctx
    BY <1>6 DEF proc_collect
  <2>2. CASE cfg.disabled
    <3>1. proc' = proc /\ felt' = felt /\ last' = NoPayload
      BY <1>6, <2>2, Feeling DEF proc_collect
    <3> QED BY <2>1, <2>2, <3>1 DEF IInv, Spans, SharesOverOneInterval, Sampling, NoPayload
  <2>3. CASE ~cfg.disabled
    <3> DEFINE Collected(groups, entries, found) ==
             /\ IF \E g \in 1..Watched : found[g] = "unreadable" THEN Fault ELSE NoFault
             /\ proc' = [g \in 1..Watched |-> CASE found[g] = "absent" -> None
                                               [] found[g] = "unreadable" -> proc[g]
                                               [] found[g] = "read" -> 0]
             /\ last' = [kind |-> "proc", total |-> sctx, groups |-> groups,
                         spans |-> [g \in FirstGroups({h \in 1..Watched :
                                               found[h] = "read" /\ proc[h] # None}) |-> proc[g]],
                         threads |-> [g \in FirstGroups({h \in 1..Watched :
                                               cfg.mode # "off" /\ entries[h].total # 0}) |-> entries[g]]]
    <3>0. \E groups \in TaskDirs : \E entries \in ThreadEntries(groups) :
          \E found \in [1..Watched -> {"absent", "unreadable", "read"}] :
             Collected(groups, entries, found)
      BY <1>6, <2>3 DEF proc_collect
    <3> HIDE DEF Collected
    <3>1. PICK found \in [1..Watched -> {"absent", "unreadable", "read"}], groups \in TaskDirs :
             \E entries : Collected(groups, entries, found)
      BY <3>0
    <3>10. PICK entries : Collected(groups, entries, found)
      BY <3>1
    <3> USE DEF Collected
    <3>2. last'.total = sctx /\ \A g \in DOMAIN last'.spans :
              g \in 1..Watched /\ proc[g] # None /\ last'.spans[g] = proc[g]
      <4> DEFINE with == FirstGroups({h \in 1..Watched : found[h] = "read" /\ proc[h] # None})
      <4>1. \A g \in with : g \in 1..Watched /\ proc[g] # None
        BY DEF FirstGroups
      <4> HIDE DEF with
      <4>2. last'.total = sctx /\ last'.spans = [g \in with |-> proc[g]]
        BY <3>10, SMT DEF with
      <4> QED BY <4>1, <4>2
    <3>3. (\E g \in 1..Watched : found[g] = "unreadable") => felt' = 2
      BY <3>10, Feeling
    <3>4. ~(\E g \in 1..Watched : found[g] = "unreadable") =>
              felt' = felt /\ \A g \in 1..Watched : proc'[g] \in {None, 0}
      <4> SUFFICES ASSUME ~(\E g \in 1..Watched : found[g] = "unreadable")
                   PROVE  felt' = felt /\ \A g \in 1..Watched : proc'[g] \in {None, 0}
        OBVIOUS
      <4>1. felt' = felt
        BY <3>10, Feeling
      <4>2. ASSUME NEW g \in 1..Watched PROVE proc'[g] \in {None, 0}
        <5>1. proc'[g] = CASE found[g] = "absent" -> None
                           [] found[g] = "unreadable" -> proc[g]
                           [] found[g] = "read" -> 0
          BY <3>10
        <5>2. found[g] = "absent" \/ found[g] = "read"
          BY <3>1
        <5> QED BY <5>1, <5>2
      <4> QED BY <4>1, <4>2
    <3>5. SharesOverOneInterval'
      <4> SUFFICES ASSUME felt' = 0, NEW g \in DOMAIN last'.spans PROVE last'.spans[g] = last'.total
        BY DEF SharesOverOneInterval
      <4>0. felt' # 2
        BY SMT
      <4>1. felt = 0
        BY <3>3, <3>4, <4>0
      <4>2. g \in 1..Watched /\ proc[g] # None /\ last'.spans[g] = proc[g]
        BY <3>2
      <4>3. proc[g] \in {None, sctx}
        BY <2>1, <4>1, <4>2 DEF IInv, Spans, Sampling
      <4> QED BY <3>2, <4>2, <4>3
    <3>6. felt # 2 => cpu.span = 0
      BY <2>1 DEF IInv, Spans, Sampling
    <3>7. felt' \in {0, 1, 2} /\ (felt' # 2 => cpu.span = 0 /\ \A g \in 1..Watched : proc'[g] \in {None, 0})
      BY <3>3, <3>4, <3>6 DEF IInv, Spans
    <3> HIDE DEF Collected
    <3> QED BY <2>1, <2>3, <3>5, <3>7 DEF IInv, Spans, Sampling
  <2> QED BY <2>2, <2>3
<1>7. CASE push
  <2>1. /\ pc = "push" /\ pc' = "cpu" /\ cfg' = cfg /\ last' = NoPayload
        /\ felt' = (IF felt = 0 THEN 0 ELSE felt - 1)
        /\ proc' = [g \in 1..Watched |-> Older(proc[g])]
        /\ cpu' = [cpu EXCEPT !.span = Older(@)]
    BY <1>7 DEF push
  <2>2. (cfg.disabled => \A g \in 1..Watched : proc'[g] = None) /\ "span" \in DOMAIN cpu'
    BY <2>1 DEF IInv, Spans, Older
  <2>3. CASE felt = 2
    BY <2>1, <2>2, <2>3, SMT DEF IInv, Spans, SharesOverOneInterval, Sampling, NoPayload
  <2>4. CASE felt # 2
    <3>1. felt' = 0 /\ cpu.span = 0 /\ \A g \in 1..Watched : proc[g] \in {None, 0}
      BY <2>1, <2>4, SMT DEF IInv, Spans
    <3>2. cpu'.span = 1 /\ \A g \in 1..Watched : proc'[g] \in {None, 1}
      BY <2>1, <3>1, SMT DEF IInv, Spans, Older, None
    <3> QED BY <2>1, <2>2, <3>1, <3>2 DEF IInv, Spans, SharesOverOneInterval, Sampling, NoPayload
  <2> QED BY <2>3, <2>4
<1>8. CASE reload
  <2>1. /\ pc' = "cpu" /\ felt' = 0 /\ (\A g \in 1..Watched : proc'[g] = None) /\ last' = NoPayload /\ cpu' = cpu_init
    BY <1>8 DEF reload, proc_init
  <2> QED BY <2>1 DEF cpu_init, IInv, Spans, SharesOverOneInterval, Sampling, NoPayload
<1>9. CASE UNCHANGED vars
  <2>1. /\ pc' = pc /\ cfg' = cfg /\ cpu' = cpu /\ sctx' = sctx /\ proc' = proc
        /\ felt' = felt /\ last' = last
    BY <1>9 DEF vars
  <2> QED BY <2>1 DEF IInv, Spans, SharesOverOneInterval
<1> QED BY <1>1, <1>2, <1>3, <1>4, <1>5, <1>6, <1>7, <1>8, <1>9 DEF Next

\* main.c pushes whatever the payloads hold: each has been written or cleared by its
\* collector in this sample, but for the load average when /proc/meminfo was missing.
THEOREM NothingStale == Spec => []NoStaleValues
<1>1. Fresh => NoStaleValues
  BY DEF Fresh, NoStaleValues, Called, Payloads
<1> QED BY <1>1, InitFresh, NextFresh, PTL DEF Spec

\* A process's ticks are divided by the CPU time of the interval they were counted in,
\* unless a read failed in this sample or the last.
THEOREM SameInterval == Spec => []SharesOverOneInterval
<1>1. IInv => SharesOverOneInterval
  BY DEF IInv
<1> QED BY <1>1, InitSpans, NextSpans, PTL DEF Spec

-----------------------------------------------------------------------------
(* cpu.c                                                                   *)

\* One more share: the rounding errors add up.
LEMMA RoundingStep ==
    ASSUME NEW T \in Nat \ {0}, NEW k \in Nat, NEW a \in Nat, NEW d \in Nat, NEW b \in Nat,
           NEW h \in Nat, NEW n \in Nat,
           T * h <= k * d, k * d <= T * h + (T - 1),
           T * b <= k * a, k * a <= T * b + (T - 1) * n
    PROVE  /\ T * (h + b) <= k * (d + a)
           /\ k * (d + a) <= T * (h + b) + (T - 1) * (n + 1)
  BY SMT

\* The sums of amounts and of shares that are rounded down to a multiple of 1 / k.
LEMMA RoundedSums ==
    ASSUME NEW S, IsFiniteSet(S), NEW T \in Nat \ {0}, NEW k \in Nat,
           NEW d \in [S -> Int], \A c \in S : d[c] >= 0,
           NEW h \in [S -> Int], \A c \in S : h[c] >= 0,
           \A c \in S : T * h[c] <= k * d[c] /\ k * d[c] <= T * h[c] + (T - 1)
    PROVE  \A s \in SUBSET S : /\ T * Sums(h)[s] <= k * Sums(d)[s]
                               /\ k * Sums(d)[s] <= T * Sums(h)[s] + (T - 1) * Cardinality(s)
  <1> DEFINE P == {s \in SUBSET S : /\ T * Sums(h)[s] <= k * Sums(d)[s]
                                    /\ k * Sums(d)[s] <= T * Sums(h)[s] + (T - 1) * Cardinality(s)}
  <1>f. \A s \in SUBSET S : IsFiniteSet(s) /\ Cardinality(s) \in Nat
    BY FS_Subset, FS_CardinalityType
  <1>n. \A s \in SUBSET S : Sums(d)[s] \in Nat /\ Sums(h)[s] \in Nat
    BY SumBounds
  <1>d. \A s \in SUBSET S : s # {} =>
           Pick(s) \in s /\ Sums(d)[s] = d[Pick(s)] + Sums(d)[s \ {Pick(s)}]
    BY SumStep
  <1>h. \A s \in SUBSET S : s # {} =>
           Pick(s) \in s /\ Sums(h)[s] = h[Pick(s)] + Sums(h)[s \ {Pick(s)}]
    BY SumStep
  <1>1. {} \in P
    <2>1. Sums(d)[{}] = 0 /\ Sums(h)[{}] = 0 /\ Cardinality({}) = 0
      BY SumEmpty, FS_EmptySet
    <2>2. T * 0 <= k * 0 /\ k * 0 <= T * 0 + (T - 1) * 0
      BY SMT
    <2> QED
      BY <2>1, <2>2
  <1>2. ASSUME NEW s \in SUBSET S, s # {}, \A x \in s : s \ {x} \in P
        PROVE  s \in P
    <2> DEFINE x == Pick(s)
               r == s \ {x}
               n == Cardinality(r)
    <2>1. x \in s /\ Sums(d)[s] = d[x] + Sums(d)[r] /\ Sums(h)[s] = h[x] + Sums(h)[r]
      BY <1>2, <1>d, <1>h
    <2>2. r \in P
      BY <1>2, <2>1
    <2>3. Cardinality(s) = n + 1
      <3>1. n = IF x \in s THEN Cardinality(s) - 1 ELSE Cardinality(s)
        BY <1>f, FS_RemoveElement
      <3> QED
        BY <1>f, <2>1, <3>1, SMT
    <2>4. r \in SUBSET S
      OBVIOUS
    <2>5. n \in Nat /\ Sums(d)[r] \in Nat /\ Sums(h)[r] \in Nat
      BY <1>f, <1>n, <2>4
    <2> HIDE DEF x, r, n
    <2>6. /\ T * Sums(h)[r] <= k * Sums(d)[r]
          /\ k * Sums(d)[r] <= T * Sums(h)[r] + (T - 1) * n
      BY <2>2 DEF n
    <2>7. d[x] \in Nat /\ h[x] \in Nat
      BY <2>1, SMT
    <2>8. T * h[x] <= k * d[x] /\ k * d[x] <= T * h[x] + (T - 1)
      BY <2>1
    <2>9. /\ T * (h[x] + Sums(h)[r]) <= k * (d[x] + Sums(d)[r])
          /\ k * (d[x] + Sums(d)[r]) <= T * (h[x] + Sums(h)[r]) + (T - 1) * (n + 1)
      BY <2>5, <2>6, <2>7, <2>8, RoundingStep, ZenonT(60)
    <2> QED
      BY <2>1, <2>3, <2>9
  <1>3. \A s \in SUBSET S : s \in P
    <2> HIDE DEF P
    <2> QED
      BY <1>1, <1>2, SubsetInduction
  <1> QED
    BY <1>3

\* All shares of T: at most k, and short of it by less than one per field.
LEMMA RoundedTotal ==
    ASSUME NEW T \in Nat \ {0}, NEW k \in Nat, NEW b \in Nat, NEW n \in Nat,
           T * b <= k * T, k * T <= T * b + (T - 1) * n
    PROVE  b <= k /\ (n > 0 => b >= k - n + 1)
  BY SMT

\* A number below the modulus is its own remainder.
LEMMA SmallMod == ASSUME NEW m \in Nat, NEW a \in Nat, a < m PROVE a % m = a
  BY SMT

\* The quotient of a by t, rounded down.
LEMMA Quotient ==
    ASSUME NEW a \in Nat, NEW t \in Nat \ {0}
    PROVE  a \div t \in Nat /\ t * (a \div t) <= a /\ a <= t * (a \div t) + (t - 1)
  BY SMT

\* A share of a part is at most the whole.
LEMMA QuotientBound ==
    ASSUME NEW q \in Nat, NEW t \in Nat \ {0}, NEW d \in Nat, d <= t, NEW k \in Nat, t * q <= k * d
    PROVE  q <= k
  BY SMT

\* A part times the scale fits where the whole does.
LEMMA ScaledBound ==
    ASSUME NEW t \in Nat \ {0}, NEW d \in Nat, d <= t, NEW k \in Nat, NEW w \in Nat, t * k < w
    PROVE  d * k < w /\ d * k \in Nat /\ k * d = d * k
  BY SMT

\* What fits in a word after scaling fits before.
LEMMA ScaledSmall ==
    ASSUME NEW t \in Nat, NEW w \in Nat, t * Scale < w
    PROVE  t < w
  BY SMT DEF Scale

\* The share of a field, when no product leaves the 64 bits: rounded down, at most 100 %.
LEMMA ShareOf ==
    ASSUME NEW d \in [Classes -> Int], NEW c \in Classes, NEW t \in Nat \ {0},
           t = diff_total(d), d[c] >= 0, d[c] <= t, t * Scale < WordMod
    PROVE  /\ CpuShare(d, c) \in Nat /\ CpuShare(d, c) <= Scale
           /\ t * CpuShare(d, c) <= Scale * d[c]
           /\ Scale * d[c] <= t * CpuShare(d, c) + (t - 1)
  <1> DEFINE a == d[c]
             q == (a * Scale) \div t
  <1>1. a \in Nat /\ a <= t /\ Scale \in Nat /\ WordMod \in Nat /\ U16Mod \in Nat /\ U16Mod > Scale
    BY CollectorsAssumption, SMT DEF Scale
  <1>2. a * Scale < WordMod /\ a * Scale \in Nat /\ Scale * a = a * Scale
    BY <1>1, ScaledBound
  <1>3. t < WordMod /\ a < WordMod
    <2>1. t < WordMod
      BY <1>1, ScaledSmall
    <2> QED
      BY <2>1, <1>1, SMT
  <1>4. Word(d[c]) = a /\ Word(a * Scale) = a * Scale /\ Word(diff_total(d)) = t
    <2>1. t \in Nat
      OBVIOUS
    <2>2. Word(d[c]) = a /\ Word(a * Scale) = a * Scale
      BY <1>1, <1>2, <1>3, SmallMod DEF Word
    <2>3. Word(t) = t
      BY <2>1, <1>1, <1>3, SmallMod DEF Word
    <2> QED
      BY <2>2, <2>3
  <1>5. NonZero(t) = t
    BY DEF NonZero
  <1>6. CpuShare(d, c) = q % U16Mod
    BY <1>4, <1>5 DEF CpuShare
  <1>7. q \in Nat /\ t * q <= a * Scale /\ a * Scale <= t * q + (t - 1)
    BY <1>2, Quotient
  <1>8. q <= Scale
    <2>1. t * q <= Scale * a
      BY <1>2, <1>7
    <2> HIDE DEF q, a
    <2> QED
      BY <1>1, <1>7, <2>1, QuotientBound
  <1> HIDE DEF q, a
  <1>9. q < U16Mod
    BY <1>1, <1>7, <1>8, SMT
  <1>10. CpuShare(d, c) = q
    BY <1>1, <1>6, <1>7, <1>9, SmallMod
  <1>11. t * q <= Scale * a /\ Scale * a <= t * q + (t - 1)
    BY <1>2, <1>7
  <1> QED
    BY <1>7, <1>8, <1>10, <1>11 DEF a

\* The reading of the CPU counters, and the payload made from it.
Readings ==
    /\ cpu \in [since : [Classes -> Int], span : Int]
    /\ last.kind = "cpu" => /\ last.diff \in [Classes -> Int]
                            /\ last.share = [c \in Classes |-> CpuShare(last.diff, c)]

\* There is no reading when the agent starts.
LEMMA InitReadings == Init => Readings
  BY SMT DEF Init, Readings, cpu_init, NoPayload, None

\* Every step keeps the two readings of /proc/stat apart by counters that never fall.
LEMMA NextReadings == Readings /\ [Next]_vars => Readings'
  <1> SUFFICES ASSUME Readings, [Next]_vars PROVE Readings'
    OBVIOUS
  <1>z. [c \in Classes |-> 0] \in [Classes -> Int]
    BY SMT
  <1>1. CASE cpu_collect
    <2>1. PICK tk \in Ticks :
             \/ last' = NoPayload
             \/ last' = [kind |-> "cpu", diff |-> [c \in Classes |-> cpu.since[c] + tk[c]],
                         share |-> [c \in Classes |->
                             CpuShare([x \in Classes |-> cpu.since[x] + tk[x]], c)]]
      BY <1>1 DEF cpu_collect
    <2>2. cpu' = [since |-> [c \in Classes |-> 0], span |-> 0]
      BY <1>1 DEF cpu_collect
    <2>3. cpu' \in [since : [Classes -> Int], span : Int]
      BY <2>2, <1>z, SMT
    <2> DEFINE diff == [c \in Classes |-> cpu.since[c] + tk[c]]
    <2>4. diff \in [Classes -> Int]
      <3>1. cpu.since \in [Classes -> Int]
        BY DEF Readings
      <3>2. tk \in [Classes -> Int]
        BY CollectorsAssumption
      <3> QED
        BY <3>1, <3>2, SMT
    <2>5. CASE last' = NoPayload
      <3>1. last'.kind # "cpu"
        BY <2>5 DEF NoPayload
      <3> QED
        BY <2>3, <3>1 DEF Readings
    <2>6. CASE last' = [kind |-> "cpu", diff |-> diff,
                        share |-> [c \in Classes |-> CpuShare(diff, c)]]
      <3> HIDE DEF diff
      <3>1. last'.diff = diff /\ last'.share = [c \in Classes |-> CpuShare(diff, c)]
        BY <2>6
      <3>2. last'.share = [c \in Classes |-> CpuShare(last'.diff, c)]
        BY <3>1
      <3> QED
        BY <2>3, <2>4, <3>1, <3>2 DEF Readings
    <2> QED
      BY <2>1, <2>5, <2>6
  <1>2. CASE cpu_collect_fails
    <2>1. PICK tk \in Ticks :
             cpu' = IF cpu.span = None
                      THEN cpu
                      ELSE [cpu EXCEPT !.since = [c \in Classes |-> @[c] + tk[c]]]
      BY <1>2 DEF cpu_collect_fails
    <2>2. last'.kind # "cpu"
      BY <1>2 DEF cpu_collect_fails, NoPayload
    <2>3. cpu' \in [since : [Classes -> Int], span : Int]
      <3>1. tk \in [Classes -> Int]
        BY CollectorsAssumption
      <3> QED
        BY <2>1, <3>1, SMT DEF Readings
    <2> QED
      BY <2>2, <2>3 DEF Readings
  <1>3. CASE mem_collect \/ mem_collect_fails \/ disk_collect_fails
    <2>1. cpu' = cpu /\ last' = NoPayload
      BY <1>3 DEF mem_collect, mem_collect_fails, disk_collect_fails
    <2> QED
      BY <2>1 DEF Readings, NoPayload
  <1>4. CASE net_collect \/ fs_collect
    <2>1. cpu' = cpu
      BY <1>4 DEF net_collect, fs_collect, ListCollect
    <2>2. last' = NoPayload \/ \E k \in {"net", "fs"} : \E x : last' = [kind |-> k, entries |-> x]
      BY <1>4 DEF net_collect, fs_collect, ListCollect
    <2>3. last'.kind # "cpu"
      BY <2>2, SMT DEF NoPayload
    <2> QED
      BY <2>1, <2>3 DEF Readings
  <1>5. CASE disk_collect
    <2>1. cpu' = cpu
      BY <1>5 DEF disk_collect
    <2>2. \E x, y, z : last' = [kind |-> "disk", entries |-> x, listed |-> y, before |-> z]
      BY <1>5 DEF disk_collect
    <2>3. last'.kind # "cpu"
      BY <2>2, SMT
    <2> QED
      BY <2>1, <2>3 DEF Readings
  <1>6. CASE proc_collect
    <2>1. cpu' = cpu
      BY <1>6 DEF proc_collect
    <2>2. \/ last' = NoPayload
          \/ \E groups, spans, threads :
                last' = [kind |-> "proc", total |-> sctx, groups |-> groups,
                         spans |-> spans, threads |-> threads]
      BY <1>6 DEF proc_collect
    <2>3. last'.kind # "cpu"
      BY <2>2, SMT DEF NoPayload
    <2> QED
      BY <2>1, <2>3 DEF Readings
  <1>7. CASE push
    <2>1. cpu' = [cpu EXCEPT !.span = Older(@)] /\ last' = NoPayload
      BY <1>7 DEF push
    <2> QED
      BY <2>1, SMT DEF Readings, NoPayload, Older, None
  <1>8. CASE reload
    <2>1. cpu' = cpu_init /\ last' = NoPayload
      BY <1>8 DEF reload
    <2> QED
      BY <2>1, <1>z, SMT DEF Readings, NoPayload, cpu_init, None
  <1>9. CASE UNCHANGED vars
    <2>1. cpu' = cpu /\ last' = last
      BY <1>9 DEF vars
    <2> QED
      BY <2>1 DEF Readings
  <1> QED
    BY <1>1, <1>2, <1>3, <1>4, <1>5, <1>6, <1>7, <1>8, <1>9 DEF Next

\* The ticks since the last reading times 1000 fit into an unsigned long long.
TicksInRange == last.kind = "cpu" => diff_total(last.diff) * Scale < WordMod

\* The shares cpu_collect computes from two readings of /proc/stat are each between 0 and
\* 100 % and add up to 100 % less at most one unit of rounding per field, for every
\* reading whose counters did not fall, as long as the ticks of the interval times 1000
\* fit into 64 bits.
THEOREM SharesAddUp == Spec => [](TicksInRange => CpuSharesAddUp)
  <1>1. Readings => (TicksInRange => CpuSharesAddUp)
    <2> SUFFICES ASSUME Readings, TicksInRange, last.kind = "cpu",
                        \A c \in Classes : last.diff[c] >= 0, diff_total(last.diff) > 0
                 PROVE  /\ SumFunction(last.share) \in (Scale - Cardinality(Classes) + 1)..Scale
                        /\ \A c \in Classes : last.share[c] \in 0..Scale
      BY DEF CpuSharesAddUp
    <2> DEFINE d == last.diff
               h == last.share
               t == diff_total(d)
               n == Cardinality(Classes)
    <2>1. /\ d \in [Classes -> Int] /\ h = [c \in Classes |-> CpuShare(d, c)]
          /\ IsFiniteSet(Classes) /\ t * Scale < WordMod /\ t > 0
      BY CollectorsAssumption DEF Readings, TicksInRange
    <2>2. t = Sums(d)[Classes]
      BY <2>1, SumTotal DEF diff_total
    <2>3. Sums(d)[Classes] \in Nat /\ \A c \in Classes : d[c] <= Sums(d)[Classes]
      <3>1. \A s \in SUBSET Classes : Sums(d)[s] \in Nat /\ \A c \in s : d[c] <= Sums(d)[s]
        BY <2>1, SumBounds
      <3> QED
        BY <3>1
    <2>4. t \in Nat /\ \A c \in Classes : d[c] <= t
      BY <2>2, <2>3
    <2>5. t \in Nat \ {0}
      BY <2>1, <2>4, SMT
    <2> HIDE DEF d, h, t
    <2>6. ASSUME NEW c \in Classes
          PROVE  h[c] \in Nat /\ h[c] <= Scale /\ t * h[c] <= Scale * d[c]
                 /\ Scale * d[c] <= t * h[c] + (t - 1)
      <3>1. h[c] = CpuShare(d, c)
        BY <2>1
      <3>2. d[c] >= 0 /\ d[c] <= t /\ t = diff_total(d)
        BY <2>4 DEF d, t
      <3> QED
        BY <2>1, <2>5, <3>1, <3>2, ShareOf
    <2>7. h \in [Classes -> Int] /\ (\A c \in Classes : h[c] >= 0) /\ \A c \in Classes : d[c] >= 0
      <3>1. \A c \in Classes : h[c] \in Int /\ h[c] >= 0
        BY <2>6, SMT
      <3>2. \A c \in Classes : d[c] >= 0
        BY DEF d
      <3> QED
        BY <2>1, <3>1, <3>2
    <2>8. SumFunction(h) = Sums(h)[Classes]
      BY <2>7, SumTotal
    <2>9. Scale \in Nat
      BY SMT DEF Scale
    <2>10. \A s \in SUBSET Classes : /\ t * Sums(h)[s] <= Scale * Sums(d)[s]
                                     /\ Scale * Sums(d)[s] <= t * Sums(h)[s] + (t - 1) * Cardinality(s)
      BY <2>1, <2>5, <2>6, <2>7, <2>9, RoundedSums, ZenonT(60)
    <2>11. /\ t * SumFunction(h) <= Scale * t
           /\ Scale * t <= t * SumFunction(h) + (t - 1) * n
      BY <2>2, <2>8, <2>10
    <2>12. SumFunction(h) \in Nat /\ n \in Nat
      <3>1. \A s \in SUBSET Classes : Sums(h)[s] \in Nat /\ \A c \in s : h[c] <= Sums(h)[s]
        BY <2>1, <2>7, SumBounds
      <3> QED
        BY <3>1, <2>1, <2>8, FS_CardinalityType
    <2> HIDE DEF n
    <2>13. SumFunction(h) <= Scale /\ (n > 0 => SumFunction(h) >= Scale - n + 1)
      BY <2>5, <2>9, <2>11, <2>12, RoundedTotal
    <2>14. n > 0
      <3>1. n # 0
        <4>1. SUFFICES ASSUME n = 0 PROVE FALSE
          OBVIOUS
        <4>2. Classes = {}
          BY <2>1, <4>1, FS_EmptySet DEF n
        <4>3. Sums(d)[Classes] = 0
          BY <4>2, <2>1, SumEmpty
        <4> QED
          BY <4>3, <2>2, <2>5
      <3> QED
        BY <3>1, <2>12, SMT
    <2>15. SumFunction(h) \in (Scale - n + 1)..Scale
      BY <2>9, <2>12, <2>13, <2>14, SMT
    <2>16. \A c \in Classes : h[c] \in 0..Scale
      BY <2>6, <2>9, SMT
    <2> QED
      BY <2>15, <2>16 DEF h, n
  <1> QED
    BY <1>1, InitReadings, NextReadings, PTL DEF Spec

-----------------------------------------------------------------------------
(* disk.c                                                                  *)

SlotName == STRING \cup {Free}

CacheSlot == [name : SlotName, zero : BOOLEAN, span : Int]

Caches == [1..MaxDisks -> CacheSlot]

StatLine == [name : STRING, change : Int, zero : BOOLEAN]

\* The entry made from a line and what the cache held for it.
EntryOf(cached, line, elapsed) ==
    [of |-> line.name, have_prev |-> ~cached.zero,
     delta |-> IF cached.zero THEN 0 ELSE Word(line.change) % U32Mod,
     change |-> line.change, span |-> cached.span, elapsed |-> elapsed]

DiskEntry == {EntryOf(cached, line, elapsed) :
                 cached \in CacheSlot, line \in StatLine, elapsed \in Int}

DiskOuts == [cache : Caches, entries : Seq(DiskEntry)]

\* Slot i is the first one with this name.
First(cache, name, i) ==
    /\ i \in 1..MaxDisks /\ cache[i].name = name
    /\ \A j \in 1..MaxDisks : j < i => cache[j].name # name

\* What disk_cache_slot returns.
LEMMA SlotOf ==
    ASSUME NEW cache \in Caches, NEW name
    PROVE  LET slot == disk_cache_slot(cache, name)
           IN  \/ First(cache, name, slot)
               \/ /\ \A i \in 1..MaxDisks : cache[i].name # name
                  /\ \/ First(cache, Free, slot)
                     \/ slot = NoSlot /\ \A i \in 1..MaxDisks : cache[i].name # Free
  <1> DEFINE own == {i \in 1..MaxDisks : cache[i].name = name}
             free == {i \in 1..MaxDisks : cache[i].name = Free}
             slot == disk_cache_slot(cache, name)
  <1>0. DOMAIN cache = 1..MaxDisks /\ MaxDisks \in Nat
    BY CollectorsAssumption DEF Caches
  <1>1. slot = IF own # {} THEN Min(own) ELSE IF free # {} THEN Min(free) ELSE NoSlot
    BY <1>0 DEF disk_cache_slot
  <1>2. ASSUME NEW s \in SUBSET (1..MaxDisks), s # {}, NEW x,
               \A i \in 1..MaxDisks : i \in s <=> cache[i].name = x
        PROVE  First(cache, x, Min(s))
    <2>1. Min(s) \in s /\ \A y \in s : Min(s) <= y
      BY <1>0, <1>2, MinIn
    <2>2. Min(s) \in 1..MaxDisks
      BY <2>1
    <2>3. \A j \in 1..MaxDisks : j < Min(s) => ~(Min(s) <= j)
      BY <1>0, <2>2, SMT
    <2> QED
      BY <1>2, <2>1, <2>2, <2>3 DEF First
  <1>3. CASE own # {}
    <2>1. First(cache, name, Min(own))
      <3>1. own \in SUBSET (1..MaxDisks) /\ \A i \in 1..MaxDisks : i \in own <=> cache[i].name = name
        OBVIOUS
      <3> HIDE DEF own
      <3> QED
        BY <1>2, <1>3, <3>1
    <2> QED
      BY <1>1, <1>3, <2>1
  <1>4. CASE own = {} /\ free # {}
    <2>1. First(cache, Free, Min(free))
      <3>1. free \in SUBSET (1..MaxDisks) /\ \A i \in 1..MaxDisks : i \in free <=> cache[i].name = Free
        OBVIOUS
      <3> HIDE DEF free
      <3> QED
        BY <1>2, <1>4, <3>1
    <2>2. slot = Min(free)
      BY <1>1, <1>4
    <2>3. \A i \in 1..MaxDisks : cache[i].name # name
      BY <1>4
    <2> QED
      BY <2>1, <2>2, <2>3
  <1>5. CASE own = {} /\ free = {}
    BY <1>1, <1>5
  <1> QED
    BY <1>3, <1>4, <1>5

\* The cache and the entry after a line that is reported.
Stored(cache, slot, line) ==
    [cache EXCEPT ![slot] = [name |-> CacheName(line.name),
                             zero |-> ZeroReading(cache[slot], line), span |-> 0]]

Skipped(out, line) ==
    \/ Len(out.entries) >= MaxDisks
    \/ line.name \in Partitions
    \/ disk_cache_slot(out.cache, line.name) = NoSlot

\* One line of /proc/diskstats.
LEMMA LineStep ==
    ASSUME NEW out, NEW line, NEW elapsed
    PROVE  LET slot == disk_cache_slot(out.cache, line.name)
           IN  DiskLine(out, line, elapsed) =
                 IF Skipped(out, line)
                   THEN out
                   ELSE [cache |-> Stored(out.cache, slot, line),
                         entries |-> Append(out.entries, EntryOf(out.cache[slot], line, elapsed))]
  BY DEF DiskLine, Skipped, Stored, EntryOf

\* What disk_collect computes for a line is an entry.
LEMMA EntryType ==
    ASSUME NEW cached \in CacheSlot, NEW line \in StatLine, NEW elapsed \in Int
    PROVE  EntryOf(cached, line, elapsed) \in DiskEntry
  BY SMT DEF DiskEntry

\* A cache and entries are what a turn of the loop starts from.
LEMMA OutType ==
    ASSUME NEW c \in Caches, NEW e \in Seq(DiskEntry)
    PROVE  [cache |-> c, entries |-> e] \in DiskOuts
  BY DEF DiskOuts

\* A turn of the loop of disk_collect leaves a cache and entries.
LEMMA LineType ==
    ASSUME NEW out \in DiskOuts, NEW line \in StatLine, NEW elapsed \in Int,
           CacheName(line.name) \in STRING
    PROVE  DiskLine(out, line, elapsed) \in DiskOuts
  <1> DEFINE slot == disk_cache_slot(out.cache, line.name)
  <1>1. CASE Skipped(out, line)
    BY <1>1, LineStep
  <1>2. CASE ~Skipped(out, line)
    <2>1. out.cache \in Caches /\ out.entries \in Seq(DiskEntry)
      BY DEF DiskOuts
    <2>2. slot \in 1..MaxDisks
      BY <1>2, <2>1, SlotOf DEF Skipped, First
    <2> HIDE DEF slot
    <2> DEFINE cached == out.cache[slot]
    <2>3. cached \in CacheSlot
      BY <2>1, <2>2 DEF Caches
    <2>4. cached.zero \in BOOLEAN /\ cached.span \in Int
      BY <2>3 DEF CacheSlot
    <2>5. line.zero \in BOOLEAN /\ line.change \in Int /\ line.name \in STRING
      BY DEF StatLine
    <2> HIDE DEF cached
    <2>6. ZeroReading(cached, line) \in BOOLEAN
      BY <2>4, <2>5 DEF ZeroReading
    <2>7. [name |-> CacheName(line.name), zero |-> ZeroReading(cached, line), span |-> 0] \in CacheSlot
      <3>1. 0 \in Int
        BY SMT
      <3> QED
        BY <2>6, <3>1 DEF CacheSlot, SlotName
    <2>8. Stored(out.cache, slot, line) \in Caches
      BY <2>1, <2>7 DEF Stored, Caches, cached
    <2>9. EntryOf(cached, line, elapsed) \in DiskEntry
      BY <2>3, EntryType
    <2>10. Append(out.entries, EntryOf(cached, line, elapsed)) \in Seq(DiskEntry)
      BY <2>1, <2>9, SMT
    <2>11. DiskLine(out, line, elapsed) =
              [cache |-> Stored(out.cache, slot, line),
               entries |-> Append(out.entries, EntryOf(cached, line, elapsed))]
      BY <1>2, LineStep DEF slot, cached
    <2> QED
      BY <2>8, <2>10, <2>11, OutType
  <1> QED
    BY <1>1, <1>2

\* The fold of disk_collect, as a function of the set of places of the lines read so far.
DiskFolds(lines, base, elapsed) ==
    CHOOSE g : g = [s \in SUBSET DOMAIN lines |->
                       IF s = {} THEN base
                       ELSE DiskLine(g[s \ {Max(s)}], lines[Max(s)], elapsed)]

\* The loop of disk_collect, turn by turn.
LEMMA DiskLoop ==
    ASSUME NEW lines \in Listings, NEW base \in DiskOuts, NEW elapsed \in Int
    PROVE  \E outs :
              /\ outs[0] = base
              /\ \A k \in 1..Len(lines) : outs[k] = DiskLine(outs[k - 1], lines[k], elapsed)
              /\ ForEach(LAMBDA o, line : DiskLine(o, line, elapsed), base, lines) = outs[Len(lines)]
  <1> DEFINE n == Len(lines)
             step == [i \in 1..n |-> [o \in DiskOuts |-> DiskLine(o, lines[i], elapsed)]]
  <1>1. n \in Nat /\ DOMAIN lines = 1..n /\ \A i \in 1..n : lines[i] \in StatLine
    <2>1. lines \in Seq(StatLine)
      BY ListingsAssumption DEF StatLine
    <2> QED
      BY <2>1, SMT
  <1>2. \A i \in 1..n : CacheName(lines[i].name) \in STRING
    BY <1>1, ListingsAssumption
  <1>3. \A i \in 1..n : \A o \in DiskOuts : DiskLine(o, lines[i], elapsed) \in DiskOuts
    BY <1>1, <1>2, LineType
  <1>4. step \in [1..n -> [DiskOuts -> DiskOuts]]
    BY <1>3
  <1>5. PICK g \in [SUBSET (1..n) -> DiskOuts] :
           SeqFoldOf(g, n, base, step)
    <2> HIDE DEF step, n
    <2> QED
      BY <1>1, <1>4, SeqFoldExists
  <1> HIDE DEF n
  <1>f. \A s \in SUBSET (1..n) : g[s] = IF s = {} THEN base ELSE step[Max(s)][g[s \ {Max(s)}]]
    BY <1>5 DEF SeqFoldOf
  <1>6. ASSUME NEW s \in SUBSET (1..n)
        PROVE  g[s] = IF s = {} THEN base ELSE DiskLine(g[s \ {Max(s)}], lines[Max(s)], elapsed)
    <2>1. CASE s = {}
      BY <1>f, <2>1
    <2>2. CASE s # {}
      <3>1. g[s] = step[Max(s)][g[s \ {Max(s)}]]
        BY <1>f, <2>2
      <3>2. Max(s) \in s
        BY <1>1, <2>2, MaxIn
      <3>3. Max(s) \in 1..n /\ g[s \ {Max(s)}] \in DiskOuts
        BY <3>2
      <3> QED
        BY <2>2, <3>1, <3>3
    <2> QED
      BY <2>1, <2>2
  <1>7. g = [s \in SUBSET DOMAIN lines |->
                IF s = {} THEN base ELSE DiskLine(g[s \ {Max(s)}], lines[Max(s)], elapsed)]
    BY <1>1, <1>6
  <1> DEFINE F == DiskFolds(lines, base, elapsed)
  <1>8. F = [s \in SUBSET DOMAIN lines |->
                IF s = {} THEN base ELSE DiskLine(F[s \ {Max(s)}], lines[Max(s)], elapsed)]
    BY <1>7 DEF DiskFolds
  <1>9. ForEach(LAMBDA o, line : DiskLine(o, line, elapsed), base, lines) = F[DOMAIN lines]
    BY DEF ForEach, MapThenFoldSet, DiskFolds
  <1> HIDE DEF F
  <1>10. \A s \in SUBSET (1..n) :
            F[s] = IF s = {} THEN base ELSE DiskLine(F[s \ {Max(s)}], lines[Max(s)], elapsed)
    BY <1>1, <1>8
  <1> DEFINE outs == [k \in 0..n |-> F[1..k]]
  <1>11. 0 \in 0..n /\ n \in 0..n /\ 1..0 = {} /\ {} \in SUBSET (1..n)
    BY <1>1, SMT
  <1>12. outs[0] = base
    BY <1>10, <1>11
  <1>13. ASSUME NEW k \in 1..n
         PROVE  outs[k] = DiskLine(outs[k - 1], lines[k], elapsed)
    <2>1. k \in 0..n /\ k - 1 \in 0..n
      BY <1>1, SMT
    <2>2. /\ Max(1..k) = k /\ (1..k) \ {k} = 1..(k - 1)
          /\ 1..k # {} /\ 1..k \in SUBSET (1..n)
      BY <1>1, MaxPrefix
    <2>3. F[1..k] = DiskLine(F[1..(k - 1)], lines[k], elapsed)
      BY <1>10, <2>2
    <2> QED
      BY <2>1, <2>3
  <1>14. outs[n] = F[DOMAIN lines]
    BY <1>1, <1>11
  <1> QED
    BY <1>9, <1>12, <1>13, <1>14 DEF n

\* A name of /proc/diskstats.
Listed(name) ==
    /\ name # Free /\ CacheName(name) \in STRING \ {Free}
    /\ CacheName(CacheName(name)) = CacheName(name)

\* The slots are used from the first one on, a free one holds no reading, and the
\* names are as strncpy left them.
Packed(cache) ==
    /\ cache \in Caches
    /\ \A i, j \in 1..MaxDisks : i < j /\ cache[i].name = Free => cache[j].name = Free
    /\ \A i \in 1..MaxDisks : cache[i].name = Free => cache[i].zero = TRUE
    /\ \A i \in 1..MaxDisks : cache[i].name # Free => CacheName(cache[i].name) = cache[i].name

\* The reading disk_cache_slot finds for disk d is so many samples old.
Owned(cache, d, span) == \E i \in 1..MaxDisks : First(cache, d, i) /\ cache[i].span = span

\* The slot of a name is unique.
LEMMA FirstUnique ==
    ASSUME NEW cache, NEW d, NEW i, NEW j, First(cache, d, i), First(cache, d, j)
    PROVE  i = j
  <1>1. i \in 1..MaxDisks /\ j \in 1..MaxDisks /\ ~(i < j) /\ ~(j < i)
    BY DEF First
  <1> QED
    BY <1>1, CollectorsAssumption, SMT

\* What storing a line in the slot found for it does to the cache.
StoredWell(cache, line, slot, c2) ==
    /\ slot \in 1..MaxDisks
    /\ Packed(c2)
    /\ \A d, i : d # line.name /\ d # Free /\ First(cache, d, i)
                     => First(c2, d, i) /\ c2[i] = cache[i]
    /\ CacheName(line.name) = line.name => First(c2, line.name, slot) /\ c2[slot].span = 0
    /\ CacheName(line.name) # line.name => cache[slot].zero = TRUE
    /\ \A i : First(cache, line.name, i) => i = slot
    /\ cache[slot].name = line.name \/ \A i \in 1..MaxDisks : cache[i].name # line.name
    /\ c2[slot].name = CacheName(line.name) /\ \A i \in 1..MaxDisks : i # slot => c2[i] = cache[i]

\* Storing a line in the slot disk_cache_slot found disturbs no other disk.
LEMMA StoreStep ==
    ASSUME NEW cache, Packed(cache), NEW line \in StatLine, Listed(line.name),
           NEW slot, slot = disk_cache_slot(cache, line.name), slot # NoSlot,
           NEW c2, c2 = Stored(cache, slot, line), c2 \in Caches
    PROVE  StoredWell(cache, line, slot, c2)
  <1> DEFINE nm == line.name
  <1>0. cache \in Caches /\ MaxDisks \in Nat
    BY CollectorsAssumption DEF Packed
  <1>1. \/ First(cache, nm, slot)
        \/ First(cache, Free, slot) /\ \A i \in 1..MaxDisks : cache[i].name # nm
    BY <1>0, SlotOf
  <1>2. slot \in 1..MaxDisks
    BY <1>1 DEF First
  <1>3. DOMAIN cache = 1..MaxDisks
    BY <1>0 DEF Caches
  <1>4. /\ c2[slot] = [name |-> CacheName(nm), zero |-> ZeroReading(cache[slot], line), span |-> 0]
        /\ \A i \in 1..MaxDisks : i # slot => c2[i] = cache[i]
    <2> DEFINE new == [name |-> CacheName(nm), zero |-> ZeroReading(cache[slot], line), span |-> 0]
    <2>1. c2 = [cache EXCEPT ![slot] = new]
      BY DEF Stored
    <2> HIDE DEF new
    <2>2. c2[slot] = new /\ \A i \in 1..MaxDisks : i # slot => c2[i] = cache[i]
      BY <1>2, <1>3, <2>1
    <2> QED
      BY <2>2 DEF new
  <1>5. c2[slot].name = CacheName(nm) /\ c2[slot].span = 0
    <2> DEFINE new == [name |-> CacheName(nm), zero |-> ZeroReading(cache[slot], line), span |-> 0]
    <2>1. new.name = CacheName(nm) /\ new.span = 0
      OBVIOUS
    <2>2. c2[slot] = new
      BY <1>4
    <2> HIDE DEF new
    <2> QED
      BY <2>1, <2>2
  <1>6. CacheName(nm) # Free /\ nm # Free /\ CacheName(CacheName(nm)) = CacheName(nm)
    BY DEF Listed
  <1>7. First(cache, nm, slot) => CacheName(nm) = nm
    BY <1>6 DEF Packed, First
  <1>8. \A i, j \in 1..MaxDisks : i < j \/ j < i \/ i = j
    BY <1>0, SMT
  <1> HIDE DEF nm
  <1>9. Packed(c2)
    <2>1. ASSUME NEW i \in 1..MaxDisks, NEW j \in 1..MaxDisks, i < j, c2[i].name = Free
          PROVE  c2[j].name = Free
      <3>1. i # slot /\ cache[i].name = Free
        BY <1>4, <1>5, <1>6, <2>1
      <3>2. cache[j].name = Free
        BY <2>1, <3>1 DEF Packed
      <3>3. j # slot
        <4>1. SUFFICES ASSUME j = slot PROVE FALSE
          OBVIOUS
        <4>2. First(cache, Free, slot)
          BY <1>1, <1>6, <3>2, <4>1 DEF First
        <4> QED
          BY <2>1, <3>1, <4>1, <4>2 DEF First
      <3> QED
        BY <1>4, <3>2, <3>3
    <2>2. ASSUME NEW i \in 1..MaxDisks, c2[i].name = Free
          PROVE  c2[i].zero = TRUE
      <3>1. i # slot /\ c2[i] = cache[i]
        BY <1>4, <1>5, <1>6, <2>2
      <3>2. cache[i].name = Free
        BY <2>2, <3>1
      <3>3. cache[i].zero = TRUE
        BY <3>2 DEF Packed
      <3> QED
        BY <3>1, <3>3
    <2>3. ASSUME NEW i \in 1..MaxDisks, c2[i].name # Free
          PROVE  CacheName(c2[i].name) = c2[i].name
      <3>1. CASE i = slot
        BY <1>5, <1>6, <3>1
      <3>2. CASE i # slot
        <4>1. c2[i] = cache[i] /\ cache[i].name # Free
          BY <1>4, <2>3, <3>2
        <4> QED
          BY <4>1 DEF Packed
      <3> QED
        BY <3>1, <3>2
    <2> QED
      BY <2>1, <2>2, <2>3 DEF Packed
  <1>10. ASSUME NEW d, NEW i, d # nm, d # Free, First(cache, d, i)
         PROVE  First(c2, d, i) /\ c2[i] = cache[i]
    <2>1. i \in 1..MaxDisks /\ cache[i].name = d
      BY <1>10 DEF First
    <2>2. i # slot
      BY <1>1, <1>10, <2>1 DEF First
    <2>3. c2[i] = cache[i]
      BY <1>4, <2>1, <2>2
    <2>4. ASSUME NEW j \in 1..MaxDisks, j < i PROVE c2[j].name # d
      <3>1. CASE j # slot
        BY <1>4, <1>10, <2>4, <3>1 DEF First
      <3>2. CASE j = slot /\ First(cache, nm, slot)
        BY <1>5, <1>7, <1>10, <3>2
      <3>3. CASE j = slot /\ First(cache, Free, slot)
        BY <1>2, <1>10, <2>1, <2>4, <3>3 DEF First, Packed
      <3> QED
        BY <1>1, <3>1, <3>2, <3>3
    <2> QED
      BY <2>1, <2>3, <2>4 DEF First
  <1>11. CacheName(nm) = nm => First(c2, nm, slot)
    <2>1. SUFFICES ASSUME CacheName(nm) = nm PROVE First(c2, nm, slot)
      OBVIOUS
    <2>2. ASSUME NEW j \in 1..MaxDisks, j < slot PROVE c2[j].name # nm
      <3>1. j # slot
        BY <1>2, <2>2, <1>0, SMT
      <3>2. cache[j].name # nm
        BY <1>1, <2>2 DEF First
      <3> QED
        BY <1>4, <3>1, <3>2
    <2> QED
      BY <1>2, <1>5, <2>1, <2>2 DEF First
  <1>12. CacheName(nm) # nm => cache[slot].zero = TRUE
    BY <1>1, <1>2, <1>7 DEF First, Packed
  <1>13. ASSUME NEW i, First(cache, nm, i) PROVE i = slot
    <2>1. First(cache, nm, slot)
      BY <1>1, <1>13 DEF First
    <2> QED
      BY <1>13, <2>1, FirstUnique
  <1>14. cache[slot].name = nm \/ \A i \in 1..MaxDisks : cache[i].name # nm
    BY <1>1 DEF First
  <1> QED
    BY <1>2, <1>4, <1>5, <1>9, <1>10, <1>11, <1>12, <1>13, <1>14 DEF nm, StoredWell

\* An entry compared with an earlier reading carries the change of the counters.
LEMMA EntryDelta ==
    ASSUME NEW e \in DiskEntry, e.have_prev, e.change \in 0..(U32Mod - 1)
    PROVE  e.delta = e.change
  <1>1. PICK cached \in CacheSlot, line \in StatLine, elapsed \in Int :
           e = EntryOf(cached, line, elapsed)
    BY SMT DEF DiskEntry
  <1>2. e.have_prev = ~cached.zero
    BY <1>1 DEF EntryOf
  <1>3. ~cached.zero
    BY <1>2
  <1>4. e.delta = Word(line.change) % U32Mod /\ e.change = line.change
    BY <1>1, <1>3 DEF EntryOf
  <1>5. e.change \in Nat /\ e.change < U32Mod /\ e.change < WordMod /\ U32Mod \in Nat /\ WordMod \in Nat
    BY CollectorsAssumption, SMT
  <1>6. Word(e.change) = e.change
    BY <1>5, SmallMod DEF Word
  <1>7. e.change % U32Mod = e.change
    BY <1>5, SmallMod
  <1> QED
    BY <1>4, <1>6, <1>7

\* One turn of the loop: the line is skipped, or stored and reported.
Turned(out, line, elapsed, next, slot) ==
    /\ next \in DiskOuts
    /\ Skipped(out, line) => next = out
    /\ ~Skipped(out, line) =>
          /\ slot # NoSlot
          /\ next.cache = Stored(out.cache, slot, line) /\ next.cache \in Caches
          /\ next.entries = Append(out.entries, EntryOf(out.cache[slot], line, elapsed))
          /\ EntryOf(out.cache[slot], line, elapsed) \in DiskEntry

\* A turn of the loop skips the line, or stores it and appends its entry.
LEMMA Turn ==
    ASSUME NEW out \in DiskOuts, Packed(out.cache), NEW line \in StatLine, Listed(line.name),
           NEW elapsed \in Int, NEW next, next = DiskLine(out, line, elapsed),
           NEW slot, slot = disk_cache_slot(out.cache, line.name)
    PROVE  Turned(out, line, elapsed, next, slot)
  <1>1. CacheName(line.name) \in STRING
    BY DEF Listed
  <1>2. next \in DiskOuts
    BY <1>1, LineType
  <1>3. next.cache \in Caches
    BY <1>2 DEF DiskOuts
  <1>4. Skipped(out, line) => next = out
    BY LineStep
  <1>5. ASSUME ~Skipped(out, line)
        PROVE  /\ slot # NoSlot
               /\ next.cache = Stored(out.cache, slot, line)
               /\ next.entries = Append(out.entries, EntryOf(out.cache[slot], line, elapsed))
               /\ EntryOf(out.cache[slot], line, elapsed) \in DiskEntry
    <2>1. slot # NoSlot
      BY <1>5 DEF Skipped
    <2>2. out.cache \in Caches
      BY DEF Packed
    <2>3. slot \in 1..MaxDisks
      BY <2>1, <2>2, SlotOf DEF First
    <2>4. out.cache[slot] \in CacheSlot
      BY <2>2, <2>3 DEF Caches
    <2>5. next = [cache |-> Stored(out.cache, slot, line),
                  entries |-> Append(out.entries, EntryOf(out.cache[slot], line, elapsed))]
      BY <1>5, LineStep
    <2> DEFINE c == Stored(out.cache, slot, line)
               e == Append(out.entries, EntryOf(out.cache[slot], line, elapsed))
    <2>6. next = [cache |-> c, entries |-> e]
      BY <2>5
    <2>7. EntryOf(out.cache[slot], line, elapsed) \in DiskEntry
      BY <2>4, EntryType
    <2> HIDE DEF c, e
    <2>8. next.cache = c /\ next.entries = e
      BY <2>6, SMT
    <2> QED
      BY <2>1, <2>7, <2>8 DEF c, e
  <1> QED
    BY <1>2, <1>3, <1>4, <1>5 DEF Turned

\* What holds of an entry: it is that of one of the first k lines; the reading it was
\* compared with is as old as the last sample, for the disks of the listing before; and
\* the cache now holds the reading of this sample.
EntryTrue(e, cache, lines, k, elapsed, before, time) ==
    /\ \E j \in 1..k : lines[j].name = e.of
    /\ e.elapsed = elapsed
    /\ e.have_prev => CacheName(e.of) = e.of
    /\ e.of \in before /\ e.have_prev => e.span = time
    /\ CacheName(e.of) = e.of => Owned(cache, e.of, 0)

RatesSoFar(out, lines, k, elapsed, before, time) ==
    /\ out \in DiskOuts /\ Packed(out.cache)
    /\ \A i \in DOMAIN out.entries :
          EntryTrue(out.entries[i], out.cache, lines, k, elapsed, before, time)
    /\ \A d \in before : CacheName(d) = d /\ (\A j \in 1..k : lines[j].name # d)
                            => Owned(out.cache, d, time)

\* A turn of the loop keeps every entry measured from the disk's own last reading.
LEMMA RatesTurn ==
    ASSUME NEW lines \in Listings, NEW k \in 1..Len(lines), NEW elapsed \in Int,
           NEW before, Free \notin before, NEW time, NEW out, NEW next,
           RatesSoFar(out, lines, k - 1, elapsed, before, time),
           next = DiskLine(out, lines[k], elapsed)
    PROVE  RatesSoFar(next, lines, k, elapsed, before, time)
  <1> DEFINE line == lines[k]
             slot == disk_cache_slot(out.cache, line.name)
             new == EntryOf(out.cache[slot], line, elapsed)
  <1>1. /\ Len(lines) \in Nat /\ DOMAIN lines = 1..Len(lines) /\ line \in StatLine
    <2>1. lines \in Seq(StatLine)
      BY ListingsAssumption DEF StatLine
    <2> QED
      BY <2>1, SMT
  <1>2. \A j \in 1..Len(lines) : Listed(lines[j].name)
    BY <1>1, ListingsAssumption DEF Listed
  <1>3. /\ \A j \in 1..(k - 1) : j \in 1..k /\ j \in 1..Len(lines) /\ j # k
        /\ k \in 1..k /\ \A j \in 1..k : j = k \/ j \in 1..(k - 1)
    BY <1>1, SMT
  <1>4. \A j \in 1..(k - 1) : lines[j].name # line.name
    BY <1>1, <1>3, ListingsAssumption
  <1>5. out \in DiskOuts /\ Packed(out.cache) /\ Listed(line.name)
    BY <1>2 DEF RatesSoFar
  <1>6. Turned(out, line, elapsed, next, slot)
    <2>1. next = DiskLine(out, line, elapsed) /\ slot = disk_cache_slot(out.cache, line.name)
      OBVIOUS
    <2> HIDE DEF line, slot
    <2> QED
      BY <1>1, <1>5, <2>1, Turn
  <1> HIDE DEF slot
  <1>7. CASE Skipped(out, line)
    <2>1. ASSUME NEW i \in DOMAIN out.entries
          PROVE  EntryTrue(out.entries[i], out.cache, lines, k, elapsed, before, time)
      BY <1>3 DEF RatesSoFar, EntryTrue
    <2>2. \A d \in before : CacheName(d) = d /\ (\A j \in 1..k : lines[j].name # d)
                               => Owned(out.cache, d, time)
      BY <1>3 DEF RatesSoFar
    <2> QED
      BY <1>5, <1>6, <1>7, <2>1, <2>2 DEF RatesSoFar, Turned
  <1>8. CASE ~Skipped(out, line)
    <2> DEFINE c2 == next.cache
    <2>1. /\ slot # NoSlot /\ c2 = Stored(out.cache, slot, line) /\ c2 \in Caches
          /\ next.entries = Append(out.entries, new) /\ new \in DiskEntry
      BY <1>6, <1>8 DEF Turned
    <2> HIDE DEF c2
    <2>2. StoredWell(out.cache, line, slot, c2)
      <3>1. slot = disk_cache_slot(out.cache, line.name)
        BY DEF slot
      <3> HIDE DEF line, new
      <3> QED
        BY <1>1, <1>5, <2>1, <3>1, StoreStep
    <2>3. ASSUME NEW d, NEW s, d # line.name, d # Free, Owned(out.cache, d, s)
          PROVE  Owned(c2, d, s)
      <3>1. PICK i \in 1..MaxDisks : First(out.cache, d, i) /\ out.cache[i].span = s
        BY <2>3 DEF Owned
      <3>2. First(c2, d, i) /\ c2[i] = out.cache[i]
        BY <2>2, <2>3, <3>1 DEF StoredWell
      <3> QED
        BY <3>1, <3>2 DEF Owned
    <2>4. CacheName(line.name) = line.name => Owned(c2, line.name, 0)
      BY <2>2 DEF Owned, StoredWell
    <2>5. new.of = line.name /\ new.elapsed = elapsed /\ new.span = out.cache[slot].span
      BY DEF EntryOf
    <2>6. out.cache[slot].zero = TRUE => ~new.have_prev
      <3>1. new.have_prev = ~out.cache[slot].zero
        BY DEF EntryOf
      <3> HIDE DEF new
      <3> QED
        BY <3>1
    <2> HIDE DEF new
    <2>7. EntryTrue(new, c2, lines, k, elapsed, before, time)
      <3>0. new.have_prev => CacheName(line.name) = line.name
        BY <2>2, <2>6 DEF StoredWell
      <3>1. ASSUME new.of \in before, new.have_prev PROVE new.span = time
        <4>1. CacheName(line.name) = line.name
          BY <3>0, <3>1
        <4>2. Owned(out.cache, line.name, time)
          BY <1>4, <2>5, <3>1, <4>1 DEF RatesSoFar
        <4>3. PICK i \in 1..MaxDisks : First(out.cache, line.name, i) /\ out.cache[i].span = time
          BY <4>2 DEF Owned
        <4>4. i = slot
          BY <2>2, <4>3 DEF StoredWell
        <4> QED
          BY <2>5, <4>3, <4>4
      <3> QED
        BY <1>3, <2>4, <2>5, <3>0, <3>1 DEF EntryTrue
    <2>8. ASSUME NEW i \in DOMAIN out.entries
          PROVE  EntryTrue(out.entries[i], c2, lines, k, elapsed, before, time)
      <3> DEFINE e == out.entries[i]
      <3>1. EntryTrue(e, out.cache, lines, k - 1, elapsed, before, time)
        BY DEF RatesSoFar
      <3> HIDE DEF e
      <3>2. PICK j \in 1..(k - 1) : lines[j].name = e.of
        BY <3>1 DEF EntryTrue
      <3>3. e.of # line.name /\ e.of # Free
        BY <1>2, <1>3, <1>4, <3>2 DEF Listed
      <3>4. CacheName(e.of) = e.of => Owned(c2, e.of, 0)
        BY <2>3, <3>1, <3>3 DEF EntryTrue
      <3> QED
        BY <1>3, <3>1, <3>2, <3>4 DEF EntryTrue, e
    <2>9. out.entries \in Seq(DiskEntry)
      BY <1>5 DEF DiskOuts
    <2>10. \A i \in DOMAIN next.entries :
              next.entries[i] = new \/ (i \in DOMAIN out.entries /\ next.entries[i] = out.entries[i])
      <3>1. Longer(next.entries, out.entries, new)
        BY <2>1, <2>9, Appended
      <3> QED
        BY <3>1 DEF Longer
    <2>11. \A i \in DOMAIN next.entries :
              EntryTrue(next.entries[i], c2, lines, k, elapsed, before, time)
      BY <2>7, <2>8, <2>10
    <2>12. ASSUME NEW d \in before, CacheName(d) = d, \A j \in 1..k : lines[j].name # d
           PROVE  Owned(c2, d, time)
      <3>1. Owned(out.cache, d, time) /\ d # line.name /\ d # Free
        BY <1>3, <2>12 DEF RatesSoFar
      <3> QED
        BY <2>3, <3>1
    <2> QED
      BY <1>6, <2>2, <2>11, <2>12 DEF RatesSoFar, c2, Turned, StoredWell
  <1> QED
    BY <1>7, <1>8

\* So does the loop, by induction on the lines.
LEMMA RatesLoop ==
    ASSUME NEW lines \in Listings, NEW cache, Packed(cache), NEW elapsed \in Int,
           NEW before, Free \notin before, NEW time,
           \A d \in before : CacheName(d) = d => Owned(cache, d, time),
           NEW outs, outs[0] = [cache |-> cache, entries |-> <<>>],
           \A k \in 1..Len(lines) : outs[k] = DiskLine(outs[k - 1], lines[k], elapsed)
    PROVE  RatesSoFar(outs[Len(lines)], lines, Len(lines), elapsed, before, time)
  <1> DEFINE n == Len(lines)
             P == {k \in Nat : k <= n => RatesSoFar(outs[k], lines, k, elapsed, before, time)}
  <1>0. n \in Nat
    <2>1. lines \in Seq(StatLine)
      BY ListingsAssumption DEF StatLine
    <2> QED
      BY <2>1, SMT
  <1>1. 0 \in P
    <2>1. outs[0].cache = cache /\ outs[0].entries = <<>>
      <3>1. outs[0] = [cache |-> cache, entries |-> <<>>]
        OBVIOUS
      <3> HIDE DEF P
      <3> QED
        BY ONLY <3>1
    <2>2. outs[0] \in DiskOuts
      <3>1. cache \in Caches
        BY DEF Packed
      <3>2. <<>> \in Seq(DiskEntry)
        BY SMT
      <3> QED
        BY <3>1, <3>2, OutType
    <2>3. DOMAIN outs[0].entries = {}
      BY <2>1, SMT
    <2>4. 0 \in Nat
      OBVIOUS
    <2> QED
      BY <2>1, <2>2, <2>3, <2>4 DEF RatesSoFar
  <1>2. ASSUME NEW k \in P PROVE k + 1 \in P
    <2>1. k \in Nat /\ k + 1 \in Nat /\ (k + 1) - 1 = k
      BY SMT
    <2>2. CASE k + 1 <= n
      <3>1. k <= n /\ k + 1 \in 1..n
        BY <1>0, <2>1, <2>2, SMT
      <3>2. RatesSoFar(outs[k], lines, (k + 1) - 1, elapsed, before, time)
        BY <2>1, <3>1
      <3>3. outs[k + 1] = DiskLine(outs[k], lines[k + 1], elapsed)
        BY <2>1, <3>1
      <3>4. RatesSoFar(outs[k + 1], lines, k + 1, elapsed, before, time)
        BY <3>1, <3>2, <3>3, RatesTurn
      <3> QED
        BY <2>1, <3>4
    <2>3. CASE ~(k + 1 <= n)
      BY <2>1, <2>3
    <2> QED
      BY <2>2, <2>3
  <1>3. P = Nat
    <2>1. P \in SUBSET Nat
      OBVIOUS
    <2> HIDE DEF P
    <2> QED
      BY <1>1, <1>2, <2>1, NatSetInduction
  <1>4. n <= n
    BY <1>0, SMT
  <1> QED
    BY <1>0, <1>3, <1>4

\* A listing names finitely many disks.
LEMMA FiniteListing ==
    ASSUME NEW lines \in Listings
    PROVE  IsFiniteSet(Whole(lines))
  <1> DEFINE n == Len(lines)
             T == {lines[i].name : i \in 1..n}
             f == [i \in 1..n |-> lines[i].name]
  <1>1. n \in Nat /\ DOMAIN lines = 1..n
    <2>1. lines \in Seq(StatLine)
      BY ListingsAssumption DEF StatLine
    <2> QED
      BY <2>1, SMT
  <1>2. IsFiniteSet(1..n)
    BY <1>1, FS_Interval, SMT
  <1>3. f \in Surjection(1..n, T)
    BY DEF Surjection
  <1>4. IsFiniteSet(T)
    <2> DEFINE S == 1..n
    <2>1. f \in Surjection(S, T) /\ IsFiniteSet(S)
      BY <1>2, <1>3
    <2> HIDE DEF S, T, f
    <2> QED
      BY <2>1, FS_Surjection
  <1>5. Whole(lines) = T \ Partitions
    BY <1>1 DEF Whole
  <1>6. Whole(lines) \in SUBSET T
    BY <1>5
  <1> QED
    BY <1>4, <1>6, FS_Subset

\* Every used slot belongs to a disk of this set, and no disk has two.
OneSlotEach(cache, ever) ==
    /\ \A i \in 1..MaxDisks : cache[i].name # Free => cache[i].name \in ever
    /\ \A i, j \in 1..MaxDisks : cache[i].name # Free /\ cache[i].name = cache[j].name => i = j

ReportedSoFar(out, lines, k, ever) ==
    /\ out \in DiskOuts /\ Packed(out.cache) /\ OneSlotEach(out.cache, ever)
    /\ \A i \in DOMAIN out.entries :
          out.entries[i].of \notin Partitions /\ \E j \in 1..k : lines[j].name = out.entries[i].of
    /\ \A j \in 1..k : lines[j].name \notin Partitions =>
          \E i \in DOMAIN out.entries : out.entries[i].of = lines[j].name
    /\ \A i, j \in DOMAIN out.entries : out.entries[i].of = out.entries[j].of => i = j

\* A turn of the loop reports its disk, for which there is always a slot.
LEMMA ReportedTurn ==
    ASSUME NEW lines \in Listings, NEW k \in 1..Len(lines), NEW elapsed \in Int,
           NEW ever, IsFiniteSet(ever), Cardinality(ever) <= MaxDisks,
           \A d \in ever : CacheName(d) = d, Whole(lines) \subseteq ever,
           NEW out, NEW next, ReportedSoFar(out, lines, k - 1, ever),
           next = DiskLine(out, lines[k], elapsed)
    PROVE  ReportedSoFar(next, lines, k, ever)
  <1> DEFINE line == lines[k]
             slot == disk_cache_slot(out.cache, line.name)
             new == EntryOf(out.cache[slot], line, elapsed)
  <1>1. /\ Len(lines) \in Nat /\ DOMAIN lines = 1..Len(lines) /\ line \in StatLine
    <2>1. lines \in Seq(StatLine)
      BY ListingsAssumption DEF StatLine
    <2> QED
      BY <2>1, SMT
  <1>2. \A j \in 1..Len(lines) : Listed(lines[j].name)
    BY <1>1, ListingsAssumption DEF Listed
  <1>3. /\ \A j \in 1..(k - 1) : j \in 1..k /\ j \in 1..Len(lines) /\ j # k
        /\ k \in 1..k /\ \A j \in 1..k : j = k \/ j \in 1..(k - 1)
    BY <1>1, SMT
  <1>4. \A j \in 1..(k - 1) : lines[j].name # line.name
    BY <1>1, <1>3, ListingsAssumption
  <1>5. out \in DiskOuts /\ Packed(out.cache) /\ Listed(line.name)
    BY <1>2 DEF ReportedSoFar
  <1>6. Turned(out, line, elapsed, next, slot)
    <2>1. next = DiskLine(out, line, elapsed) /\ slot = disk_cache_slot(out.cache, line.name)
      OBVIOUS
    <2> HIDE DEF line, slot
    <2> QED
      BY <1>1, <1>5, <2>1, Turn
  <1>7. \A j \in 1..Len(lines) : lines[j].name \notin Partitions => lines[j].name \in ever
    BY <1>1 DEF Whole
  <1>8. out.entries \in Seq(DiskEntry) /\ Len(out.entries) \in Nat /\ DOMAIN out.entries = 1..Len(out.entries)
    <2>1. out.entries \in Seq(DiskEntry)
      BY <1>5 DEF DiskOuts
    <2> QED
      BY <2>1, SMT
  <1>9. CASE line.name \in Partitions
    <2>1. next = out
      BY <1>6, <1>9 DEF Turned, Skipped
    <2>2. \A j \in 1..k : lines[j].name \notin Partitions => j \in 1..(k - 1)
      BY <1>3, <1>9
    <2> QED
      BY <1>3, <2>1, <2>2 DEF ReportedSoFar
  <1>10. CASE line.name \notin Partitions
    <2> HIDE DEF slot
    <2>1. line.name \in ever /\ CacheName(line.name) = line.name /\ line.name # Free
      BY <1>2, <1>7, <1>10 DEF Listed
    <2>2. MaxDisks \in Nat
      BY CollectorsAssumption
    <2>3. Len(out.entries) < MaxDisks
      <3> DEFINE n == Len(out.entries)
                 f == [i \in 1..n |-> out.entries[i].of]
      <3>1. ASSUME NEW i \in 1..n PROVE out.entries[i].of \in ever \ {line.name}
        <4>1. out.entries[i].of \notin Partitions
          BY <1>8 DEF ReportedSoFar
        <4>2. PICK j \in 1..(k - 1) : lines[j].name = out.entries[i].of
          BY <1>8 DEF ReportedSoFar
        <4> QED
          BY <1>3, <1>4, <1>7, <4>1, <4>2
      <3>2. f \in [1..n -> ever \ {line.name}]
        BY <3>1
      <3>3. \A i, j \in 1..n : f[i] = f[j] => i = j
        BY <1>8 DEF ReportedSoFar
      <3> HIDE DEF f, line, n
      <3>4. n \in Nat
        BY <1>8 DEF n
      <3>5. n < MaxDisks
        BY <2>1, <2>2, <3>2, <3>3, <3>4, FewerThan
      <3> QED
        BY <3>5 DEF n
    <2>4. slot # NoSlot
      <3> SUFFICES ASSUME slot = NoSlot PROVE FALSE
        OBVIOUS
      <3> DEFINE f == [i \in 1..MaxDisks |-> out.cache[i].name]
      <3>1. out.cache \in Caches /\ OneSlotEach(out.cache, ever)
        BY DEF ReportedSoFar, Packed
      <3>2. \A i \in 1..MaxDisks : out.cache[i].name # line.name /\ out.cache[i].name # Free
        <4>1. NoSlot \notin 1..MaxDisks
          BY SMT DEF NoSlot
        <4> QED
          BY <3>1, <4>1, SlotOf DEF slot, First
      <3>3. f \in [1..MaxDisks -> ever \ {line.name}]
        BY <3>1, <3>2 DEF OneSlotEach
      <3>4. \A i, j \in 1..MaxDisks : f[i] = f[j] => i = j
        BY <3>1, <3>2 DEF OneSlotEach
      <3> HIDE DEF f, line
      <3>5. MaxDisks < MaxDisks
        BY <2>1, <2>2, <3>3, <3>4, FewerThan
      <3> QED
        BY <2>2, <3>5, SMT
    <2>5. ~Skipped(out, line)
      <3>1. ~(Len(out.entries) >= MaxDisks)
        BY <1>8, <2>2, <2>3, SMT
      <3> QED
        BY <1>10, <2>4, <3>1 DEF Skipped, slot
    <2> DEFINE c2 == next.cache
    <2>6. /\ c2 = Stored(out.cache, slot, line) /\ c2 \in Caches
          /\ next.entries = Append(out.entries, new) /\ new \in DiskEntry
      BY <1>6, <2>5 DEF Turned
    <2>7. new.of = line.name
      BY DEF EntryOf
    <2> HIDE DEF c2, new
    <2>8. StoredWell(out.cache, line, slot, c2)
      <3>1. slot = disk_cache_slot(out.cache, line.name)
        BY DEF slot
      <3> HIDE DEF line
      <3> QED
        BY <1>1, <1>5, <2>4, <2>6, <3>1, StoreStep
    <2>9. Longer(next.entries, out.entries, new)
      BY <1>8, <2>6, Appended
    <2> HIDE DEF line
    <2>10. OneSlotEach(c2, ever)
      <3>1. OneSlotEach(out.cache, ever)
        BY DEF ReportedSoFar
      <3>2. slot \in 1..MaxDisks /\ c2[slot].name = line.name
        BY <2>1, <2>8 DEF StoredWell
      <3>3. \A i \in 1..MaxDisks : i # slot => c2[i] = out.cache[i] /\ c2[i].name # line.name
        <4>1. ASSUME NEW i \in 1..MaxDisks, i # slot PROVE out.cache[i].name # line.name
          BY <2>1, <2>8, <3>1, <3>2, <4>1 DEF StoredWell, OneSlotEach
        <4> QED
          BY <2>8, <4>1 DEF StoredWell
      <3>4. ASSUME NEW i \in 1..MaxDisks, c2[i].name # Free PROVE c2[i].name \in ever
        BY <2>1, <3>1, <3>2, <3>3, <3>4 DEF OneSlotEach
      <3>5. ASSUME NEW i \in 1..MaxDisks, NEW j \in 1..MaxDisks,
                   c2[i].name # Free, c2[i].name = c2[j].name
            PROVE  i = j
        <4>1. CASE i # slot /\ j # slot
          <5>1. out.cache[i].name # Free /\ out.cache[i].name = out.cache[j].name
            BY <3>3, <3>5, <4>1
          <5> QED
            BY <3>1, <5>1 DEF OneSlotEach
        <4>2. CASE i = slot \/ j = slot
          BY <3>2, <3>3, <3>5, <4>2
        <4> QED
          BY <4>1, <4>2
      <3> QED
        BY <3>4, <3>5 DEF OneSlotEach
    <2>11. ASSUME NEW i \in DOMAIN next.entries
           PROVE  /\ next.entries[i].of \notin Partitions
                  /\ \E j \in 1..k : lines[j].name = next.entries[i].of
      <3>1. CASE next.entries[i] = new
        BY <1>3, <1>10, <2>7, <3>1 DEF line
      <3>2. CASE i \in DOMAIN out.entries /\ next.entries[i] = out.entries[i]
        <4>1. /\ out.entries[i].of \notin Partitions
              /\ \E j \in 1..(k - 1) : lines[j].name = out.entries[i].of
          BY <3>2 DEF ReportedSoFar
        <4> QED
          BY <1>3, <3>2, <4>1
      <3> QED
        BY <2>9, <3>1, <3>2 DEF Longer
    <2>12. ASSUME NEW j \in 1..k, lines[j].name \notin Partitions
           PROVE  \E i \in DOMAIN next.entries : next.entries[i].of = lines[j].name
      <3>1. CASE j = k
        BY <2>7, <2>9, <3>1 DEF Longer, line
      <3>2. CASE j \in 1..(k - 1)
        <4>1. PICK i \in DOMAIN out.entries : out.entries[i].of = lines[j].name
          BY <2>12, <3>2 DEF ReportedSoFar
        <4> QED
          BY <2>9, <4>1 DEF Longer
      <3> QED
        BY <1>3, <3>1, <3>2
    <2>13. ASSUME NEW i \in DOMAIN out.entries PROVE out.entries[i].of # line.name
      <3>1. PICK j \in 1..(k - 1) : lines[j].name = out.entries[i].of
        BY DEF ReportedSoFar
      <3> QED
        BY <1>4, <3>1
    <2>14. ASSUME NEW i \in DOMAIN next.entries, NEW j \in DOMAIN next.entries,
                  next.entries[i].of = next.entries[j].of
           PROVE  i = j
      <3>1. \A l \in DOMAIN next.entries :
               \/ l = Len(out.entries) + 1 /\ next.entries[l].of = line.name
               \/ /\ l \in DOMAIN out.entries /\ next.entries[l].of = out.entries[l].of
                  /\ next.entries[l].of # line.name
        BY <2>7, <2>9, <2>13 DEF Longer
      <3>2. CASE next.entries[i].of = line.name
        BY <2>14, <3>1, <3>2
      <3>3. CASE next.entries[i].of # line.name
        <4>1. /\ i \in DOMAIN out.entries /\ j \in DOMAIN out.entries
              /\ out.entries[i].of = out.entries[j].of
          BY <2>14, <3>1, <3>3
        <4> QED
          BY <4>1 DEF ReportedSoFar
      <3> QED
        BY <3>2, <3>3
    <2> QED
      BY <1>6, <2>8, <2>10, <2>11, <2>12, <2>14 DEF ReportedSoFar, Turned, StoredWell, c2
  <1> QED
    BY <1>9, <1>10

\* So does the loop, by induction on the lines.
LEMMA ReportedLoop ==
    ASSUME NEW lines \in Listings, NEW cache, Packed(cache), NEW elapsed \in Int,
           NEW ever, IsFiniteSet(ever), Cardinality(ever) <= MaxDisks,
           \A d \in ever : CacheName(d) = d, Whole(lines) \subseteq ever, OneSlotEach(cache, ever),
           NEW outs, outs[0] = [cache |-> cache, entries |-> <<>>],
           \A k \in 1..Len(lines) : outs[k] = DiskLine(outs[k - 1], lines[k], elapsed)
    PROVE  ReportedSoFar(outs[Len(lines)], lines, Len(lines), ever)
  <1> DEFINE n == Len(lines)
             P == {k \in Nat : k <= n => ReportedSoFar(outs[k], lines, k, ever)}
  <1>0. n \in Nat
    <2>1. lines \in Seq(StatLine)
      BY ListingsAssumption DEF StatLine
    <2> QED
      BY <2>1, SMT
  <1>1. 0 \in P
    <2>1. outs[0].cache = cache /\ outs[0].entries = <<>>
      <3>1. outs[0] = [cache |-> cache, entries |-> <<>>]
        OBVIOUS
      <3> HIDE DEF P
      <3> QED
        BY ONLY <3>1
    <2>2. outs[0] \in DiskOuts
      <3>1. cache \in Caches
        BY DEF Packed
      <3>2. <<>> \in Seq(DiskEntry)
        BY SMT
      <3> QED
        BY <3>1, <3>2, OutType
    <2>3. DOMAIN outs[0].entries = {} /\ 1..0 = {}
      BY <2>1, SMT
    <2>4. 0 \in Nat
      OBVIOUS
    <2> QED
      BY <2>1, <2>2, <2>3, <2>4 DEF ReportedSoFar
  <1>2. ASSUME NEW k \in P PROVE k + 1 \in P
    <2>1. k \in Nat /\ k + 1 \in Nat /\ (k + 1) - 1 = k
      BY SMT
    <2>2. CASE k + 1 <= n
      <3>1. k <= n /\ k + 1 \in 1..n
        BY <1>0, <2>1, <2>2, SMT
      <3>2. ReportedSoFar(outs[k], lines, (k + 1) - 1, ever)
        BY <2>1, <3>1
      <3>3. outs[k + 1] = DiskLine(outs[k], lines[k + 1], elapsed)
        BY <2>1, <3>1
      <3>4. ReportedSoFar(outs[k + 1], lines, k + 1, ever)
        BY <3>1, <3>2, <3>3, ReportedTurn
      <3> QED
        BY <2>1, <3>4
    <2>3. CASE ~(k + 1 <= n)
      BY <2>1, <2>3
    <2> QED
      BY <2>2, <2>3
  <1>3. P = Nat
    <2>1. P \in SUBSET Nat
      OBVIOUS
    <2> HIDE DEF P
    <2> QED
      BY <1>1, <1>2, <2>1, NatSetInduction
  <1>4. n <= n
    BY <1>0, SMT
  <1> QED
    BY <1>0, <1>3, <1>4

Fits(ever) == Cardinality(ever) <= MaxDisks /\ \A d \in ever : CacheName(d) = d

\* The cache belongs to the listings met so far, and the readings of the last listing are
\* as old as last_sample_time.
Cached ==
    /\ disk.time \in Nat \cup {None} /\ Packed(disk.cache)
    /\ IsFiniteSet(met.ever) /\ Free \notin met.before
    /\ met.timed => \A d \in met.before :
          CacheName(d) = d => disk.time # None /\ Owned(disk.cache, d, disk.time)
    /\ Fits(met.ever) => OneSlotEach(disk.cache, met.ever)

DiskInv == Cached /\ DiskRatesTrue /\ DisksReported

\* The cache after disk_init.
LEMMA Emptied ==
    ASSUME NEW cache, cache = [i \in 1..MaxDisks |-> [name |-> Free, zero |-> TRUE, span |-> None]]
    PROVE  Packed(cache) /\ \A ever : OneSlotEach(cache, ever)
  <1>1. [name |-> Free, zero |-> TRUE, span |-> None] \in CacheSlot
    <2>1. Free \in SlotName
      BY DEF SlotName
    <2>2. None \in Int
      BY SMT DEF None
    <2> QED
      BY <2>1, <2>2 DEF CacheSlot
  <1>2. cache \in Caches
    BY <1>1 DEF Caches
  <1>3. \A i \in 1..MaxDisks : cache[i].name = Free /\ cache[i].zero = TRUE
    OBVIOUS
  <1> QED
    BY <1>2, <1>3 DEF Packed, OneSlotEach

\* An agent that has just started has met no disk.
LEMMA FreshDisks ==
    disk = disk_init /\ met = NothingMet /\ last = NoPayload => DiskInv
  <1> SUFFICES ASSUME disk = disk_init, met = NothingMet, last = NoPayload
               PROVE  DiskInv
    OBVIOUS
  <1>1. Packed(disk.cache) /\ \A ever : OneSlotEach(disk.cache, ever)
    <2>1. disk.cache = [i \in 1..MaxDisks |-> [name |-> Free, zero |-> TRUE, span |-> None]]
      BY DEF disk_init
    <2> QED
      BY <2>1, Emptied
  <1>2. disk.time = None /\ met.ever = {} /\ met.before = {}
    BY DEF disk_init, NothingMet
  <1>3. last.kind # "disk"
    BY DEF NoPayload
  <1>4. IsFiniteSet({})
    BY FS_EmptySet
  <1>5. disk.time \in Nat \cup {None}
    BY <1>2
  <1> QED
    BY <1>1, <1>2, <1>3, <1>4, <1>5 DEF DiskInv, Cached, DiskRatesTrue, DisksReported

\* The cache is in order when the agent starts.
LEMMA InitDisks == Init => DiskInv
  BY FreshDisks DEF Init

\* A step of another collector.
LEMMA OtherCollector ==
    ASSUME DiskInv, disk' = disk, met' = met, last'.kind # "disk"
    PROVE  DiskInv'
  <1>1. Cached'
    BY DEF DiskInv, Cached
  <1> QED
    BY <1>1 DEF DiskInv, DiskRatesTrue, DisksReported

\* The cache one sample later.
LEMMA Aged ==
    ASSUME NEW cache, Packed(cache),
           NEW c2, c2 = [i \in 1..MaxDisks |-> [cache[i] EXCEPT !.span = Older(@)]]
    PROVE  /\ Packed(c2)
           /\ \A d, s : Owned(cache, d, s) => Owned(c2, d, Older(s))
           /\ \A ever : OneSlotEach(cache, ever) => OneSlotEach(c2, ever)
  <1>1. cache \in Caches
    BY DEF Packed
  <1>2. ASSUME NEW i \in 1..MaxDisks
        PROVE  /\ c2[i] \in CacheSlot /\ c2[i].name = cache[i].name
               /\ c2[i].zero = cache[i].zero /\ c2[i].span = Older(cache[i].span)
    <2>1. cache[i] \in CacheSlot
      BY <1>1 DEF Caches
    <2>2. cache[i].span \in Int
      BY <2>1 DEF CacheSlot
    <2>3. Older(cache[i].span) \in Int
      BY <2>2, SMT DEF Older, None
    <2>4. c2[i] = [cache[i] EXCEPT !.span = Older(@)]
      OBVIOUS
    <2> QED
      BY <2>1, <2>3, <2>4 DEF CacheSlot
  <1>3. c2 \in Caches
    BY <1>2 DEF Caches
  <1>4. Packed(c2)
    <2>1. ASSUME NEW i \in 1..MaxDisks, NEW j \in 1..MaxDisks, i < j, c2[i].name = Free
          PROVE  c2[j].name = Free
      BY <1>2, <2>1 DEF Packed
    <2>2. ASSUME NEW i \in 1..MaxDisks, c2[i].name = Free PROVE c2[i].zero = TRUE
      <3>1. cache[i].zero = TRUE
        BY <1>2, <2>2 DEF Packed
      <3> QED
        BY <1>2, <3>1
    <2>3. ASSUME NEW i \in 1..MaxDisks, c2[i].name # Free
          PROVE  CacheName(c2[i].name) = c2[i].name
      BY <1>2, <2>3 DEF Packed
    <2> QED
      BY <1>3, <2>1, <2>2, <2>3 DEF Packed
  <1>5. ASSUME NEW d, NEW s, Owned(cache, d, s) PROVE Owned(c2, d, Older(s))
    <2>1. PICK i \in 1..MaxDisks : First(cache, d, i) /\ cache[i].span = s
      BY <1>5 DEF Owned
    <2>2. First(c2, d, i)
      BY <1>2, <2>1 DEF First
    <2>3. c2[i].span = Older(s)
      BY <1>2, <2>1
    <2> QED
      BY <2>2, <2>3 DEF Owned
  <1>6. ASSUME NEW ever, OneSlotEach(cache, ever) PROVE OneSlotEach(c2, ever)
    BY <1>2, <1>6 DEF OneSlotEach
  <1> QED
    BY <1>4, <1>5, <1>6

\* disk_collect reads a listing.
LEMMA DiskCollected ==
    ASSUME DiskInv, disk_collect
    PROVE  DiskInv'
  <1>1. PICK lines \in Listings, have_sample_time \in BOOLEAN :
           LET elapsed == IF have_sample_time /\ disk.time # None THEN disk.time ELSE 1
               out == ForEach(LAMBDA o, line : DiskLine(o, line, elapsed),
                              [cache |-> disk.cache, entries |-> <<>>], lines)
           IN  /\ disk' = [cache |-> out.cache,
                           time |-> IF have_sample_time THEN 0 ELSE disk.time]
               /\ last' = [kind |-> "disk", entries |-> out.entries, listed |-> Whole(lines),
                           before |-> met.before]
               /\ met' = [ever |-> met.ever \cup Whole(lines),
                          before |-> {out.entries[i].of : i \in DOMAIN out.entries},
                          timed |-> met.timed /\ have_sample_time]
    BY DEF disk_collect
  <1> DEFINE elapsed == IF have_sample_time /\ disk.time # None THEN disk.time ELSE 1
             base == [cache |-> disk.cache, entries |-> <<>>]
             out == ForEach(LAMBDA o, line : DiskLine(o, line, elapsed), base, lines)
             n == Len(lines)
             b == IF met.timed THEN met.before ELSE {}
             ever == met.ever \cup Whole(lines)
  <1>2. /\ disk' = [cache |-> out.cache, time |-> IF have_sample_time THEN 0 ELSE disk.time]
        /\ last' = [kind |-> "disk", entries |-> out.entries, listed |-> Whole(lines),
                    before |-> met.before]
        /\ met' = [ever |-> ever, before |-> {out.entries[i].of : i \in DOMAIN out.entries},
                   timed |-> met.timed /\ have_sample_time]
    BY <1>1
  <1>3. Packed(disk.cache) /\ disk.time \in Nat \cup {None}
    BY DEF DiskInv, Cached
  <1>4. elapsed \in Int
    BY <1>3, SMT DEF None
  <1>5. base \in DiskOuts
    <2>1. disk.cache \in Caches
      BY <1>3 DEF Packed
    <2>2. <<>> \in Seq(DiskEntry)
      BY SMT
    <2> QED
      BY <2>1, <2>2, OutType
  <1> HIDE DEF elapsed
  <1>6. PICK outs : /\ outs[0] = base
                    /\ \A k \in 1..n : outs[k] = DiskLine(outs[k - 1], lines[k], elapsed)
                    /\ out = outs[n]
    BY <1>4, <1>5, DiskLoop
  <1> HIDE DEF out
  <1>7. RatesSoFar(out, lines, n, elapsed, b, disk.time)
    <2>1. Free \notin b /\ \A d \in b : CacheName(d) = d => Owned(disk.cache, d, disk.time)
      BY DEF DiskInv, Cached
    <2> HIDE DEF b
    <2>2. RatesSoFar(outs[n], lines, n, elapsed, b, disk.time)
      BY <1>3, <1>4, <1>6, <2>1, RatesLoop
    <2> QED
      BY <1>6, <2>2
  <1>8. IsFiniteSet(ever)
    BY FiniteListing, FS_Union DEF DiskInv, Cached
  <1>9. Fits(ever) => ReportedSoFar(out, lines, n, ever)
    <2> SUFFICES ASSUME Fits(ever) PROVE ReportedSoFar(out, lines, n, ever)
      OBVIOUS
    <2>1. Fits(met.ever)
      <3>1. met.ever \in SUBSET ever
        OBVIOUS
      <3> HIDE DEF ever
      <3>2. Cardinality(met.ever) <= Cardinality(ever) /\ IsFiniteSet(met.ever)
        BY <1>8, <3>1, FS_Subset
      <3>3. Cardinality(met.ever) \in Nat /\ Cardinality(ever) \in Nat /\ MaxDisks \in Nat
        BY <1>8, <3>2, FS_CardinalityType, CollectorsAssumption
      <3>4. Cardinality(met.ever) <= MaxDisks
        BY <3>2, <3>3, SMT DEF Fits
      <3> QED
        BY <3>1, <3>4 DEF Fits
    <2>2. OneSlotEach(disk.cache, ever)
      <3>1. OneSlotEach(disk.cache, met.ever)
        BY <2>1 DEF DiskInv, Cached
      <3> QED
        BY <3>1 DEF OneSlotEach
    <2>3. Whole(lines) \subseteq ever
      OBVIOUS
    <2> HIDE DEF ever
    <2>4. ReportedSoFar(outs[n], lines, n, ever)
      BY <1>3, <1>4, <1>6, <1>8, <2>2, <2>3, ReportedLoop DEF Fits
    <2> QED
      BY <1>6, <2>4
  <1>10. n \in Nat /\ DOMAIN lines = 1..n
    <2>1. lines \in Seq(StatLine)
      BY ListingsAssumption DEF StatLine
    <2> QED
      BY <2>1, SMT
  <1> HIDE DEF b, ever, n
  <1>11. /\ disk'.cache = out.cache /\ disk'.time = IF have_sample_time THEN 0 ELSE disk.time
         /\ last'.entries = out.entries /\ last'.listed = Whole(lines) /\ last'.before = met.before
         /\ met'.ever = ever /\ met'.before = {out.entries[i].of : i \in DOMAIN out.entries}
         /\ met'.timed = (met.timed /\ have_sample_time)
    BY <1>2
  <1>12. met'.timed => met.timed /\ have_sample_time
    BY <1>11
  <1>13. \A i \in DOMAIN out.entries :
            EntryTrue(out.entries[i], out.cache, lines, n, elapsed, b, disk.time)
    BY <1>7 DEF RatesSoFar
  <1>14. Cached'
    <2>1. disk'.time \in Nat \cup {None}
      <3>1. 0 \in Nat
        OBVIOUS
      <3> QED
        BY <1>3, <1>11, <3>1
    <2>2. Packed(disk'.cache)
      BY <1>7, <1>11 DEF RatesSoFar
    <2>3. IsFiniteSet(met'.ever)
      BY <1>8, <1>11
    <2>4. Free \notin met'.before
      <3>1. ASSUME NEW i \in DOMAIN out.entries PROVE out.entries[i].of # Free
        <4>1. PICK j \in 1..n : lines[j].name = out.entries[i].of
          BY <1>13 DEF EntryTrue
        <4> QED
          BY <1>10, <4>1, ListingsAssumption
      <3> QED
        BY <1>11, <3>1
    <2>5. ASSUME met'.timed, NEW d \in met'.before, CacheName(d) = d
          PROVE  disk'.time # None /\ Owned(disk'.cache, d, disk'.time)
      <3>1. disk'.time = 0
        BY <1>11, <1>12, <2>5
      <3>2. 0 # None
        BY SMT DEF None
      <3>3. PICK i \in DOMAIN out.entries : out.entries[i].of = d
        BY <1>11, <2>5
      <3>4. Owned(out.cache, d, 0)
        BY <1>13, <2>5, <3>3 DEF EntryTrue
      <3> QED
        BY <1>11, <3>1, <3>2, <3>4
    <2>6. Fits(met'.ever) => OneSlotEach(disk'.cache, met'.ever)
      BY <1>9, <1>11 DEF ReportedSoFar
    <2> QED
      BY <2>1, <2>2, <2>3, <2>4, <2>5, <2>6 DEF Cached
  <1>15. DiskRatesTrue'
    <2>1. ASSUME met'.timed, NEW i \in DOMAIN last'.entries,
                 last'.entries[i].of \in last'.before, last'.entries[i].have_prev
          PROVE  /\ last'.entries[i].span = last'.entries[i].elapsed
                 /\ last'.entries[i].change \in 0..(U32Mod - 1)
                       => last'.entries[i].delta = last'.entries[i].change
      <3> DEFINE e == out.entries[i]
      <3>1. i \in DOMAIN out.entries /\ last'.entries[i] = e
        BY <1>11, <2>1
      <3>2. e.of \in met.before /\ e.have_prev
        BY <1>11, <2>1, <3>1
      <3>3. met.timed /\ have_sample_time
        BY <1>12, <2>1
      <3>4. EntryTrue(e, out.cache, lines, n, elapsed, b, disk.time)
        BY <1>13, <3>1
      <3> HIDE DEF e
      <3>5. e.of \in b
        BY <3>2, <3>3 DEF b
      <3>6. e.span = disk.time /\ e.elapsed = elapsed /\ CacheName(e.of) = e.of
        BY <3>2, <3>4, <3>5 DEF EntryTrue
      <3>7. disk.time # None
        BY <3>2, <3>3, <3>6 DEF DiskInv, Cached
      <3>8. elapsed = disk.time
        BY <3>3, <3>7 DEF elapsed
      <3>9. e \in DiskEntry
        <4>1. out.entries \in Seq(DiskEntry)
          BY <1>7 DEF RatesSoFar, DiskOuts
        <4> QED
          BY <3>1, <4>1, SMT DEF e
      <3>10. e.change \in 0..(U32Mod - 1) => e.delta = e.change
        BY <3>2, <3>9, EntryDelta
      <3> QED
        BY <3>1, <3>6, <3>8, <3>10
    <2> QED
      BY <2>1 DEF DiskRatesTrue
  <1>16. DisksReported'
    <2> SUFFICES ASSUME Fits(ever)
                 PROVE  {last'.entries[i].of : i \in DOMAIN last'.entries} = last'.listed
      BY <1>11 DEF DisksReported, Fits
    <2>1. ReportedSoFar(out, lines, n, ever)
      BY <1>9
    <2>2. ASSUME NEW i \in DOMAIN out.entries PROVE out.entries[i].of \in Whole(lines)
      <3>1. out.entries[i].of \notin Partitions /\ \E j \in 1..n : lines[j].name = out.entries[i].of
        BY <2>1 DEF ReportedSoFar
      <3> QED
        BY <1>10, <3>1 DEF Whole
    <2>3. ASSUME NEW d \in Whole(lines) PROVE \E i \in DOMAIN out.entries : out.entries[i].of = d
      <3>1. PICK j \in 1..n : lines[j].name = d /\ d \notin Partitions
        BY <1>10 DEF Whole
      <3> QED
        BY <2>1, <3>1 DEF ReportedSoFar
    <2>4. {out.entries[i].of : i \in DOMAIN out.entries} = Whole(lines)
      BY <2>2, <2>3
    <2> QED
      BY <1>11, <2>4
  <1> QED
    BY <1>14, <1>15, <1>16 DEF DiskInv

\* Every step keeps the cache and the last payload in order.
LEMMA NextDisks == DiskInv /\ [Next]_vars => DiskInv'
  <1> SUFFICES ASSUME DiskInv, [Next]_vars PROVE DiskInv'
    OBVIOUS
  <1>1. CASE cpu_collect \/ cpu_collect_fails
    <2>1. disk' = disk /\ met' = met
      BY <1>1 DEF cpu_collect, cpu_collect_fails
    <2>2. last' = NoPayload \/ \E d, h : last' = [kind |-> "cpu", diff |-> d, share |-> h]
      BY <1>1 DEF cpu_collect, cpu_collect_fails
    <2>3. last'.kind # "disk"
      BY <2>2, SMT DEF NoPayload
    <2> QED
      BY <2>1, <2>3, OtherCollector
  <1>2. CASE mem_collect \/ mem_collect_fails \/ disk_collect_fails
    <2>1. disk' = disk /\ met' = met /\ last' = NoPayload
      BY <1>2 DEF mem_collect, mem_collect_fails, disk_collect_fails
    <2>2. last'.kind # "disk"
      BY <2>1 DEF NoPayload
    <2> QED
      BY <2>1, <2>2, OtherCollector
  <1>3. CASE net_collect \/ fs_collect
    <2>1. disk' = disk /\ met' = met
      BY <1>3 DEF net_collect, fs_collect, ListCollect
    <2>2. last' = NoPayload \/ \E k \in {"net", "fs"} : \E x : last' = [kind |-> k, entries |-> x]
      BY <1>3 DEF net_collect, fs_collect, ListCollect
    <2>3. last'.kind # "disk"
      BY <2>2, SMT DEF NoPayload
    <2> QED
      BY <2>1, <2>3, OtherCollector
  <1>4. CASE disk_collect
    BY <1>4, DiskCollected
  <1>5. CASE proc_collect
    <2>1. disk' = disk /\ met' = met
      BY <1>5 DEF proc_collect
    <2>2. \/ last' = NoPayload
          \/ \E groups, spans, threads :
                last' = [kind |-> "proc", total |-> sctx, groups |-> groups,
                         spans |-> spans, threads |-> threads]
      BY <1>5 DEF proc_collect
    <2>3. last'.kind # "disk"
      BY <2>2, SMT DEF NoPayload
    <2> QED
      BY <2>1, <2>3, OtherCollector
  <1>6. CASE push
    <2>1. /\ disk' = [cache |-> [i \in 1..MaxDisks |-> [disk.cache[i] EXCEPT !.span = Older(@)]],
                      time |-> Older(disk.time)]
          /\ met' = met /\ last' = NoPayload
      BY <1>6 DEF push
    <2>2. last'.kind # "disk"
      BY <2>1 DEF NoPayload
    <2>3. /\ disk'.cache = [i \in 1..MaxDisks |-> [disk.cache[i] EXCEPT !.span = Older(@)]]
          /\ disk'.time = Older(disk.time)
      BY <2>1
    <2>4. disk.time \in Nat \cup {None} /\ Packed(disk.cache)
      BY DEF DiskInv, Cached
    <2>5. disk'.time \in Nat \cup {None} /\ (disk.time # None => disk'.time # None)
      BY <2>3, <2>4, SMT DEF Older, None
    <2>6. /\ Packed(disk'.cache)
          /\ \A d, s : Owned(disk.cache, d, s) => Owned(disk'.cache, d, Older(s))
          /\ \A ever : OneSlotEach(disk.cache, ever) => OneSlotEach(disk'.cache, ever)
      BY <2>3, <2>4, Aged
    <2>7. Cached'
      <3>1. ASSUME met.timed, NEW d \in met.before, CacheName(d) = d
            PROVE  disk'.time # None /\ Owned(disk'.cache, d, disk'.time)
        <4>1. disk.time # None /\ Owned(disk.cache, d, disk.time)
          BY <3>1 DEF DiskInv, Cached
        <4>2. Owned(disk'.cache, d, Older(disk.time))
          BY <2>6, <4>1
        <4>3. Owned(disk'.cache, d, disk'.time)
          BY <2>3, <4>2
        <4> QED
          BY <2>5, <4>1, <4>3
      <3>2. Fits(met.ever) => OneSlotEach(disk'.cache, met.ever)
        BY <2>6 DEF DiskInv, Cached
      <3>3. IsFiniteSet(met.ever) /\ Free \notin met.before
        BY DEF DiskInv, Cached
      <3> QED
        BY <2>1, <2>5, <2>6, <3>1, <3>2, <3>3 DEF Cached
    <2> QED
      BY <2>2, <2>7 DEF DiskInv, DiskRatesTrue, DisksReported
  <1>7. CASE reload
    <2>1. (disk = disk_init /\ met = NothingMet /\ last = NoPayload)'
      BY <1>7 DEF reload
    <2> QED
      BY <2>1, FreshDisks, PTL
  <1>8. CASE UNCHANGED vars
    <2>1. disk' = disk /\ met' = met /\ last' = last
      BY <1>8 DEF vars
    <2> QED
      BY <2>1 DEF DiskInv, Cached, DiskRatesTrue, DisksReported
  <1> QED
    BY <1>1, <1>2, <1>3, <1>4, <1>5, <1>6, <1>7, <1>8 DEF Next

\* disk_collect divides the change of a disk's counters by the time in which it happened,
\* for every sequence of listings: disks come, go, are skipped or share a prefix, reads
\* fail, and the cache overflows.
THEOREM RatesTrue == Spec => []DiskRatesTrue
  <1>1. DiskInv => DiskRatesTrue
    BY DEF DiskInv
  <1> QED
    BY <1>1, InitDisks, NextDisks, PTL DEF Spec

\* disk_collect reports every whole disk of a listing as long as the disks met so
\* far fit into its cache with their full names, whatever their number and order.
THEOREM AllReported == Spec => []DisksReported
  <1>1. DiskInv => DisksReported
    BY DEF DiskInv
  <1> QED
    BY <1>1, InitDisks, NextDisks, PTL DEF Spec
=============================================================================
