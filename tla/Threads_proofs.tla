---------------------------- MODULE Threads_proofs ---------------------------
(***************************************************************************)
(* The threads: CPU time is charged to the thread that used it, for every  *)
(* table size, hash function, generation width and set of threads          *)
(* (ThreadHistory); and of what collect_thread_group makes of the readings,*)
(* every thread is counted once and the busiest are shown, for every       *)
(* listing and configuration (ThreadGroup, in the Collectors).             *)
(***************************************************************************)
EXTENDS Collectors, ThreadHistory, Sums_proofs

-----------------------------------------------------------------------------
(* ThreadHistory.                                                          *)
(*                                                                         *)
(* A slot of the current generation agrees with what this collection has   *)
(* read, any other slot with what the last one has; a thread that is still *)
(* to be read has no slot of the current generation.  The search of the    *)
(* table therefore cannot return a slot with anything but the last reading,*)
(* whichever of the thread's slots it finds.                               *)

Says(s) == [starttime |-> s.starttime, ticks |-> s.ticks]

\* A slot in use agrees with the collection that wrote it.
SlotsAgree ==
    \A i \in Slots : thread_history[i].tid # 0 =>
        IF thread_history[i].generation = thread_generation /\ phase = "scan"
          THEN /\ cur[thread_history[i].tid] = Says(thread_history[i])
               /\ thread_history[i].tid \notin todo
          ELSE prev[thread_history[i].tid] = Says(thread_history[i])

\* Between collections every slot in use is of the current generation.
IdleCurrent ==
    phase = "idle" =>
        \A i \in Slots : thread_history[i].tid # 0 =>
            thread_history[i].generation = thread_generation

\* No thread has two slots of the current generation.
CurrentUnique ==
    \A i, j \in Slots :
        i # j /\ thread_history[i].tid # 0 /\ thread_history[i].generation = thread_generation
              /\ thread_history[j].generation = thread_generation =>
            thread_history[i].tid # thread_history[j].tid

MeasuredReset == phase = "idle" => measured = Nothing

IInv == TypeOK /\ SlotsAgree /\ IdleCurrent /\ CurrentUnique /\ MeasuredReset /\ ChargedToItself

Slot == [tid : Threads \cup {0}, starttime : 0..MaxStart,
         ticks : 0..MaxTicks, generation : 0..(GenMod - 1)]

-----------------------------------------------------------------------------

\* Zenon proves the leaves below that do not name SMT.
USE Zenon

\* A probe is a slot of the table.
LEMMA ProbeInTable ==
    ASSUME NEW t \in Threads, NEW p \in Slots
    PROVE  Probe(t, p) \in Slots
<1>1. Hash[t] \in Nat /\ p \in Nat /\ Track \in Nat /\ Track > 0
  BY ConstantsAssumption, SMT DEF Slots
<1>2. Hash[t] + p \in Nat
  BY <1>1, SMT
<1>3. (Hash[t] + p) % Track \in 0..(Track - 1)
  BY <1>1, <1>2, SMT
<1> QED
  BY <1>3 DEF Probe, Slots

\* The counter that does not wrap moves on by one.
LEMMA GenerationMoves ==
    ASSUME thread_generation \in 0..(GenMod - 1), NextGeneration # 0
    PROVE  NextGeneration \in 0..(GenMod - 1) /\ NextGeneration # thread_generation
<1>1. thread_generation \in Nat /\ GenMod \in Nat /\ GenMod > 1 /\ thread_generation < GenMod
  BY ConstantsAssumption, SMT
<1>2. CASE thread_generation + 1 = GenMod
  <2>1. (thread_generation + 1) % GenMod = 0
    BY <1>1, <1>2, SMT
  <2> QED
    BY <2>1 DEF NextGeneration
<1>3. CASE thread_generation + 1 < GenMod
  <2>1. (thread_generation + 1) % GenMod = thread_generation + 1
    BY <1>1, <1>3, SMT
  <2> QED
    BY <2>1, <1>1, <1>3, SMT DEF NextGeneration
<1> QED
  BY <1>1, <1>2, <1>3, SMT

LEMMA InitInv == HistoryInit => IInv
<1> SUFFICES ASSUME HistoryInit PROVE IInv
  OBVIOUS
<1>1. 0 \in 0..MaxStart /\ 0 \in 0..MaxTicks /\ 0 \in 0..(GenMod - 1)
  BY ConstantsAssumption, SMT
<1>2. TypeOK
  BY <1>1 DEF HistoryInit, TypeOK, FreeSlot, Unread, Nothing, Reading
<1>3. \A i \in Slots : thread_history[i].tid = 0
  BY DEF HistoryInit, FreeSlot
<1>4. measured = Nothing /\ measured.previous = 0
  BY DEF HistoryInit, Nothing
<1> QED
  BY <1>2, <1>3, <1>4 DEF IInv, SlotsAgree, IdleCurrent, CurrentUnique, MeasuredReset, ChargedToItself

\* The kernel touches neither the table nor what was read.
LEMMA KernelInv == IInv /\ Kernel => IInv'
<1> SUFFICES ASSUME IInv, Kernel PROVE IInv'
  OBVIOUS
<1>1. PICK t \in Threads : StartThread(t) \/ RunThread(t) \/ EndThread(t)
  BY DEF Kernel
<1>2. /\ alive' \subseteq Threads
      /\ starttime' \in [Threads -> 0..MaxStart]
      /\ ticks' \in [Threads -> 0..MaxTicks]
  <2>1. /\ alive \subseteq Threads /\ MaxStart \in Nat /\ MaxTicks \in Nat
        /\ starttime \in [Threads -> 0..MaxStart] /\ ticks \in [Threads -> 0..MaxTicks]
    BY ConstantsAssumption DEF IInv, TypeOK
  <2>2. CASE StartThread(t)
    <3>1. starttime[t] + 1 \in 0..MaxStart
      BY <2>1, <2>2, SMT DEF StartThread
    <3> QED
      BY <2>1, <2>2, <3>1 DEF StartThread
  <2>3. CASE RunThread(t)
    <3>1. ticks[t] + 1 \in 0..MaxTicks
      BY <2>1, <2>3, SMT DEF RunThread
    <3> QED
      BY <2>1, <2>3, <3>1 DEF RunThread
  <2>4. CASE EndThread(t)
    <3>1. 0 \in 0..MaxTicks
      BY <2>1, SMT
    <3> QED
      BY <2>1, <2>4, <3>1 DEF EndThread
  <2> QED
    BY <1>1, <2>2, <2>3, <2>4
<1> QED
  BY <1>2 DEF Kernel, IInv, TypeOK, SlotsAgree, IdleCurrent, CurrentUnique, MeasuredReset,
              ChargedToItself

LEMMA BeginInv == IInv /\ begin_collect => IInv'
<1> SUFFICES ASSUME IInv, begin_collect PROVE IInv'
  OBVIOUS
<1>1. /\ phase = "idle" /\ phase' = "scan" /\ todo' \subseteq Threads
      /\ UNCHANGED <<kernel, cur, prev, measured>>
  BY DEF begin_collect, IInv, TypeOK
<1>2. ChargedToItself' /\ MeasuredReset' /\ IdleCurrent'
  BY <1>1 DEF IInv, ChargedToItself, MeasuredReset, IdleCurrent
<1>3. CASE NextGeneration = 0
  <2>1. thread_generation' = 1 /\ thread_history' = [i \in Slots |-> FreeSlot]
    BY <1>3 DEF begin_collect
  <2>2. 0 \in 0..MaxStart /\ 0 \in 0..MaxTicks /\ 0 \in 0..(GenMod - 1) /\ 1 \in 0..(GenMod - 1)
    BY ConstantsAssumption, SMT
  <2>3. TypeOK'
    BY <1>1, <2>1, <2>2 DEF IInv, TypeOK, FreeSlot, kernel
  <2>4. \A i \in Slots : thread_history'[i].tid = 0
    BY <2>1 DEF FreeSlot
  <2> QED
    BY <1>2, <2>3, <2>4 DEF IInv, SlotsAgree, CurrentUnique
<1>4. CASE NextGeneration # 0
  <2>1. thread_generation' = NextGeneration /\ thread_history' = thread_history
    BY <1>4 DEF begin_collect
  <2>2. thread_generation' \in 0..(GenMod - 1) /\ thread_generation' # thread_generation
    BY <2>1, <1>4, GenerationMoves DEF IInv, TypeOK
  <2>3. TypeOK'
    BY <1>1, <2>1, <2>2 DEF IInv, TypeOK, kernel
  <2>4. \A i \in Slots : thread_history[i].tid # 0 =>
            /\ thread_history[i].generation # thread_generation'
            /\ prev[thread_history[i].tid] = Says(thread_history[i])
    BY <1>1, <2>2 DEF IInv, IdleCurrent, SlotsAgree
  <2>5. SlotsAgree'
    BY <1>1, <2>1, <2>4 DEF SlotsAgree, Says
  <2>6. CurrentUnique'
    BY <2>1, <2>4 DEF CurrentUnique
  <2> QED
    BY <1>2, <2>3, <2>5, <2>6 DEF IInv
<1> QED
  BY <1>3, <1>4

LEMMA FoundInv ==
    ASSUME IInv, NEW t \in Threads, t \in todo, phase = "scan",
           NEW i \in Slots, thread_history[i].tid \in {0, t}, thread_found(t, i),
           todo' = todo \ {t}, UNCHANGED <<kernel, thread_generation, phase, prev>>
    PROVE  IInv'
<1> DEFINE new == [tid |-> t, starttime |-> starttime[t], ticks |-> ticks[t],
                   generation |-> thread_generation]
<1>1. /\ thread_history' = [thread_history EXCEPT ![i] = new]
      /\ cur' = [cur EXCEPT ![t] = [starttime |-> starttime[t], ticks |-> ticks[t]]]
      /\ measured' = [tid |-> t, starttime |-> starttime[t], previous |-> PreviousTicks(t, i)]
  BY DEF thread_found
<1>2. thread_history \in [Slots -> Slot] /\ cur \in [Threads -> Reading]
  BY DEF IInv, TypeOK, Slot
<1>3. t # 0
  BY ConstantsAssumption
<1>4. PreviousTicks(t, i) \in 0..MaxTicks
  BY <1>2, ConstantsAssumption, SMT DEF PreviousTicks, Slot
<1>5. TypeOK'
  <2>1. new \in Slot /\ [starttime |-> starttime[t], ticks |-> ticks[t]] \in Reading
    BY DEF IInv, TypeOK, Slot, Reading
  <2>2. thread_history' \in [Slots -> Slot] /\ cur' \in [Threads -> Reading]
    BY <1>1, <1>2, <2>1
  <2>3. measured' \in [tid : Threads \cup {0}, starttime : 0..MaxStart, previous : 0..MaxTicks]
    BY <1>1, <1>4 DEF IInv, TypeOK
  <2> QED
    BY <2>2, <2>3 DEF IInv, TypeOK, Slot, kernel
<1>6. /\ thread_history'[i] = new
      /\ \A j \in Slots : j # i => thread_history'[j] = thread_history[j]
      /\ cur'[t] = Says(new)
      /\ \A u \in Threads : u # t => cur'[u] = cur[u]
  BY <1>1, <1>2 DEF Says
<1>7. \A j \in Slots : thread_history[j].tid = t =>
          thread_history[j].generation # thread_generation
  BY <1>3 DEF IInv, SlotsAgree
<1>8. SlotsAgree'
  <2> SUFFICES ASSUME NEW j \in Slots, thread_history'[j].tid # 0
               PROVE  IF thread_history'[j].generation = thread_generation /\ phase = "scan"
                        THEN /\ cur'[thread_history'[j].tid] = Says(thread_history'[j])
                             /\ thread_history'[j].tid \notin todo'
                        ELSE prev[thread_history'[j].tid] = Says(thread_history'[j])
    BY DEF SlotsAgree, Says
  <2>1. CASE j = i
    BY <2>1, <1>6, SMT
  <2>2. CASE j # i
    <3>1. thread_history'[j] = thread_history[j] /\ thread_history[j].tid \in Threads
      BY <2>2, <1>6, <1>2 DEF Slot
    <3>2. IF thread_history[j].generation = thread_generation
            THEN /\ cur[thread_history[j].tid] = Says(thread_history[j])
                 /\ thread_history[j].tid \notin todo /\ thread_history[j].tid # t
            ELSE prev[thread_history[j].tid] = Says(thread_history[j])
      BY <3>1, <1>7 DEF IInv, SlotsAgree
    <3> QED
      BY <3>1, <3>2, <1>6
  <2> QED
    BY <2>1, <2>2
<1>9. CurrentUnique'
  BY <1>6, <1>7, SMT DEF IInv, CurrentUnique
<1>10. ChargedToItself'
  <2> SUFFICES ASSUME PreviousTicks(t, i) # 0
               PROVE  prev[t] = [starttime |-> starttime[t], ticks |-> PreviousTicks(t, i)]
    BY <1>1 DEF ChargedToItself
  <2>1. /\ thread_history[i].tid = t /\ thread_history[i].starttime = starttime[t]
        /\ PreviousTicks(t, i) = thread_history[i].ticks
    BY DEF PreviousTicks
  <2>2. prev[t] = Says(thread_history[i])
    BY <2>1, <1>3, <1>7 DEF IInv, SlotsAgree
  <2> QED
    BY <2>1, <2>2 DEF Says
<1>11. IdleCurrent' /\ MeasuredReset'
  BY DEF IdleCurrent, MeasuredReset
<1> QED
  BY <1>5, <1>8, <1>9, <1>10, <1>11 DEF IInv

LEMMA CollectInv == ASSUME IInv, NEW t \in Threads, collect_thread(t) PROVE IInv'
<1>1. /\ phase = "scan" /\ t \in todo /\ todo' = todo \ {t}
      /\ UNCHANGED <<kernel, thread_generation, phase, prev>>
  BY DEF collect_thread
<1>2. CASE thread_gone(t)
  BY <1>1, <1>2 DEF thread_gone, IInv, TypeOK, SlotsAgree, IdleCurrent, CurrentUnique,
                    MeasuredReset, ChargedToItself, kernel, Says
<1>3. CASE \E p \in Slots : FirstStop(t, p) /\ thread_found(t, Probe(t, p))
  <2>1. PICK p \in Slots : FirstStop(t, p) /\ thread_found(t, Probe(t, p))
    BY <1>3
  <2>2. Probe(t, p) \in Slots /\ thread_history[Probe(t, p)].tid \in {0, t}
    BY <2>1, ProbeInTable DEF FirstStop, Stops
  <2> QED
    BY <1>1, <2>1, <2>2, FoundInv
<1>4. CASE thread_no_slot(t)
  <2>1. /\ measured' = [tid |-> t, starttime |-> starttime[t], previous |-> 0]
        /\ UNCHANGED <<thread_history, cur>>
    BY <1>4 DEF thread_no_slot
  <2>2. measured' \in [tid : Threads \cup {0}, starttime : 0..MaxStart, previous : 0..MaxTicks]
    BY <2>1, ConstantsAssumption, SMT DEF IInv, TypeOK
  <2>3. TypeOK' /\ ChargedToItself'
    BY <1>1, <2>1, <2>2 DEF IInv, TypeOK, ChargedToItself, kernel
  <2>4. SlotsAgree' /\ IdleCurrent' /\ CurrentUnique' /\ MeasuredReset'
    BY <1>1, <2>1 DEF IInv, SlotsAgree, IdleCurrent, CurrentUnique, MeasuredReset, Says
  <2> QED
    BY <2>3, <2>4 DEF IInv
<1> QED
  BY <1>2, <1>3, <1>4 DEF collect_thread

LEMMA EndInv == IInv /\ end_collect => IInv'
<1> SUFFICES ASSUME IInv, end_collect PROVE IInv'
  OBVIOUS
<1>1. /\ phase = "scan" /\ phase' = "idle"
      /\ thread_history' = [i \in Slots |-> thread_history_gc(i)]
      /\ prev' = cur /\ cur' = [t \in Threads |-> Unread] /\ measured' = Nothing
      /\ UNCHANGED <<kernel, thread_generation, todo>>
  BY DEF end_collect
<1>2. 0 \in 0..MaxStart /\ 0 \in 0..MaxTicks /\ 0 \in 0..(GenMod - 1)
  BY ConstantsAssumption, SMT
<1>3. TypeOK'
  <2>1. \A i \in Slots : thread_history_gc(i) \in Slot
    BY <1>2 DEF IInv, TypeOK, Slot, FreeSlot, thread_history_gc
  <2>2. thread_history' \in [Slots -> Slot] /\ cur' \in [Threads -> Reading]
    BY <1>1, <1>2, <2>1 DEF Unread, Reading
  <2>3. measured' \in [tid : Threads \cup {0}, starttime : 0..MaxStart, previous : 0..MaxTicks]
    BY <1>1, <1>2 DEF Nothing
  <2> QED
    BY <1>1, <2>2, <2>3 DEF IInv, TypeOK, Slot, kernel
<1>4. \A i \in Slots : thread_history'[i].tid # 0 =>
          /\ thread_history'[i] = thread_history[i]
          /\ thread_history[i].generation = thread_generation
  BY <1>1 DEF thread_history_gc, FreeSlot
<1>5. SlotsAgree'
  BY <1>1, <1>4 DEF IInv, SlotsAgree, Says
<1>6. IdleCurrent' /\ CurrentUnique'
  BY <1>1, <1>4, SMT DEF IInv, IdleCurrent, CurrentUnique
<1>7. MeasuredReset' /\ ChargedToItself'
  BY <1>1 DEF MeasuredReset, ChargedToItself, Nothing
<1> QED
  BY <1>3, <1>5, <1>6, <1>7 DEF IInv

LEMMA StepInv == IInv /\ [HistoryNext]_history_vars => IInv'
<1> SUFFICES ASSUME IInv, [HistoryNext]_history_vars PROVE IInv'
  OBVIOUS
<1>1. CASE UNCHANGED history_vars
  BY <1>1 DEF history_vars, kernel, IInv, TypeOK, SlotsAgree, IdleCurrent, CurrentUnique, MeasuredReset,
              ChargedToItself, Says
<1> QED
  BY <1>1, KernelInv, BeginInv, CollectInv, EndInv DEF HistoryNext

-----------------------------------------------------------------------------

\* The variables keep their types; thread_generation keeps its width.
THEOREM TypeCorrect == HistorySpec => []TypeOK
<1>1. IInv => TypeOK
  BY DEF IInv
<1> QED
  BY <1>1, InitInv, StepInv, PTL DEF HistorySpec

\* Whatever collides, ends, is reused or collected as garbage, collect_thread_group
\* subtracts from a thread's ticks only what the last collection read of it.
THEOREM CpuChargedToItself == HistorySpec => []ChargedToItself
<1>1. IInv => ChargedToItself
  BY DEF IInv
<1> QED
  BY <1>1, InitInv, StepInv, PTL DEF HistorySpec

\* After thread_history_gc the table is what the last collection read, without
\* duplicates.
THEOREM TableExact == HistorySpec => []TableIsLastReading
<1>1. IInv => TableIsLastReading
  BY DEF IInv, SlotsAgree, IdleCurrent, CurrentUnique, TableIsLastReading, Says
<1> QED
  BY <1>1, InitInv, StepInv, PTL DEF HistorySpec

-----------------------------------------------------------------------------
(* A known thread loses its reading only to a collision or to the wrap.  If *)
(* no two threads collide every thread is found in the slot it hashes to,   *)
(* which nobody else takes and thread_history_gc frees only after a         *)
(* collection that has not read the thread.                                 *)

\* No two threads have the same hash.
NoCollisions == \A t, u \in Threads : Hash[t] = Hash[u] => t = u

\* Every slot in use is its thread's own, and a thread that is alive was started.
Placed == \A i \in Slots : thread_history[i].tid # 0 => Hash[thread_history[i].tid] = i
Started == \A t \in alive : starttime[t] > 0

\* What was not yet read of this collection, and what was.
Pending == (\A t \in todo : cur[t] = Unread) /\ (phase = "idle" => cur = [t \in Threads |-> Unread])

Holds(t, r) == thread_history[Hash[t]].tid = t /\ Says(thread_history[Hash[t]]) = r

\* The table holds the last reading of every thread, and this collection's once it
\* is made; unless this collection is the first of all or after a wrap.
Remembered ==
    \A t \in Threads :
        /\ phase = "idle" /\ prev[t] # Unread => Holds(t, prev[t])
        /\ phase = "scan" /\ cur[t] # Unread =>
              Holds(t, cur[t]) /\ thread_history[Hash[t]].generation = thread_generation
        /\ phase = "scan" /\ cur[t] = Unread /\ thread_generation # 1 /\ prev[t] # Unread =>
              Holds(t, prev[t])

KInv == IInv /\ Placed /\ Started /\ Pending /\ Remembered
             /\ (thread_generation # 1 => KnownThreadsMeasured)

LEMMA KnownInit == HistoryInit => KInv
<1> SUFFICES ASSUME HistoryInit PROVE KInv
  OBVIOUS
<1>1. \A i \in Slots : thread_history[i].tid = 0
  BY DEF HistoryInit, FreeSlot
<1>2. Placed /\ Started /\ Pending
  BY <1>1 DEF HistoryInit, Placed, Started, Pending
<1>3. Remembered
  BY DEF HistoryInit, Remembered
<1>4. KnownThreadsMeasured
  BY DEF HistoryInit, KnownThreadsMeasured, Nothing
<1> QED
  BY <1>2, <1>3, <1>4, InitInv DEF KInv

\* The kernel changes neither the table nor what was read.
LEMMA KnownKernel == KInv /\ Kernel => KInv'
<1> SUFFICES ASSUME KInv, Kernel PROVE KInv'
  OBVIOUS
<1>1. UNCHANGED <<thread_history, thread_generation, phase, todo, cur, prev, measured>>
  BY DEF Kernel
<1>2. PICK t \in Threads : StartThread(t) \/ RunThread(t) \/ EndThread(t)
  BY DEF Kernel
<1>3. Started'
  <2>1. alive \subseteq Threads /\ starttime \in [Threads -> 0..MaxStart] /\ Started
    BY DEF KInv, IInv, TypeOK
  <2>2. CASE StartThread(t)
    BY <2>1, <2>2, SMT DEF StartThread, Started
  <2>3. CASE RunThread(t) \/ EndThread(t)
    BY <2>1, <2>3 DEF RunThread, EndThread, Started
  <2> QED
    BY <1>2, <2>2, <2>3
<1>4. IInv'
  BY KernelInv DEF KInv
<1>5. Placed' /\ Pending' /\ Remembered' /\ (thread_generation # 1 => KnownThreadsMeasured)'
  BY <1>1 DEF KInv, Placed, Pending, Remembered, KnownThreadsMeasured, Holds, Says
<1> QED
  BY <1>3, <1>4, <1>5 DEF KInv

\* thread_generation is 1 in the collection that finds the table cleared.
LEMMA KnownBegin == KInv /\ begin_collect => KInv'
<1> SUFFICES ASSUME KInv, begin_collect PROVE KInv'
  OBVIOUS
<1>1. /\ phase = "idle" /\ phase' = "scan" /\ todo' \subseteq Threads
      /\ UNCHANGED <<alive, starttime, ticks, cur, prev, measured>>
  BY DEF begin_collect, KInv, IInv, TypeOK, kernel
<1>2. cur = [t \in Threads |-> Unread] /\ measured = Nothing
  BY <1>1 DEF KInv, Pending, IInv, MeasuredReset
<1>3. IInv'
  BY BeginInv DEF KInv
<1>4. Started' /\ Pending' /\ KnownThreadsMeasured'
  BY <1>1, <1>2 DEF KInv, Started, Pending, KnownThreadsMeasured, Nothing
<1>5. Placed'
  BY SMT DEF begin_collect, KInv, Placed, FreeSlot
<1>6. Remembered'
  <2>1. thread_generation' # 1 => thread_history' = thread_history
    BY DEF begin_collect
  <2> QED
    BY <1>1, <1>2, <2>1 DEF KInv, Remembered, Holds, Says
<1> QED
  BY <1>3, <1>4, <1>5, <1>6 DEF KInv

\* The slot a thread hashes to is free or its own.
LEMMA OwnSlot ==
    ASSUME NoCollisions, KInv, NEW t \in Threads
    PROVE  /\ Hash[t] \in Slots /\ t # 0 /\ 0 \in Slots /\ Probe(t, 0) = Hash[t]
           /\ thread_history[Hash[t]].tid \in {0, t} /\ Stops(t, 0)
<1>1. Hash[t] \in Slots /\ t # 0 /\ 0 \in Slots /\ Probe(t, 0) = Hash[t]
  <2>1. Hash[t] \in 0..(Track - 1) /\ Track \in Nat \ {0} /\ t \in Nat \ {0}
    BY ConstantsAssumption DEF Slots
  <2>2. (Hash[t] + 0) % Track = Hash[t]
    BY <2>1, SMT
  <2> QED
    BY <2>1, <2>2, SMT DEF Probe, Slots
<1>2. thread_history[Hash[t]].tid \in Threads \cup {0}
  BY <1>1 DEF KInv, IInv, TypeOK
<1>3. thread_history[Hash[t]].tid # 0 => Hash[thread_history[Hash[t]].tid] = Hash[t]
  BY <1>1 DEF KInv, Placed
<1>4. thread_history[Hash[t]].tid \in {0, t}
  BY <1>2, <1>3 DEF NoCollisions
<1> QED
  BY <1>1, <1>4 DEF Stops

\* A thread's first probe finds its own slot, and in it the last reading.
LEMMA KnownFound ==
    ASSUME NoCollisions, KInv, NEW t \in Threads, t \in todo, phase = "scan",
           NEW p \in Slots, FirstStop(t, p), thread_found(t, Probe(t, p)),
           todo' = todo \ {t}, UNCHANGED <<kernel, thread_generation, phase, prev>>
    PROVE  Placed' /\ Started' /\ Pending' /\ Remembered'
             /\ (thread_generation # 1 => KnownThreadsMeasured)'
<1> DEFINE h == Hash[t]
           new == [tid |-> t, starttime |-> starttime[t], ticks |-> ticks[t],
                   generation |-> thread_generation]
<1>1. h \in Slots /\ t # 0 /\ Probe(t, 0) = h /\ Stops(t, 0)
  BY OwnSlot
<1>2. thread_history \in [Slots -> Slot] /\ cur \in [Threads -> Reading] /\ cur[t] = Unread
  BY DEF KInv, IInv, TypeOK, Slot, Pending
<1>3. Probe(t, p) = h
  <2>1. p = 0 \/ 0 \in 0..(p - 1)
    BY ConstantsAssumption, SMT DEF Slots
  <2> QED
    BY <1>1, <2>1 DEF FirstStop
<1>4. /\ thread_history' = [thread_history EXCEPT ![h] = new]
      /\ cur' = [cur EXCEPT ![t] = [starttime |-> starttime[t], ticks |-> ticks[t]]]
      /\ measured' = [tid |-> t, starttime |-> starttime[t], previous |-> PreviousTicks(t, h)]
      /\ t \in alive
  BY <1>3 DEF thread_found
<1>5. /\ thread_history'[h] = new /\ cur'[t] = Says(new)
      /\ \A j \in Slots : j # h => thread_history'[j] = thread_history[j]
      /\ \A u \in Threads : u # t => cur'[u] = cur[u]
  BY <1>1, <1>2, <1>4 DEF Says
<1> HIDE DEF new
<1>6. /\ thread_history'[h].tid = t /\ thread_history'[h].generation = thread_generation
        /\ Says(thread_history'[h]) = cur'[t] /\ cur'[t].starttime = starttime[t]
  BY <1>5, SMT DEF Says, new
<1>7. starttime[t] > 0
  BY <1>4 DEF KInv, Started
<1>8. Placed'
  <2> SUFFICES ASSUME NEW j \in Slots, thread_history'[j].tid # 0
               PROVE  Hash[thread_history'[j].tid] = j
    BY DEF Placed
  <2>1. CASE j = h
    BY <1>6, <2>1
  <2>2. CASE j # h
    BY <1>5, <2>2 DEF KInv, Placed
  <2> QED
    BY <2>1, <2>2
<1>9. Started' /\ Pending'
  <2>1. Started'
    BY DEF KInv, Started, kernel
  <2>2. \A u \in todo' : u \in Threads /\ u # t /\ cur[u] = Unread
    BY DEF KInv, IInv, TypeOK, Pending
  <2> QED
    BY <1>5, <2>1, <2>2 DEF Pending
<1>10. \A u \in Threads : u # t => Hash[u] \in Slots /\ Hash[u] # h
  BY ConstantsAssumption DEF NoCollisions
<1>11. Remembered'
  <2> SUFFICES ASSUME NEW u \in Threads
               PROVE  /\ cur'[u] # Unread =>
                            /\ thread_history'[Hash[u]].tid = u
                            /\ Says(thread_history'[Hash[u]]) = cur'[u]
                            /\ thread_history'[Hash[u]].generation = thread_generation
                      /\ cur'[u] = Unread /\ thread_generation # 1 /\ prev[u] # Unread =>
                            /\ thread_history'[Hash[u]].tid = u
                            /\ Says(thread_history'[Hash[u]]) = prev[u]
    BY DEF Remembered, Holds, Says
  <2>1. CASE u = t
    <3>1. cur'[t] # Unread
      BY <1>6, <1>7, SMT DEF Unread
    <3> QED
      BY <1>6, <2>1, <3>1
  <2>2. CASE u # t
    <3>1. cur'[u] = cur[u] /\ thread_history'[Hash[u]] = thread_history[Hash[u]]
      BY <1>5, <1>10, <2>2
    <3> QED
      BY <3>1 DEF KInv, Remembered, Holds
  <2> QED
    BY <2>1, <2>2
<1>12. ASSUME thread_generation # 1, prev[t].starttime = starttime[t]
       PROVE  PreviousTicks(t, h) = prev[t].ticks
  <2>1. prev[t] # Unread
    BY <1>7, <1>12, SMT DEF Unread
  <2>2. thread_history[h].tid = t /\ Says(thread_history[h]) = prev[t]
    BY <1>2, <1>12, <2>1 DEF KInv, Remembered, Holds
  <2>3. thread_history[h].starttime = prev[t].starttime /\ thread_history[h].ticks = prev[t].ticks
    BY <2>2, SMT DEF Says
  <2> QED
    BY <1>12, <2>2, <2>3 DEF PreviousTicks
<1>13. (thread_generation # 1 => KnownThreadsMeasured)'
  BY <1>4, <1>12 DEF KnownThreadsMeasured
<1> QED
  BY <1>8, <1>9, <1>11, <1>13

LEMMA KnownCollect ==
    ASSUME NoCollisions, KInv, NEW t \in Threads, collect_thread(t)
    PROVE  KInv'
<1>1. /\ phase = "scan" /\ t \in todo /\ todo' = todo \ {t}
      /\ UNCHANGED <<kernel, thread_generation, phase, prev>>
  BY DEF collect_thread
<1>2. IInv'
  BY CollectInv DEF KInv
<1>3. CASE thread_gone(t)
  <2>1. UNCHANGED <<thread_history, cur, measured>>
    BY <1>3 DEF thread_gone
  <2>2. Placed' /\ Started' /\ Pending'
    BY <1>1, <2>1 DEF KInv, Placed, Started, Pending, kernel
  <2>3. Remembered' /\ (thread_generation # 1 => KnownThreadsMeasured)'
    BY <1>1, <2>1 DEF KInv, Remembered, KnownThreadsMeasured, Holds, Says
  <2> QED
    BY <1>2, <2>2, <2>3 DEF KInv
<1>4. CASE \E p \in Slots : FirstStop(t, p) /\ thread_found(t, Probe(t, p))
  <2>1. PICK p \in Slots : FirstStop(t, p) /\ thread_found(t, Probe(t, p))
    BY <1>4
  <2>2. Placed' /\ Started' /\ Pending' /\ Remembered'
          /\ (thread_generation # 1 => KnownThreadsMeasured)'
    BY <1>1, <2>1, KnownFound
  <2> QED
    BY <1>2, <2>2 DEF KInv
<1>5. ~thread_no_slot(t)
  BY OwnSlot DEF thread_no_slot
<1> QED
  BY <1>3, <1>4, <1>5 DEF collect_thread

\* thread_history_gc keeps what this collection has read.
LEMMA KnownEnd == KInv /\ end_collect => KInv'
<1> SUFFICES ASSUME KInv, end_collect PROVE KInv'
  OBVIOUS
<1>1. /\ phase = "scan" /\ phase' = "idle"
      /\ thread_history' = [i \in Slots |-> thread_history_gc(i)]
      /\ prev' = cur /\ cur' = [t \in Threads |-> Unread] /\ measured' = Nothing
      /\ UNCHANGED <<alive, starttime, thread_generation, todo>> /\ todo = {}
  BY DEF end_collect, kernel
<1>2. IInv'
  BY EndInv DEF KInv
<1>3. Started' /\ Pending' /\ KnownThreadsMeasured'
  BY <1>1 DEF KInv, Started, Pending, KnownThreadsMeasured, Nothing
<1>4. Placed'
  BY <1>1 DEF KInv, Placed, thread_history_gc, FreeSlot
<1>5. Remembered'
  <2> SUFFICES ASSUME NEW t \in Threads, cur[t] # Unread
               PROVE  thread_history'[Hash[t]].tid = t /\ Says(thread_history'[Hash[t]]) = cur[t]
    BY <1>1 DEF Remembered, Holds, Says
  <2>1. Hash[t] \in Slots
    BY ConstantsAssumption
  <2>2. Holds(t, cur[t]) /\ thread_history[Hash[t]].generation = thread_generation
    BY <1>1 DEF KInv, Remembered
  <2>3. thread_history'[Hash[t]] = thread_history[Hash[t]]
    BY <1>1, <2>1, <2>2 DEF thread_history_gc
  <2> QED
    BY <2>2, <2>3 DEF Holds
<1> QED
  BY <1>2, <1>3, <1>4, <1>5 DEF KInv

LEMMA KnownStep == NoCollisions /\ KInv /\ [HistoryNext]_history_vars => KInv'
<1> SUFFICES ASSUME NoCollisions, KInv, [HistoryNext]_history_vars PROVE KInv'
  OBVIOUS
<1>1. CASE UNCHANGED history_vars
  <2>1. IInv'
    BY StepInv DEF KInv
  <2>2. UNCHANGED <<alive, starttime, thread_history, thread_generation, phase, todo, cur, prev,
                    measured>>
    BY <1>1 DEF history_vars, kernel
  <2> QED
    BY <2>1, <2>2 DEF KInv, Placed, Started, Pending, Remembered, KnownThreadsMeasured, Holds, Says
<1> QED
  BY <1>1, KnownKernel, KnownBegin, KnownCollect, KnownEnd DEF HistoryNext

\* KnownThreadsMeasured can fail in collect_thread_group for two reasons only.
\* Where no two threads hash to the same slot, a thread that the last collection
\* has read is measured against that reading in every collection, except in the
\* one that clears the table because thread_generation has wrapped.
THEOREM KnownUnlessCollision ==
    NoCollisions => (HistorySpec => [](thread_generation # 1 => KnownThreadsMeasured))
<1>1. KInv => (thread_generation # 1 => KnownThreadsMeasured)
  BY DEF KInv
<1>2. ASSUME NoCollisions PROVE HistorySpec => [](thread_generation # 1 => KnownThreadsMeasured)
  <2>1. KInv /\ [HistoryNext]_history_vars => KInv'
    BY <1>2, KnownStep
  <2> QED
    BY <1>1, <2>1, KnownInit, PTL DEF HistorySpec
<1> QED
  BY <1>2

-----------------------------------------------------------------------------
(* collect_thread_group.                                                   *)
(*                                                                         *)
(* The invariant of its two loops: unless it is marked as truncated, the   *)
(* outcome is the count of the threads they have come past, and its        *)
(* candidates are theirs.                                                  *)

Candidate == [id : Seq(Int), name : Int, inst_count : Nat, share : Nat]

\* What a turn of the loops of collect_thread_group starts from.
ScanOut ==
    [scanned : Nat, total : 0..U16Max, states : [ThreadStates -> 0..U16Max],
     truncated : BOOLEAN, candidates : Seq(Candidate)]

StateOf(task) == thread_state_index(task.letter)

\* The candidates after a task that is not lost.
With(c, task, share, include_tid) ==
    LET same == {i \in DOMAIN c : c[i].id = Identity(task, include_tid)}
    IN  IF same # {}
          THEN [c EXCEPT ![Min(same)].inst_count = @ + 1, ![Min(same)].share = @ + share]
          ELSE Append(c, [id |-> Identity(task, include_tid), name |-> task.name,
                          inst_count |-> 1, share |-> share])

\* An index of scheduling states.
LEMMA StateType == \A task : StateOf(task) \in ThreadStates
  BY DEF StateOf, thread_state_index, ThreadStates

\* increment_u16 stays within 16 bits.
LEMMA ClampType ==
    \A n \in 0..U16Max : /\ Clamp(n + 1) \in 0..U16Max /\ Clamp(n + 1) > 0
                         /\ n # U16Max => Clamp(n + 1) = n + 1
  BY ThreadGroupAssumption, SMT DEF Clamp

\* What identifies a candidate is a list of numbers.
LEMMA IdentityType ==
    ASSUME NEW task \in Task, NEW tid
    PROVE  Identity(task, tid) \in Seq(Int)
  BY SMT DEF Task, Identity

\* A candidate that one more thread counts as.
Grow(x, share) == [[x EXCEPT !.inst_count = @ + 1] EXCEPT !.share = @ + share]

\* It keeps its identity and gains an instance and the share.
LEMMA Grown ==
    ASSUME NEW x \in Candidate, NEW share \in Nat
    PROVE  /\ Grow(x, share) \in Candidate /\ Grow(x, share).id = x.id
           /\ Grow(x, share).inst_count = x.inst_count + 1
           /\ Grow(x, share).share = x.share + share
  <1> DEFINE y == [id |-> x.id, name |-> x.name, inst_count |-> x.inst_count + 1, share |-> x.share]
             z == [id |-> x.id, name |-> x.name, inst_count |-> x.inst_count + 1,
                   share |-> x.share + share]
  <1>1. x = [id |-> x.id, name |-> x.name, inst_count |-> x.inst_count, share |-> x.share]
    BY DEF Candidate
  <1>2. [x EXCEPT !.inst_count = @ + 1] = y
    BY <1>1, SMT
  <1>3. [y EXCEPT !.share = @ + share] = z
    BY SMT
  <1>4. Grow(x, share) = z
    BY <1>2, <1>3 DEF Grow
  <1>5. x.id \in Seq(Int) /\ x.name \in Int /\ x.inst_count \in Nat /\ x.share \in Nat
    BY DEF Candidate
  <1>6. x.inst_count + 1 \in Nat /\ x.share + share \in Nat
    BY <1>5, SMT
  <1>7. z \in Candidate
    BY <1>5, <1>6 DEF Candidate
  <1>8. z.id = x.id /\ z.inst_count = x.inst_count + 1 /\ z.share = x.share + share
    OBVIOUS
  <1> HIDE DEF z
  <1> QED
    BY <1>4, <1>7, <1>8

\* What With does to the candidates.
Joined(c, c2, id, share) ==
    /\ c2 \in Seq(Candidate)
    /\ \/ \E m \in DOMAIN c :
             /\ c[m].id = id /\ DOMAIN c2 = DOMAIN c
             /\ c2[m].id = id /\ c2[m].inst_count = c[m].inst_count + 1
             /\ c2[m].share = c[m].share + share
             /\ \A i \in DOMAIN c : i # m => c2[i] = c[i]
       \/ \E new \in Candidate :
             /\ \A i \in DOMAIN c : c[i].id # id
             /\ new.id = id /\ new.inst_count = 1 /\ new.share = share
             /\ Longer(c2, c, new)

\* A task that is not lost joins its candidate, or becomes a new one.
LEMMA WithJoins ==
    ASSUME NEW c \in Seq(Candidate), NEW task \in Task, NEW share \in Nat, NEW tid
    PROVE  Joined(c, With(c, task, share, tid), Identity(task, tid), share)
  <1> DEFINE id == Identity(task, tid)
             same == {i \in DOMAIN c : c[i].id = id}
             new == [id |-> id, name |-> task.name, inst_count |-> 1, share |-> share]
  <1>1. CASE same # {}
    <2> DEFINE m == Min(same)
    <2>1. Len(c) \in Nat /\ DOMAIN c = 1..Len(c)
      BY SMT
    <2>2. m \in DOMAIN c /\ c[m].id = id
      BY <1>1, <2>1, MinIn
    <2>3. c[m] \in Candidate
      BY <2>1, <2>2, SMT
    <2>4. With(c, task, share, tid) = [c EXCEPT ![m] = Grow(c[m], share)]
      BY <1>1, <2>2 DEF With, Grow
    <2> HIDE DEF m, id
    <2>5. /\ Grow(c[m], share) \in Candidate /\ Grow(c[m], share).id = id
          /\ Grow(c[m], share).inst_count = c[m].inst_count + 1
          /\ Grow(c[m], share).share = c[m].share + share
      BY <2>2, <2>3, Grown
    <2> DEFINE c2 == [c EXCEPT ![m] = Grow(c[m], share)]
    <2>6. c2 \in Seq(Candidate) /\ DOMAIN c2 = DOMAIN c
      BY <2>2, <2>5, SMT
    <2>7. c2[m] = Grow(c[m], share) /\ \A i \in DOMAIN c : i # m => c2[i] = c[i]
      BY <2>2
    <2> HIDE DEF c2
    <2>8. Joined(c, c2, id, share)
      BY <2>2, <2>5, <2>6, <2>7 DEF Joined
    <2> QED
      BY <2>4, <2>8 DEF c2, id
  <1>2. CASE same = {}
    <2>1. With(c, task, share, tid) = Append(c, new)
      BY <1>2 DEF With
    <2>2. id \in Seq(Int) /\ task.name \in Int
      BY IdentityType DEF Task
    <2>3. \A i \in DOMAIN c : c[i].id # id
      BY <1>2
    <2> HIDE DEF id
    <2>4. new \in Candidate
      BY <2>2 DEF Candidate
    <2>5. new.id = id /\ new.inst_count = 1 /\ new.share = share
      OBVIOUS
    <2> HIDE DEF new
    <2>6. Append(c, new) \in Seq(Candidate)
      BY <2>4, SMT
    <2>7. Longer(Append(c, new), c, new)
      BY <2>4, Appended
    <2> DEFINE c2 == Append(c, new)
    <2> HIDE DEF c2
    <2>8. c2 \in Seq(Candidate) /\ Longer(c2, c, new)
      BY <2>6, <2>7 DEF c2
    <2>9. Joined(c, c2, id, share)
      BY <2>3, <2>4, <2>5, <2>8 DEF Joined
    <2> QED
      BY <2>1, <2>9 DEF c2, id
  <1> QED
    BY <1>1, <1>2

\* The threads of D that count as the candidate id.
Members(D, T, id, tid) == {p \in D : Identity(T[p], tid) = id}

ShareOfTask(T) == [p \in DOMAIN T |-> T[p].share]

\* The candidates are those of the threads in D, each once, with their number and share.
CandidatesExact(c, D, T, tid) ==
    /\ \A i, j \in DOMAIN c : c[i].id = c[j].id => i = j
    /\ \A p \in D : \E i \in DOMAIN c : c[i].id = Identity(T[p], tid)
    /\ \A i \in DOMAIN c :
          LET m == Members(D, T, c[i].id, tid)
          IN  /\ m # {} /\ c[i].inst_count = Cardinality(m)
              /\ c[i].share = Sums(ShareOfTask(T))[m]

\* One more thread p of a candidate, or of another one.
Regrouped(D, T, p, id, tid) ==
    LET m == Members(D, T, id, tid)
        m2 == Members(D \cup {p}, T, id, tid)
    IN  /\ IsFiniteSet(m)
        /\ id # Identity(T[p], tid) => m2 = m
        /\ id = Identity(T[p], tid) =>
              /\ m2 # {} /\ Cardinality(m2) = Cardinality(m) + 1
              /\ Sums(ShareOfTask(T))[m2] = T[p].share + Sums(ShareOfTask(T))[m]

\* A thread that was not among D adds itself to its own candidate, and to no other.
LEMMA MembersStep ==
    ASSUME NEW S, IsFiniteSet(S), NEW T \in [S -> Task], NEW D \in SUBSET S, NEW p \in S \ D,
           NEW tid, NEW id
    PROVE  Regrouped(D, T, p, id, tid)
  <1> DEFINE m == Members(D, T, id, tid)
             m2 == Members(D \cup {p}, T, id, tid)
             f == ShareOfTask(T)
  <1>1. m \in SUBSET S /\ m2 \in SUBSET S /\ p \notin m
    BY DEF Members
  <1>2. IsFiniteSet(m)
    BY <1>1, FS_Subset
  <1>3. ASSUME id # Identity(T[p], tid) PROVE m2 = m
    BY <1>3 DEF Members
  <1>4. ASSUME id = Identity(T[p], tid)
        PROVE  /\ m2 = m \cup {p} /\ m2 # {} /\ Cardinality(m2) = Cardinality(m) + 1
               /\ Sums(f)[m2] = T[p].share + Sums(f)[m]
    <2>1. m2 = m \cup {p}
      BY <1>4 DEF Members
    <2>2. Cardinality(m2) = Cardinality(m) + 1
      BY <1>1, <1>2, <2>1, FS_AddElement
    <2>3. f \in [S -> Int] /\ f[p] = T[p].share
      <3>1. \A q \in S : T[q].share \in Int
        BY SMT DEF Task
      <3> QED
        BY <3>1 DEF ShareOfTask
    <2>4. p \in m2 /\ m2 \ {p} = m
      BY <1>1, <2>1
    <2> HIDE DEF m, m2, f
    <2>5. \A s \in SUBSET S : \A x \in s : Sums(f)[s] = f[x] + Sums(f)[s \ {x}]
      <3>1. f \in [S -> Int]
        BY <2>3
      <3>2. AnyOrder(f, S)
        BY <3>1, SumAny
      <3> QED
        BY <3>2 DEF AnyOrder
    <2>6. Sums(f)[m2] = f[p] + Sums(f)[m2 \ {p}]
      BY <1>1, <2>4, <2>5
    <2> QED
      BY <2>1, <2>2, <2>3, <2>4, <2>6
  <1> QED
    BY <1>1, <1>2, <1>3, <1>4 DEF Regrouped

\* One more thread keeps the candidates exact, if it was not lost.
LEMMA CandidatesStep ==
    ASSUME NEW S, IsFiniteSet(S), NEW T \in [S -> Task], NEW D \in SUBSET S, NEW p \in S \ D,
           NEW tid, NEW c \in Seq(Candidate), CandidatesExact(c, D, T, tid),
           NEW c2, Joined(c, c2, Identity(T[p], tid), T[p].share)
    PROVE  CandidatesExact(c2, D \cup {p}, T, tid)
  <1> DEFINE id == Identity(T[p], tid)
             E == D \cup {p}
             f == ShareOfTask(T)
             True(e) == LET m == Members(E, T, e.id, tid)
                        IN  /\ m # {} /\ e.inst_count = Cardinality(m) /\ e.share = Sums(f)[m]
  <1>0. ASSUME NEW x PROVE Regrouped(D, T, p, x, tid)
    BY MembersStep
  <1>c. \A i \in DOMAIN c : c[i] \in Candidate
    BY SMT
  <1>1. ASSUME NEW i \in DOMAIN c, c[i].id # id PROVE True(c[i])
    <2>1. Members(E, T, c[i].id, tid) = Members(D, T, c[i].id, tid)
      BY <1>0, <1>1 DEF Regrouped
    <2> QED
      BY <2>1 DEF CandidatesExact
  <1>2. CASE \E m \in DOMAIN c :
             /\ c[m].id = id /\ DOMAIN c2 = DOMAIN c
             /\ c2[m].id = id /\ c2[m].inst_count = c[m].inst_count + 1
             /\ c2[m].share = c[m].share + T[p].share
             /\ \A i \in DOMAIN c : i # m => c2[i] = c[i]
    <2>1. PICK m \in DOMAIN c :
             /\ c[m].id = id /\ DOMAIN c2 = DOMAIN c
             /\ c2[m].id = id /\ c2[m].inst_count = c[m].inst_count + 1
             /\ c2[m].share = c[m].share + T[p].share
             /\ \A i \in DOMAIN c : i # m => c2[i] = c[i]
      BY <1>2
    <2>2. \A i \in DOMAIN c : c2[i].id = c[i].id
      BY <2>1
    <2>3. \A i, j \in DOMAIN c2 : c2[i].id = c2[j].id => i = j
      BY <2>1, <2>2 DEF CandidatesExact
    <2>4. \A q \in E : \E i \in DOMAIN c2 : c2[i].id = Identity(T[q], tid)
      <3>1. ASSUME NEW q \in D PROVE \E i \in DOMAIN c2 : c2[i].id = Identity(T[q], tid)
        <4>1. PICK i \in DOMAIN c : c[i].id = Identity(T[q], tid)
          BY DEF CandidatesExact
        <4> QED
          BY <2>1, <2>2, <4>1
      <3>2. m \in DOMAIN c2 /\ c2[m].id = Identity(T[p], tid)
        BY <2>1
      <3>3. \A q \in E : q \in D \/ q = p
        OBVIOUS
      <3> HIDE DEF E
      <3> QED
        BY <3>1, <3>2, <3>3
    <2>5. ASSUME NEW i \in DOMAIN c2, i # m PROVE True(c2[i])
      <3>1. c2[i] = c[i] /\ i \in DOMAIN c /\ c[i].id # id
        BY <2>1, <2>5 DEF CandidatesExact
      <3> HIDE DEF id, True
      <3> QED
        BY <1>1, <3>1
    <2>6. True(c2[m])
      <3> DEFINE a == Members(D, T, id, tid)
                 b == Members(E, T, id, tid)
      <3>1. c[m].inst_count = Cardinality(a) /\ c[m].share = Sums(f)[a]
        BY <2>1 DEF CandidatesExact
      <3>2. b # {} /\ Cardinality(b) = Cardinality(a) + 1 /\ Sums(f)[b] = T[p].share + Sums(f)[a]
        BY <1>0 DEF Regrouped
      <3>3. c[m].share \in Nat /\ T[p].share \in Nat
        <4>1. c[m] \in Candidate /\ T[p] \in Task
          BY <1>c
        <4> QED
          BY <4>1 DEF Candidate, Task
      <3> HIDE DEF a, b, f
      <3>4. c2[m].inst_count = Cardinality(b)
        BY <2>1, <3>1, <3>2
      <3>5. c2[m].share = Sums(f)[b]
        <4>1. c[m].share + T[p].share = T[p].share + c[m].share
          BY <3>3, SMT
        <4> QED
          BY <2>1, <3>1, <3>2, <4>1
      <3> QED
        BY <2>1, <3>2, <3>4, <3>5 DEF b
    <2>7. \A i \in DOMAIN c2 : True(c2[i])
      <3> HIDE DEF True
      <3> QED
        BY <2>5, <2>6
    <2> QED
      BY <2>3, <2>4, <2>7 DEF CandidatesExact
  <1>3. CASE \E new \in Candidate :
             /\ \A i \in DOMAIN c : c[i].id # id
             /\ new.id = id /\ new.inst_count = 1 /\ new.share = T[p].share
             /\ Longer(c2, c, new)
    <2>1. PICK new \in Candidate :
             /\ \A i \in DOMAIN c : c[i].id # id
             /\ new.id = id /\ new.inst_count = 1 /\ new.share = T[p].share
             /\ Longer(c2, c, new)
      BY <1>3
    <2> DEFINE n == Len(c) + 1
    <2>2. /\ n \in DOMAIN c2 /\ c2[n] = new
          /\ \A i \in DOMAIN c2 : (i = n /\ c2[i] = new) \/ (i \in DOMAIN c /\ c2[i] = c[i])
          /\ \A i \in DOMAIN c : i \in DOMAIN c2 /\ i # n /\ c2[i] = c[i]
      BY <2>1 DEF Longer
    <2> HIDE DEF n
    <2>3. \A i, j \in DOMAIN c2 : c2[i].id = c2[j].id => i = j
      <3>1. \A i, j \in DOMAIN c : c[i].id = c[j].id => i = j
        BY DEF CandidatesExact
      <3>2. new.id = id /\ \A i \in DOMAIN c : c[i].id # new.id
        BY <2>1
      <3>3. ASSUME NEW i \in DOMAIN c2, NEW j \in DOMAIN c2, c2[i].id = c2[j].id, i # j PROVE FALSE
        <4>1. CASE i = n
          BY <2>2, <3>2, <3>3, <4>1
        <4>2. CASE j = n
          BY <2>2, <3>2, <3>3, <4>2
        <4>3. CASE i # n /\ j # n
          BY <2>2, <3>1, <3>3, <4>3
        <4> QED
          BY <4>1, <4>2, <4>3
      <3> QED
        BY <3>3
    <2>4. \A q \in E : \E i \in DOMAIN c2 : c2[i].id = Identity(T[q], tid)
      <3>1. ASSUME NEW q \in D PROVE \E i \in DOMAIN c2 : c2[i].id = Identity(T[q], tid)
        <4>1. PICK i \in DOMAIN c : c[i].id = Identity(T[q], tid)
          BY DEF CandidatesExact
        <4> QED
          BY <2>2, <4>1
      <3>2. c2[n].id = Identity(T[p], tid)
        BY <2>1, <2>2
      <3>3. \A q \in E : q \in D \/ q = p
        OBVIOUS
      <3> HIDE DEF E
      <3> QED
        BY <2>2, <3>1, <3>2, <3>3
    <2>5. ASSUME NEW i \in DOMAIN c PROVE True(c[i])
      BY <1>1, <2>1
    <2>6. True(new)
      <3> DEFINE a == Members(D, T, id, tid)
                 b == Members(E, T, id, tid)
      <3>1. a = {}
        <4>1. \A q \in D : Identity(T[q], tid) # id
          <5>1. \A q \in D : \E i \in DOMAIN c : c[i].id = Identity(T[q], tid)
            BY DEF CandidatesExact
          <5> HIDE DEF id
          <5> QED
            BY <2>1, <5>1
        <4> QED
          BY <4>1 DEF Members
      <3>2. b # {} /\ Cardinality(b) = Cardinality(a) + 1 /\ Sums(f)[b] = T[p].share + Sums(f)[a]
        BY <1>0 DEF Regrouped
      <3>3. f \in [S -> Int]
        <4>1. \A q \in S : T[q].share \in Int
          BY SMT DEF Task
        <4> QED
          BY <4>1 DEF ShareOfTask
      <3>4. T[p].share \in Nat
        BY DEF Task
      <3> HIDE DEF a, b, f
      <3>5. Sums(f)[a] = 0 /\ Cardinality(a) = 0
        BY <3>1, <3>3, SumEmpty, FS_EmptySet
      <3>6. Cardinality(b) = 1 /\ Sums(f)[b] = T[p].share
        BY <3>2, <3>4, <3>5, SMT
      <3> QED
        BY <2>1, <3>2, <3>6 DEF b
    <2>7. \A i \in DOMAIN c2 : True(c2[i])
      <3> HIDE DEF True
      <3> QED
        BY <2>2, <2>5, <2>6
    <2> QED
      BY <2>3, <2>4, <2>7 DEF CandidatesExact
  <1> QED
    BY <1>2, <1>3 DEF Joined

\* A record of ScanOut, field by field.
Out(scanned, total, states, truncated, candidates) ==
    [scanned |-> scanned, total |-> total, states |-> states, truncated |-> truncated,
     candidates |-> candidates]

\* The fields of an outcome.
LEMMA OutFields ==
    ASSUME NEW out \in ScanOut
    PROVE  /\ out = Out(out.scanned, out.total, out.states, out.truncated, out.candidates)
           /\ out.scanned \in Nat /\ out.total \in 0..U16Max
           /\ out.states \in [ThreadStates -> 0..U16Max]
           /\ out.truncated \in BOOLEAN /\ out.candidates \in Seq(Candidate)
  BY DEF ScanOut, Out

\* The assignments of a turn, to a record given by its fields.
Count(out, st) == CountTask([out EXCEPT !.scanned = @ + 1], st)

Mark(out, slot) == [out EXCEPT !.truncated = @ \/ ~slot]

Cut(out) == [out EXCEPT !.truncated = TRUE]

Full(b, c, d, st, d2) == d2 = (d \/ b = U16Max \/ c[st] = U16Max)

Lost(d, slot, d2) == d2 = (d \/ ~slot)

Counts(a, b, c, d, e, st, c2, d2) ==
    Count(Out(a, b, c, d, e), st) = Out(a + 1, Clamp(b + 1), c2, d2, e)

Marks(a, b, c, d, e, slot, d2) == Mark(Out(a, b, c, d, e), slot) = Out(a, b, c, d2, e)

\* The two calls of increment_u16, field by field.
LEMMA CountIs ==
    ASSUME NEW a, NEW b, NEW c, NEW d, NEW e, NEW st,
           NEW c2, c2 = [c EXCEPT ![st] = Clamp(@ + 1)],
           NEW d2, Full(b, c, d, st, d2)
    PROVE  Counts(a, b, c, d, e, st, c2, d2)
  <1> DEFINE o == Out(a, b, c, d, e)
             o1 == Out(a + 1, b, c, d, e)
             v1 == Clamp(b + 1)
             v2 == [c EXCEPT ![st] = Clamp(@ + 1)]
             v3 == d \/ b = U16Max \/ c[st] = U16Max
  <1>1. [o EXCEPT !.scanned = @ + 1] = [o EXCEPT !.scanned = a + 1]
    BY DEF Out
  <1>2. [o EXCEPT !.scanned = a + 1] = o1
    BY SMT DEF Out
  <1>3. o1.total = b /\ o1.states = c /\ o1.truncated = d
    BY DEF Out
  <1>4. CountTask(o1, st) =
           [[[o1 EXCEPT !.total = v1] EXCEPT !.states = v2] EXCEPT !.truncated = v3]
    <2>1. o1.total = b /\ [o1 EXCEPT !.total = v1].states = c
          /\ [[o1 EXCEPT !.total = v1] EXCEPT !.states = v2].truncated = d
      BY DEF Out
    <2> HIDE DEF o1, v1
    <2> QED
      BY <1>3, <2>1 DEF CountTask, v1
  <1>5. [[[o1 EXCEPT !.total = v1] EXCEPT !.states = v2] EXCEPT !.truncated = v3]
          = Out(a + 1, v1, v2, v3, e)
    <2> HIDE DEF v1, v2, v3
    <2>1. [o1 EXCEPT !.total = v1] = Out(a + 1, v1, c, d, e)
      BY SMT DEF Out
    <2>2. [Out(a + 1, v1, c, d, e) EXCEPT !.states = v2] = Out(a + 1, v1, v2, d, e)
      BY SMT DEF Out
    <2>3. [Out(a + 1, v1, v2, d, e) EXCEPT !.truncated = v3] = Out(a + 1, v1, v2, v3, e)
      BY SMT DEF Out
    <2> QED
      BY <2>1, <2>2, <2>3
  <1> HIDE DEF o, o1
  <1>6. CountTask([o EXCEPT !.scanned = @ + 1], st) = CountTask(o1, st)
    BY <1>1, <1>2
  <1> QED
    BY <1>4, <1>5, <1>6 DEF o, Count, Counts, Full

\* A thread without a slot in the table of ticks marks the outcome, and changes nothing else.
LEMMA MarkIs ==
    ASSUME NEW a, NEW b, NEW c, NEW d, NEW e, NEW slot, NEW d2, Lost(d, slot, d2)
    PROVE  Marks(a, b, c, d, e, slot, d2)
  BY SMT DEF Out, Mark, Marks, Lost

\* The scan limit marks the outcome, and changes nothing else.
LEMMA CutIs ==
    ASSUME NEW a, NEW b, NEW c, NEW d, NEW e
    PROVE  Cut(Out(a, b, c, d, e)) = Out(a, b, c, TRUE, e)
  <1>1. ASSUME NEW x
        PROVE  [Out(a, b, c, d, e) EXCEPT !.truncated = x] = Out(a, b, c, x, e)
    BY SMT DEF Out
  <1> QED
    BY <1>1 DEF Cut

\* A thread that is lost, or one that is not.
Outcome(next, a, b, c, d, e, e2) ==
    next = Out(a, b, c, TRUE, e) \/ next = Out(a, b, c, d, e2)

\* add_thread_candidate loses the task and marks the outcome, or takes it in.
LEMMA AddIs ==
    ASSUME NEW a, NEW b, NEW c, NEW d, NEW e, NEW task, NEW share, NEW tid
    PROVE  Outcome(add_thread_candidate(Out(a, b, c, d, e), task, share, tid), a, b, c, d, e,
                   With(e, task, share, tid))
  <1> DEFINE o == Out(a, b, c, d, e)
             id == Identity(task, tid)
             same == {i \in DOMAIN e : e[i].id = id}
             new == [id |-> id, name |-> task.name, inst_count |-> 1, share |-> share]
  <1>1. o.candidates = e
    BY DEF Out
  <1>2. CASE same # {}
    <2> DEFINE m == Min(same)
    <2>1. add_thread_candidate(o, task, share, tid)
            = [o EXCEPT !.candidates[m].inst_count = @ + 1, !.candidates[m].share = @ + share]
      BY <1>1, <1>2 DEF add_thread_candidate
    <2>2. With(e, task, share, tid) = [e EXCEPT ![m].inst_count = @ + 1, ![m].share = @ + share]
      BY <1>2 DEF With
    <2> HIDE DEF m
    <2>3. [o EXCEPT !.candidates[m].inst_count = @ + 1, !.candidates[m].share = @ + share]
            = [o EXCEPT !.candidates = [e EXCEPT ![m].inst_count = @ + 1, ![m].share = @ + share]]
      BY DEF Out
    <2>4. [o EXCEPT !.candidates = With(e, task, share, tid)] = Out(a, b, c, d, With(e, task, share, tid))
      BY SMT DEF Out
    <2> QED
      BY <2>1, <2>2, <2>3, <2>4 DEF Outcome
  <1>3. CASE same = {} /\ Len(e) >= Candidates
    <2>1. add_thread_candidate(o, task, share, tid) = Cut(o)
      BY <1>1, <1>3 DEF add_thread_candidate, Cut
    <2>2. Cut(o) = Out(a, b, c, TRUE, e)
      BY CutIs
    <2> QED
      BY <2>1, <2>2 DEF Outcome
  <1>4. CASE same = {} /\ ~(Len(e) >= Candidates)
    <2>1. add_thread_candidate(o, task, share, tid) = [o EXCEPT !.candidates = Append(@, new)]
      BY <1>1, <1>4 DEF add_thread_candidate
    <2>2. [o EXCEPT !.candidates = Append(@, new)] = Out(a, b, c, d, Append(e, new))
      BY SMT DEF Out
    <2>3. With(e, task, share, tid) = Append(e, new)
      BY <1>4 DEF With
    <2> QED
      BY <2>1, <2>2, <2>3 DEF Outcome
  <1> QED
    BY <1>2, <1>3, <1>4

\* A turn of the loop over a task directory.
Scanned(out, task, mode, tid, next) ==
    /\ next \in ScanOut
    /\ out.scanned >= ScanLimit =>
          next.truncated = TRUE /\ next.total = out.total /\ next.scanned = out.scanned
    /\ ~(out.scanned >= ScanLimit) /\ ~task.readable => next = out
    /\ ~(out.scanned >= ScanLimit) /\ task.readable =>
          /\ next.total = Clamp(out.total + 1)
          /\ next.states = [out.states EXCEPT ![StateOf(task)] = Clamp(@ + 1)]
          /\ next.truncated = FALSE => /\ out.truncated = FALSE /\ out.total # U16Max
                                       /\ out.states[StateOf(task)] # U16Max
          /\ mode = "top" /\ next.truncated = FALSE =>
                Joined(out.candidates, next.candidates, Identity(task, tid), task.share)

\* A turn of the loop over a task directory does one of these things.
LEMMA ScanTurn ==
    ASSUME NEW out \in ScanOut, NEW task \in Task, NEW mode, NEW tid
    PROVE  Scanned(out, task, mode, tid, ScanTask(out, task, mode, tid))
  <1> DEFINE a == out.scanned
             b == out.total
             c == out.states
             d == out.truncated
             e == out.candidates
             st == StateOf(task)
             next == ScanTask(out, task, mode, tid)
  <1>1. /\ out = Out(a, b, c, d, e) /\ a \in Nat /\ b \in 0..U16Max
        /\ c \in [ThreadStates -> 0..U16Max] /\ d \in BOOLEAN /\ e \in Seq(Candidate)
    BY OutFields
  <1>2. CASE a >= ScanLimit
    <2>1. next = Cut(out)
      BY <1>2 DEF ScanTask, Cut
    <2>2. Cut(Out(a, b, c, d, e)) = Out(a, b, c, TRUE, e)
      BY CutIs
    <2> DEFINE o == Out(a, b, c, TRUE, e)
    <2>3. o \in ScanOut /\ o.scanned = a /\ o.total = b /\ o.truncated = TRUE
      BY <1>1 DEF Out, ScanOut
    <2>4. next = o
      BY <1>1, <2>1, <2>2
    <2> HIDE DEF o, next
    <2>5. next \in ScanOut /\ next.scanned = a /\ next.total = b /\ next.truncated = TRUE
      BY <2>3, <2>4
    <2> QED
      BY <1>2, <2>5 DEF Scanned, next
  <1>3. CASE ~(a >= ScanLimit) /\ ~task.readable
    <2>1. next = out
      BY <1>3 DEF ScanTask
    <2> HIDE DEF next
    <2> QED
      BY <1>3, <2>1 DEF Scanned, next
  <1>4. CASE ~(a >= ScanLimit) /\ task.readable
    <2> DEFINE a2 == a + 1
               b2 == Clamp(b + 1)
               c2 == [c EXCEPT ![st] = Clamp(@ + 1)]
               d2 == d \/ b = U16Max \/ c[st] = U16Max
               o == Out(a2, b2, c2, d2, e)
    <2>1. Count(out, st) = o
      <3>1. Count(Out(a, b, c, d, e), st) = o
        <4>1. c2 = [c EXCEPT ![st] = Clamp(@ + 1)] /\ Full(b, c, d, st, d2)
          BY DEF Full
        <4>2. Counts(a, b, c, d, e, st, c2, d2)
          <5> HIDE DEF a, b, c, d, e, st, c2, d2
          <5> QED
            BY <4>1, CountIs
        <4> QED
          BY <4>2 DEF Counts
      <3> QED
        BY <1>1, <3>1
    <2>2. st \in ThreadStates
      BY StateType
    <2>3. a2 \in Nat
      BY <1>1, SMT
    <2>4. b2 \in 0..U16Max /\ c2 \in [ThreadStates -> 0..U16Max] /\ d2 \in BOOLEAN
      BY <1>1, <2>2, ClampType
    <2>5. ASSUME mode # "top" PROVE Scanned(out, task, mode, tid, next)
      <3>1. next = o
        BY <1>4, <2>1, <2>5 DEF ScanTask, StateOf, Count
      <3>2. o \in ScanOut /\ o.total = b2 /\ o.states = c2 /\ o.truncated = d2
        <4> HIDE DEF a2, b2, c2, d2, e
        <4> QED
          BY <1>1, <2>3, <2>4 DEF Out, ScanOut
      <3> HIDE DEF o, next
      <3>3. next \in ScanOut /\ next.total = b2 /\ next.states = c2 /\ next.truncated = d2
        BY <3>1, <3>2
      <3> QED
        BY <1>1, <1>4, <2>5, <3>3 DEF Scanned
    <2>6. ASSUME mode = "top" PROVE Scanned(out, task, mode, tid, next)
      <3> DEFINE d3 == d2 \/ ~task.slot
                 share == IF task.slot THEN task.share ELSE 0
                 o3 == Out(a2, b2, c2, d3, e)
                 e3 == With(e, task, share, tid)
      <3>1. Mark(o, task.slot) = o3
        <4>1. Lost(d2, task.slot, d3)
          BY DEF Lost
        <4>2. Marks(a2, b2, c2, d2, e, task.slot, d3)
          <5> HIDE DEF a2, b2, c2, d2, d3, e
          <5> QED
            BY <4>1, MarkIs
        <4> QED
          BY <4>2 DEF Marks
      <3>2. next = add_thread_candidate(o3, task, share, tid)
        <4>1. next = add_thread_candidate(Mark(o, task.slot), task, share, tid)
          BY <1>4, <2>1, <2>6 DEF ScanTask, StateOf, Count, Mark
        <4> HIDE DEF o, o3, next
        <4> QED
          BY <3>1, <4>1
      <3>3. share \in Nat /\ d3 \in BOOLEAN
        <4>1. task.share \in Nat /\ 0 \in Nat
          BY DEF Task
        <4> QED
          BY <4>1
      <3>4. Joined(e, e3, Identity(task, tid), share)
        <4> HIDE DEF e, share
        <4> QED
          BY <1>1, <3>3, WithJoins
      <3>5. e3 \in Seq(Candidate)
        <4> HIDE DEF e3
        <4> QED
          BY <3>4 DEF Joined
      <3>6. CASE next = Out(a2, b2, c2, TRUE, e)
        <4> DEFINE n == Out(a2, b2, c2, TRUE, e)
        <4>1. n \in ScanOut /\ n.total = b2 /\ n.states = c2 /\ n.truncated = TRUE
          BY <1>1, <2>3, <2>4 DEF Out, ScanOut
        <4> HIDE DEF n, next
        <4>2. next \in ScanOut /\ next.total = b2 /\ next.states = c2 /\ next.truncated = TRUE
          BY <3>6, <4>1 DEF n
        <4> QED
          BY <1>4, <4>2 DEF Scanned
      <3>7. CASE next = Out(a2, b2, c2, d3, e3)
        <4> DEFINE n == Out(a2, b2, c2, d3, e3)
        <4>1. n \in ScanOut /\ n.total = b2 /\ n.states = c2 /\ n.truncated = d3 /\ n.candidates = e3
          <5> HIDE DEF a2, b2, c2, d3, e3
          <5> QED
            BY <2>3, <2>4, <3>3, <3>5 DEF Out, ScanOut
        <4> HIDE DEF n, next, e3
        <4>2. /\ next \in ScanOut /\ next.total = b2 /\ next.states = c2 /\ next.truncated = d3
              /\ next.candidates = e3
          BY <3>7, <4>1 DEF n
        <4>3. next.truncated = FALSE => /\ d = FALSE /\ b # U16Max /\ c[st] # U16Max
                                        /\ share = task.share
          BY <1>1, <4>2
        <4> HIDE DEF share
        <4>4. next.truncated = FALSE => Joined(e, e3, Identity(task, tid), task.share)
          BY <3>4, <4>3
        <4> QED
          BY <1>4, <4>2, <4>3, <4>4 DEF Scanned
      <3> QED
        <4> HIDE DEF a2, b2, c2, d3, e, next, share
        <4> QED
          <5>1. Outcome(add_thread_candidate(Out(a2, b2, c2, d3, e), task, share, tid),
                        a2, b2, c2, d3, e, With(e, task, share, tid))
            BY AddIs
          <5>2. Outcome(next, a2, b2, c2, d3, e, e3)
            BY <3>2, <5>1
          <5> QED
            BY <3>6, <3>7, <5>2 DEF Outcome
    <2> QED
      BY <2>5, <2>6
  <1> QED
    BY <1>2, <1>3, <1>4

\* The counters are those of the threads in D.
Exact(out, D, T) ==
    /\ out.total = Cardinality(D)
    /\ \A s \in ThreadStates : out.states[s] = Cardinality({p \in D : StateOf(T[p]) = s})

\* What the loops keep, where D are the readable threads they have come past.
Counted(out, D, T, mode, tid) ==
    /\ out \in ScanOut
    /\ out.total = 0 <=> D = {}
    /\ out.scanned > 0 => out.total > 0
    /\ out.truncated = FALSE => Exact(out, D, T)
    /\ mode = "top" /\ out.truncated = FALSE => CandidatesExact(out.candidates, D, T, tid)

\* One more thread is counted once, under its state.
LEMMA ExactStep ==
    ASSUME NEW S, IsFiniteSet(S), NEW T \in [S -> Task], NEW D \in SUBSET S, NEW p \in S \ D,
           NEW out \in ScanOut, Exact(out, D, T), NEW next,
           next.total = Clamp(out.total + 1),
           next.states = [out.states EXCEPT ![StateOf(T[p])] = Clamp(@ + 1)],
           out.total # U16Max, out.states[StateOf(T[p])] # U16Max
    PROVE  Exact(next, D \cup {p}, T)
  <1> DEFINE st == StateOf(T[p])
             E == D \cup {p}
             In(F, s) == {q \in F : StateOf(T[q]) = s}
  <1>1. /\ out.total \in 0..U16Max /\ out.states \in [ThreadStates -> 0..U16Max]
        /\ st \in ThreadStates /\ out.states[st] \in 0..U16Max
    BY StateType DEF ScanOut
  <1>2. /\ next.total = out.total + 1 /\ next.states[st] = out.states[st] + 1
        /\ \A s \in ThreadStates : s # st => next.states[s] = out.states[s]
    BY <1>1, ClampType
  <1>3. IsFiniteSet(D) /\ p \notin D
    BY FS_Subset
  <1>4. next.total = Cardinality(E)
    <2>1. Cardinality(E) = Cardinality(D) + 1
      BY <1>3, FS_AddElement
    <2> QED
      BY <1>2, <2>1 DEF Exact
  <1>5. next.states[st] = Cardinality(In(E, st))
    <2>1. In(E, st) = In(D, st) \cup {p} /\ p \notin In(D, st) /\ In(D, st) \subseteq D
      BY <1>3
    <2>2. IsFiniteSet(In(D, st))
      BY <1>3, <2>1, FS_Subset
    <2>3. out.states[st] = Cardinality(In(D, st))
      BY <1>1 DEF Exact
    <2> HIDE DEF In
    <2>4. Cardinality(In(E, st)) = Cardinality(In(D, st)) + 1
      BY <2>1, <2>2, FS_AddElement
    <2> QED
      BY <1>2, <2>3, <2>4
  <1>6. ASSUME NEW s \in ThreadStates, s # st PROVE next.states[s] = Cardinality(In(E, s))
    <2>1. In(E, s) = In(D, s)
      BY <1>6
    <2>2. out.states[s] = Cardinality(In(D, s))
      BY DEF Exact
    <2> QED
      BY <1>2, <1>6, <2>1, <2>2
  <1> QED
    BY <1>4, <1>5, <1>6 DEF Exact

\* A turn of the loop keeps the counts.
LEMMA CountedTurn ==
    ASSUME NEW S, IsFiniteSet(S), NEW T \in [S -> Task], NEW D \in SUBSET S, NEW p \in S \ D,
           NEW mode, NEW tid, NEW out, Counted(out, D, T, mode, tid),
           NEW next, next = ScanTask(out, T[p], mode, tid),
           NEW D2, D2 = IF T[p].readable THEN D \cup {p} ELSE D
    PROVE  Counted(next, D2, T, mode, tid)
  <1> DEFINE task == T[p]
  <1>1. out \in ScanOut /\ task \in Task
    BY DEF Counted
  <1>2. Scanned(out, task, mode, tid, next)
    BY <1>1, ScanTurn
  <1>3. next \in ScanOut
    BY <1>2 DEF Scanned
  <1>4. CASE out.scanned >= ScanLimit
    <2>1. next.truncated = TRUE /\ next.total = out.total /\ next.scanned = out.scanned
      BY <1>2, <1>4 DEF Scanned
    <2>2. out.scanned \in Nat /\ out.total \in 0..U16Max
      BY <1>1 DEF ScanOut
    <2>3. out.scanned > 0
      BY <1>4, <2>2, ThreadGroupAssumption, SMT
    <2>4. out.total > 0
      BY <2>3 DEF Counted
    <2>5. out.total # 0
      BY <2>2, <2>4, SMT
    <2>6. D2 # {}
      BY <2>5 DEF Counted
    <2> QED
      BY <1>3, <2>1, <2>4, <2>5, <2>6 DEF Counted
  <1>5. CASE ~(out.scanned >= ScanLimit) /\ ~task.readable
    <2>1. next = out /\ D2 = D
      BY <1>2, <1>5 DEF Scanned
    <2> QED
      BY <2>1
  <1>6. CASE ~(out.scanned >= ScanLimit) /\ task.readable
    <2>1. D2 = D \cup {p}
      BY <1>6
    <2>2. /\ next.total = Clamp(out.total + 1)
          /\ next.states = [out.states EXCEPT ![StateOf(task)] = Clamp(@ + 1)]
      BY <1>2, <1>6 DEF Scanned
    <2>3. next.total > 0 /\ next.total # 0
      <3>1. out.total \in 0..U16Max
        BY <1>1 DEF ScanOut
      <3>2. Clamp(out.total + 1) \in 0..U16Max /\ Clamp(out.total + 1) > 0
        BY <3>1, ClampType
      <3> QED
        BY <2>2, <3>2, SMT
    <2>4. ASSUME next.truncated = FALSE
          PROVE  /\ Exact(next, D2, T)
                 /\ mode = "top" => CandidatesExact(next.candidates, D2, T, tid)
      <3>1. out.truncated = FALSE /\ out.total # U16Max /\ out.states[StateOf(task)] # U16Max
        BY <1>2, <1>6, <2>4 DEF Scanned
      <3>2. Exact(out, D, T)
        BY <3>1 DEF Counted
      <3>3. Exact(next, D2, T)
        <4>1. Exact(next, D \cup {p}, T)
          BY <1>1, <2>2, <3>1, <3>2, ExactStep
        <4> QED
          BY <2>1, <4>1
      <3>4. ASSUME mode = "top" PROVE CandidatesExact(next.candidates, D2, T, tid)
        <4>1. CandidatesExact(out.candidates, D, T, tid) /\ out.candidates \in Seq(Candidate)
          BY <1>1, <3>1, <3>4 DEF Counted, ScanOut
        <4>2. Joined(out.candidates, next.candidates, Identity(T[p], tid), T[p].share)
          BY <1>2, <1>6, <2>4, <3>4 DEF Scanned
        <4>3. CandidatesExact(next.candidates, D \cup {p}, T, tid)
          BY <4>1, <4>2, CandidatesStep
        <4> QED
          BY <2>1, <4>3
      <3> QED
        BY <3>3, <3>4
    <2>5. D2 # {}
      BY <2>1
    <2> QED
      BY <1>3, <2>3, <2>4, <2>5 DEF Counted
  <1> QED
    BY <1>4, <1>5, <1>6

\* The loop over a task directory.
TaskLoop(dir, base, mode, tid) ==
    ForEach(LAMBDA o, t : ScanTask(o, t, mode, tid), base, dir)

\* A turn leaves an outcome.
LEMMA ScanTaskType ==
    ASSUME NEW out \in ScanOut, NEW task \in Task, NEW mode, NEW tid
    PROVE  ScanTask(out, task, mode, tid) \in ScanOut
  <1>1. Scanned(out, task, mode, tid, ScanTask(out, task, mode, tid))
    BY ScanTurn
  <1> QED
    BY <1>1 DEF Scanned

\* The fold of the loop over a task directory, as ForEach chooses it.
TaskFolds(dir, base, mode, tid) ==
    CHOOSE g : g = [s \in SUBSET DOMAIN dir |->
                       IF s = {} THEN base
                       ELSE ScanTask(g[s \ {Max(s)}], dir[Max(s)], mode, tid)]

\* the loop over a task directory, turn by turn.
TaskTurns(outs, dir, base, mode, tid, last_out) ==
    /\ outs[0] = base /\ last_out = outs[Len(dir)]
    /\ \A k \in 1..Len(dir) : outs[k] = ScanTask(outs[k - 1], dir[k], mode, tid)

\* The fold over a task directory runs through its tasks in order.
LEMMA TaskLoopTurns ==
    ASSUME NEW dir \in Seq(Task), NEW base \in ScanOut, NEW mode, NEW tid
    PROVE  \E outs : TaskTurns(outs, dir, base, mode, tid, TaskLoop(dir, base, mode, tid))
  <1> DEFINE n == Len(dir)
             step == [i \in 1..n |-> [o \in ScanOut |-> ScanTask(o, dir[i], mode, tid)]]
  <1>1. n \in Nat /\ DOMAIN dir = 1..n /\ \A i \in 1..n : dir[i] \in Task
    BY SMT
  <1>3. \A i \in 1..n : \A o \in ScanOut : ScanTask(o, dir[i], mode, tid) \in ScanOut
    BY <1>1, ScanTaskType
  <1>4. step \in [1..n -> [ScanOut -> ScanOut]]
    BY <1>3
  <1>5. PICK g \in [SUBSET (1..n) -> ScanOut] : SeqFoldOf(g, n, base, step)
    <2> HIDE DEF step, n
    <2> QED
      BY <1>1, <1>4, SeqFoldExists
  <1> HIDE DEF n
  <1>f. \A s \in SUBSET (1..n) : g[s] = IF s = {} THEN base ELSE step[Max(s)][g[s \ {Max(s)}]]
    BY <1>5 DEF SeqFoldOf
  <1>6. ASSUME NEW s \in SUBSET (1..n)
        PROVE  g[s] = IF s = {} THEN base ELSE ScanTask(g[s \ {Max(s)}], dir[Max(s)], mode, tid)
    <2>1. CASE s = {}
      BY <1>f, <2>1
    <2>2. CASE s # {}
      <3>1. g[s] = step[Max(s)][g[s \ {Max(s)}]]
        BY <1>f, <2>2
      <3>2. Max(s) \in s
        BY <1>1, <2>2, MaxIn
      <3>3. Max(s) \in 1..n /\ g[s \ {Max(s)}] \in ScanOut
        BY <3>2
      <3> QED
        BY <2>2, <3>1, <3>3
    <2> QED
      BY <2>1, <2>2
  <1>7. g = [s \in SUBSET DOMAIN dir |->
                IF s = {} THEN base ELSE ScanTask(g[s \ {Max(s)}], dir[Max(s)], mode, tid)]
    BY <1>1, <1>6
  <1> DEFINE F == TaskFolds(dir, base, mode, tid)
  <1>8. F = [s \in SUBSET DOMAIN dir |->
                IF s = {} THEN base ELSE ScanTask(F[s \ {Max(s)}], dir[Max(s)], mode, tid)]
    BY <1>7 DEF TaskFolds
  <1>9. TaskLoop(dir, base, mode, tid) = F[DOMAIN dir]
    BY DEF TaskLoop, ForEach, MapThenFoldSet, TaskFolds
  <1> HIDE DEF F
  <1>10. \A s \in SUBSET (1..n) :
            F[s] = IF s = {} THEN base ELSE ScanTask(F[s \ {Max(s)}], dir[Max(s)], mode, tid)
    BY <1>1, <1>8
  <1> DEFINE outs == [k \in 0..n |-> F[1..k]]
  <1>11. 0 \in 0..n /\ n \in 0..n /\ 1..0 = {} /\ {} \in SUBSET (1..n)
    BY <1>1, SMT
  <1>12. outs[0] = base
    BY <1>10, <1>11
  <1>13. ASSUME NEW k \in 1..n
         PROVE  outs[k] = ScanTask(outs[k - 1], dir[k], mode, tid)
    <2>1. k \in 0..n /\ k - 1 \in 0..n
      BY <1>1, SMT
    <2>2. /\ Max(1..k) = k /\ (1..k) \ {k} = 1..(k - 1)
          /\ 1..k # {} /\ 1..k \in SUBSET (1..n)
      BY <1>1, MaxPrefix
    <2>3. F[1..k] = ScanTask(F[1..(k - 1)], dir[k], mode, tid)
      BY <1>10, <2>2
    <2> QED
      BY <2>1, <2>3
  <1>14. outs[n] = F[DOMAIN dir]
    BY <1>1, <1>11
  <1> QED
    BY <1>9, <1>12, <1>13, <1>14 DEF n, TaskTurns

\* The loop over a task directory leaves an outcome.
LEMMA TaskLoopType ==
    ASSUME NEW dir \in Seq(Task), NEW base \in ScanOut, NEW mode, NEW tid
    PROVE  TaskLoop(dir, base, mode, tid) \in ScanOut
  <1> DEFINE n == Len(dir)
  <1>1. n \in Nat /\ \A k \in 1..n : dir[k] \in Task
    BY SMT
  <1>2. PICK outs : TaskTurns(outs, dir, base, mode, tid, TaskLoop(dir, base, mode, tid))
    BY TaskLoopTurns
  <1> DEFINE P == {k \in Nat : k <= n => outs[k] \in ScanOut}
  <1>3. 0 \in P
    BY <1>2 DEF TaskTurns
  <1>4. ASSUME NEW k \in P PROVE k + 1 \in P
    <2>0. k \in Nat /\ k + 1 \in Nat
      <3>1. k \in Nat
        OBVIOUS
      <3> QED
        BY <3>1, SMT
    <2> SUFFICES ASSUME k + 1 <= n PROVE outs[k + 1] \in ScanOut
      BY <2>0
    <2>1. k + 1 \in 1..n /\ (k + 1) - 1 = k /\ k <= n
      BY <1>1, <2>0, SMT
    <2>2. outs[k] \in ScanOut
      BY <2>0, <2>1
    <2>3. outs[k + 1] = ScanTask(outs[k], dir[k + 1], mode, tid)
      <3>1. outs[k + 1] = ScanTask(outs[(k + 1) - 1], dir[k + 1], mode, tid)
        BY <1>2, <2>1 DEF TaskTurns
      <3> QED
        BY <2>1, <3>1
    <2> QED
      BY <1>1, <2>1, <2>2, <2>3, ScanTaskType
  <1>5. P = Nat
    <2>1. P \in SUBSET Nat
      OBVIOUS
    <2> HIDE DEF P
    <2> QED
      BY <1>3, <1>4, <2>1, NatSetInduction
  <1>6. n \in P /\ n <= n
    BY <1>1, <1>5, SMT
  <1> QED
    BY <1>2, <1>6 DEF TaskTurns

\* A process of the group: its directory is read from the start of its own limit.
DirScan(out, dir, mode, tid) == TaskLoop(dir, [out EXCEPT !.scanned = 0], mode, tid)

\* The scan counter starts again with every process, and only that.
LEMMA Rewound ==
    ASSUME NEW out \in ScanOut
    PROVE  LET o == [out EXCEPT !.scanned = 0]
           IN  /\ o \in ScanOut /\ o.scanned = 0 /\ o.total = out.total /\ o.states = out.states
               /\ o.truncated = out.truncated /\ o.candidates = out.candidates
  <1>1. out = Out(out.scanned, out.total, out.states, out.truncated, out.candidates)
    BY OutFields
  <1> DEFINE o == Out(0, out.total, out.states, out.truncated, out.candidates)
  <1>2. [Out(out.scanned, out.total, out.states, out.truncated, out.candidates) EXCEPT !.scanned = 0] = o
    BY SMT DEF Out
  <1>3. [out EXCEPT !.scanned = 0] = o
    BY <1>1, <1>2
  <1>4. /\ o.scanned = 0 /\ o.total = out.total /\ o.states = out.states
        /\ o.truncated = out.truncated /\ o.candidates = out.candidates
    BY DEF Out
  <1>5. o \in ScanOut
    <2>1. 0 \in Nat
      OBVIOUS
    <2> QED
      BY <2>1 DEF Out, ScanOut
  <1> HIDE DEF o
  <1> QED
    BY <1>3, <1>4, <1>5

\* The scan of a process leaves an outcome.
LEMMA DirScanType ==
    ASSUME NEW out \in ScanOut, NEW dir \in Seq(Task), NEW mode, NEW tid
    PROVE  DirScan(out, dir, mode, tid) \in ScanOut
  <1>1. [out EXCEPT !.scanned = 0] \in ScanOut
    BY Rewound
  <1> QED
    BY <1>1, TaskLoopType DEF DirScan

\* The loop over the processes of a group.
DirLoop(dirs, base, mode, tid) ==
    ForEach(LAMBDA o, dir : DirScan(o, dir, mode, tid), base, dirs)

\* The fold of the loop over the processes of a group, as ForEach chooses it.
DirFolds(dirs, base, mode, tid) ==
    CHOOSE g : g = [s \in SUBSET DOMAIN dirs |->
                       IF s = {} THEN base
                       ELSE DirScan(g[s \ {Max(s)}], dirs[Max(s)], mode, tid)]

\* the loop over the processes of a group, turn by turn.
DirTurns(outs, dirs, base, mode, tid, last_out) ==
    /\ outs[0] = base /\ last_out = outs[Len(dirs)]
    /\ \A k \in 1..Len(dirs) : outs[k] = DirScan(outs[k - 1], dirs[k], mode, tid)

\* The fold over the group runs through its processes in order.
LEMMA DirLoopTurns ==
    ASSUME NEW dirs \in Seq(Seq(Task)), NEW base \in ScanOut, NEW mode, NEW tid
    PROVE  \E outs : DirTurns(outs, dirs, base, mode, tid, DirLoop(dirs, base, mode, tid))
  <1> DEFINE n == Len(dirs)
             step == [i \in 1..n |-> [o \in ScanOut |-> DirScan(o, dirs[i], mode, tid)]]
  <1>1. n \in Nat /\ DOMAIN dirs = 1..n /\ \A i \in 1..n : dirs[i] \in Seq(Task)
    BY SMT
  <1>3. \A i \in 1..n : \A o \in ScanOut : DirScan(o, dirs[i], mode, tid) \in ScanOut
    BY <1>1, DirScanType
  <1>4. step \in [1..n -> [ScanOut -> ScanOut]]
    BY <1>3
  <1>5. PICK g \in [SUBSET (1..n) -> ScanOut] : SeqFoldOf(g, n, base, step)
    <2> HIDE DEF step, n
    <2> QED
      BY <1>1, <1>4, SeqFoldExists
  <1> HIDE DEF n
  <1>f. \A s \in SUBSET (1..n) : g[s] = IF s = {} THEN base ELSE step[Max(s)][g[s \ {Max(s)}]]
    BY <1>5 DEF SeqFoldOf
  <1>6. ASSUME NEW s \in SUBSET (1..n)
        PROVE  g[s] = IF s = {} THEN base ELSE DirScan(g[s \ {Max(s)}], dirs[Max(s)], mode, tid)
    <2>1. CASE s = {}
      BY <1>f, <2>1
    <2>2. CASE s # {}
      <3>1. g[s] = step[Max(s)][g[s \ {Max(s)}]]
        BY <1>f, <2>2
      <3>2. Max(s) \in s
        BY <1>1, <2>2, MaxIn
      <3>3. Max(s) \in 1..n /\ g[s \ {Max(s)}] \in ScanOut
        BY <3>2
      <3> QED
        BY <2>2, <3>1, <3>3
    <2> QED
      BY <2>1, <2>2
  <1>7. g = [s \in SUBSET DOMAIN dirs |->
                IF s = {} THEN base ELSE DirScan(g[s \ {Max(s)}], dirs[Max(s)], mode, tid)]
    BY <1>1, <1>6
  <1> DEFINE F == DirFolds(dirs, base, mode, tid)
  <1>8. F = [s \in SUBSET DOMAIN dirs |->
                IF s = {} THEN base ELSE DirScan(F[s \ {Max(s)}], dirs[Max(s)], mode, tid)]
    BY <1>7 DEF DirFolds
  <1>9. DirLoop(dirs, base, mode, tid) = F[DOMAIN dirs]
    BY DEF DirLoop, ForEach, MapThenFoldSet, DirFolds
  <1> HIDE DEF F
  <1>10. \A s \in SUBSET (1..n) :
            F[s] = IF s = {} THEN base ELSE DirScan(F[s \ {Max(s)}], dirs[Max(s)], mode, tid)
    BY <1>1, <1>8
  <1> DEFINE outs == [k \in 0..n |-> F[1..k]]
  <1>11. 0 \in 0..n /\ n \in 0..n /\ 1..0 = {} /\ {} \in SUBSET (1..n)
    BY <1>1, SMT
  <1>12. outs[0] = base
    BY <1>10, <1>11
  <1>13. ASSUME NEW k \in 1..n
         PROVE  outs[k] = DirScan(outs[k - 1], dirs[k], mode, tid)
    <2>1. k \in 0..n /\ k - 1 \in 0..n
      BY <1>1, SMT
    <2>2. /\ Max(1..k) = k /\ (1..k) \ {k} = 1..(k - 1)
          /\ 1..k # {} /\ 1..k \in SUBSET (1..n)
      BY <1>1, MaxPrefix
    <2>3. F[1..k] = DirScan(F[1..(k - 1)], dirs[k], mode, tid)
      BY <1>10, <2>2
    <2> QED
      BY <2>1, <2>3
  <1>14. outs[n] = F[DOMAIN dirs]
    BY <1>1, <1>11
  <1> QED
    BY <1>9, <1>12, <1>13, <1>14 DEF n, DirTurns

\* ScanGroup is the loop over the processes, started with nothing counted.
LEMMA GroupLoop ==
    ASSUME NEW dirs, NEW mode, NEW tid
    PROVE  ScanGroup(dirs, mode, tid) = DirLoop(dirs, NoThreads, mode, tid)
  BY DEF ScanGroup, DirLoop, DirScan, TaskLoop

\* The threads of a group, by their places.
TasksOf(dirs) == [p \in Places(dirs) |-> dirs[p[1]][p[2]]]

\* The readable threads the loops have come past when they are at task k of process d.
Passed(dirs, d, k) ==
    {p \in ReadablePlaces(dirs) : p[1] < d \/ (p[1] = d /\ p[2] <= k)}

\* A place is a process of the group and a thread of it.
LEMMA PlaceIs ==
    ASSUME NEW dirs \in Seq(Seq(Task))
    PROVE  /\ \A d \in 1..Len(dirs) : \A k \in 1..Len(dirs[d]) : <<d, k>> \in Places(dirs)
           /\ \A p \in Places(dirs) : /\ p[1] \in 1..Len(dirs) /\ p[2] \in 1..Len(dirs[p[1]])
                                      /\ p = <<p[1], p[2]>>
  <1>1. DOMAIN dirs = 1..Len(dirs) /\ \A d \in 1..Len(dirs) : dirs[d] \in Seq(Task)
    BY SMT
  <1>2. \A d \in 1..Len(dirs) : DOMAIN dirs[d] = 1..Len(dirs[d])
    BY <1>1, SMT
  <1>3. ASSUME NEW d \in 1..Len(dirs), NEW k \in 1..Len(dirs[d]) PROVE <<d, k>> \in Places(dirs)
    <2>1. <<d, k>> \in {d} \X DOMAIN dirs[d]
      BY <1>2
    <2> QED
      BY <1>1, <2>1 DEF Places
  <1>4. ASSUME NEW p \in Places(dirs)
        PROVE  /\ p[1] \in 1..Len(dirs) /\ p[2] \in 1..Len(dirs[p[1]])
               /\ p = <<p[1], p[2]>>
    <2>1. PICK d \in DOMAIN dirs : p \in {d} \X DOMAIN dirs[d]
      BY DEF Places
    <2> DEFINE U == DOMAIN dirs[d]
    <2>2. DOMAIN dirs[d] = 1..Len(dirs[d]) /\ d \in 1..Len(dirs)
      BY <1>1, <1>2
    <2>3. p[1] = d /\ p[2] \in U /\ p = <<p[1], p[2]>>
      <3>1. p \in {d} \X U
        BY <2>1
      <3> HIDE DEF U
      <3> QED
        BY <3>1, SMT
    <2> QED
      BY <2>2, <2>3
  <1> QED
    BY <1>3, <1>4

\* A group has finitely many threads.
LEMMA PlacesFinite ==
    ASSUME NEW dirs \in Seq(Seq(Task))
    PROVE  IsFiniteSet(Places(dirs))
  <1> DEFINE n == Len(dirs)
             At(d) == {d} \X DOMAIN dirs[d]
             R == {At(d) : d \in 1..n}
  <1>1. n \in Nat /\ DOMAIN dirs = 1..n /\ \A d \in 1..n : dirs[d] \in Seq(Task)
    BY SMT
  <1>2. ASSUME NEW d \in 1..n PROVE IsFiniteSet(At(d))
    <2>1. DOMAIN dirs[d] = 1..Len(dirs[d]) /\ Len(dirs[d]) \in Nat
      BY <1>1, SMT
    <2>2. IsFiniteSet(DOMAIN dirs[d])
      BY <2>1, FS_Interval, SMT
    <2>3. IsFiniteSet({d})
      BY FS_Singleton
    <2> QED
      BY <2>2, <2>3, FS_Product
  <1>3. IsFiniteSet(1..n)
    BY <1>1, FS_Interval, SMT
  <1>4. IsFiniteSet(R)
    <2> DEFINE f == [d \in 1..n |-> At(d)]
    <2>1. f \in Surjection(1..n, R)
      BY DEF Surjection
    <2> HIDE DEF f, R
    <2> QED
      BY <1>3, <2>1, FS_Surjection
  <1>5. \A x \in R : IsFiniteSet(x)
    BY <1>2
  <1>6. IsFiniteSet(UNION R)
    <2> HIDE DEF R
    <2> QED
      BY <1>4, <1>5, FS_UNION
  <1> QED
    BY <1>1, <1>6 DEF Places

\* The places before and after a thread.
PassedStep(dirs, d, k) ==
    LET D == Passed(dirs, d, k - 1)
        p == <<d, k>>
        T == TasksOf(dirs)
    IN  /\ D \in SUBSET Places(dirs) /\ p \in Places(dirs) \ D /\ T[p] = dirs[d][k]
        /\ Passed(dirs, d, k) = IF T[p].readable THEN D \cup {p} ELSE D

\* A turn of the inner loop comes past one thread, which it had not met before.
LEMMA PassedTask ==
    ASSUME NEW dirs \in Seq(Seq(Task)), NEW d \in 1..Len(dirs), NEW k \in 1..Len(dirs[d])
    PROVE  PassedStep(dirs, d, k)
  <1> DEFINE D == Passed(dirs, d, k - 1)
             p == <<d, k>>
             T == TasksOf(dirs)
  <1>0. Len(dirs) \in Nat /\ dirs[d] \in Seq(Task)
    BY SMT
  <1>1. Len(dirs[d]) \in Nat /\ d \in Nat /\ k \in Nat
    BY <1>0, SMT
  <1>2. p \in Places(dirs) /\ p[1] = d /\ p[2] = k
    BY PlaceIs
  <1>3. T[p] = dirs[d][k]
    BY <1>2 DEF TasksOf
  <1>4. \A q \in Places(dirs) : q[1] \in 1..Len(dirs) /\ q[2] \in 1..Len(dirs[q[1]]) /\ q = <<q[1], q[2]>>
    BY PlaceIs
  <1>5. D \in SUBSET Places(dirs) /\ Passed(dirs, d, k) \in SUBSET Places(dirs)
    BY DEF Passed, ReadablePlaces
  <1>6. p \notin D
    <2>1. ~(d < d) /\ ~(k <= k - 1)
      BY <1>1, SMT
    <2> QED
      BY <1>2, <2>1 DEF Passed
  <1>7. ASSUME NEW q \in Places(dirs)
        PROVE  (q[1] < d \/ (q[1] = d /\ q[2] <= k))
                 <=> (q[1] < d \/ (q[1] = d /\ q[2] <= k - 1) \/ q = p)
    <2>1. q[1] = d => q[2] \in 1..Len(dirs[d])
      BY <1>4
    <2>2. q[1] = d => (q[2] <= k <=> (q[2] <= k - 1 \/ q[2] = k))
      BY <1>1, <2>1, SMT
    <2>3. q = p <=> (q[1] = d /\ q[2] = k)
      BY <1>2, <1>4
    <2> QED
      BY <2>2, <2>3
  <1>8. T[p].readable <=> p \in ReadablePlaces(dirs)
    BY <1>2 DEF ReadablePlaces, TasksOf
  <1>9. Passed(dirs, d, k) = IF T[p].readable THEN D \cup {p} ELSE D
    <2>1. \A q : q \in Passed(dirs, d, k) <=> (q \in D \/ (q = p /\ p \in ReadablePlaces(dirs)))
      <3>1. \A q : q \in ReadablePlaces(dirs) => q \in Places(dirs)
        BY DEF ReadablePlaces
      <3> HIDE DEF p
      <3> QED
        BY <1>7, <3>1 DEF Passed
    <2> HIDE DEF p, T, D
    <2> QED
      BY <1>8, <2>1
  <1> QED
    BY <1>2, <1>3, <1>5, <1>6, <1>9 DEF PassedStep

\* The first thread of a process comes after the last one of the process before.
LEMMA PassedEnds ==
    ASSUME NEW dirs \in Seq(Seq(Task))
    PROVE  /\ Passed(dirs, 1, 0) = {}
           /\ Passed(dirs, Len(dirs) + 1, 0) = ReadablePlaces(dirs)
           /\ \A d \in 1..Len(dirs) : Passed(dirs, d, Len(dirs[d])) = Passed(dirs, d + 1, 0)
  <1>0. Len(dirs) \in Nat /\ \A d \in 1..Len(dirs) : dirs[d] \in Seq(Task)
    BY SMT
  <1>1. \A d \in 1..Len(dirs) : Len(dirs[d]) \in Nat
    BY <1>0, SMT
  <1>2. \A q \in ReadablePlaces(dirs) : q[1] \in 1..Len(dirs) /\ q[2] \in 1..Len(dirs[q[1]])
    BY PlaceIs DEF ReadablePlaces
  <1>3. ASSUME NEW q \in ReadablePlaces(dirs)
        PROVE  /\ ~(q[1] < 1 \/ (q[1] = 1 /\ q[2] <= 0))
               /\ q[1] < Len(dirs) + 1
               /\ \A d \in 1..Len(dirs) :
                     (q[1] < d \/ (q[1] = d /\ q[2] <= Len(dirs[d])))
                       <=> (q[1] < d + 1 \/ (q[1] = d + 1 /\ q[2] <= 0))
    <2> DEFINE x == q[1]
               y == q[2]
               z == Len(dirs[x])
    <2>1. x \in 1..Len(dirs) /\ y \in 1..z /\ z \in Nat
      BY <1>1, <1>2
    <2>2. \A d \in 1..Len(dirs) : x = d => z = Len(dirs[d])
      OBVIOUS
    <2> HIDE DEF x, y, z
    <2>3. ~(x < 1 \/ (x = 1 /\ y <= 0)) /\ x < Len(dirs) + 1
      BY <1>0, <2>1, SMT
    <2>4. ASSUME NEW d \in 1..Len(dirs)
          PROVE  (x < d \/ (x = d /\ y <= Len(dirs[d]))) <=> (x < d + 1 \/ (x = d + 1 /\ y <= 0))
      <3>1. x = d => y <= Len(dirs[d])
        <4>1. y <= z
          BY <2>1, SMT
        <4> QED
          BY <2>2, <4>1
      <3>2. ~(y <= 0) /\ ((x < d \/ x = d) <=> x < d + 1)
        BY <1>0, <2>1, SMT
      <3> QED
        BY <3>1, <3>2
    <2> QED
      BY <2>3, <2>4 DEF x, y
  <1>4. Passed(dirs, 1, 0) = {}
    BY <1>3 DEF Passed
  <1>5. Passed(dirs, Len(dirs) + 1, 0) = ReadablePlaces(dirs)
    BY <1>3 DEF Passed
  <1>6. \A d \in 1..Len(dirs) : Passed(dirs, d, Len(dirs[d])) = Passed(dirs, d + 1, 0)
    BY <1>3 DEF Passed
  <1> QED
    BY <1>4, <1>5, <1>6

\* Every place of the group holds a thread.
LEMMA TasksType ==
    ASSUME NEW dirs \in Seq(Seq(Task))
    PROVE  TasksOf(dirs) \in [Places(dirs) -> Task]
  <1>1. ASSUME NEW p \in Places(dirs) PROVE dirs[p[1]][p[2]] \in Task
    <2>1. p[1] \in 1..Len(dirs) /\ p[2] \in 1..Len(dirs[p[1]])
      BY PlaceIs
    <2>2. dirs[p[1]] \in Seq(Task)
      BY <2>1, SMT
    <2> QED
      BY <2>1, <2>2, SMT
  <1> QED
    BY <1>1 DEF TasksOf

\* What the loops keep at task k of process d.
CountedAt(out, dirs, d, k, mode, tid) ==
    Counted(out, Passed(dirs, d, k), TasksOf(dirs), mode, tid)

\* The loop over a task directory keeps the counts, by induction on its threads.
LEMMA DirCounted ==
    ASSUME NEW dirs \in Seq(Seq(Task)), NEW d \in 1..Len(dirs), NEW mode, NEW tid,
           NEW out, CountedAt(out, dirs, d, 0, mode, tid)
    PROVE  CountedAt(DirScan(out, dirs[d], mode, tid), dirs, d + 1, 0, mode, tid)
  <1> DEFINE dir == dirs[d]
             n == Len(dir)
             base == [out EXCEPT !.scanned = 0]
             T == TasksOf(dirs)
             S == Places(dirs)
             result == DirScan(out, dir, mode, tid)
  <1>1. dir \in Seq(Task)
    BY SMT
  <1>2. n \in Nat
    BY <1>1, SMT
  <1>3. IsFiniteSet(S) /\ T \in [S -> Task]
    BY PlacesFinite, TasksType
  <1>4. base \in ScanOut /\ CountedAt(base, dirs, d, 0, mode, tid)
    <2>1. out \in ScanOut
      BY DEF CountedAt, Counted
    <2>2. /\ base \in ScanOut /\ base.scanned = 0 /\ base.total = out.total
          /\ base.states = out.states
          /\ base.truncated = out.truncated /\ base.candidates = out.candidates
      BY <2>1, Rewound
    <2> HIDE DEF base
    <2>3. ~(base.scanned > 0)
      BY <2>2, SMT
    <2> QED
      BY <2>2, <2>3 DEF CountedAt, Counted, Exact
  <1> HIDE DEF base, dir, n
  <1>5. PICK outs : TaskTurns(outs, dir, base, mode, tid, TaskLoop(dir, base, mode, tid))
    BY <1>1, <1>4, TaskLoopTurns
  <1> DEFINE P == {k \in Nat : k <= n => CountedAt(outs[k], dirs, d, k, mode, tid)}
  <1>6. 0 \in P
    BY <1>4, <1>5 DEF TaskTurns
  <1>7. ASSUME NEW k \in P PROVE k + 1 \in P
    <2>0. k \in Nat /\ k + 1 \in Nat
      <3>1. k \in Nat
        OBVIOUS
      <3> QED
        BY <3>1, SMT
    <2> SUFFICES ASSUME k + 1 <= n PROVE CountedAt(outs[k + 1], dirs, d, k + 1, mode, tid)
      BY <2>0
    <2> DEFINE j == k + 1
               p == <<d, j>>
               D == Passed(dirs, d, k)
    <2>1. j \in 1..n /\ j - 1 = k /\ k <= n
      BY <1>2, <2>0, SMT
    <2>2. CountedAt(outs[k], dirs, d, k, mode, tid)
      BY <2>0, <2>1
    <2> HIDE DEF j
    <2>3. outs[j] = ScanTask(outs[k], dir[j], mode, tid)
      <3>1. outs[j] = ScanTask(outs[j - 1], dir[j], mode, tid)
        BY <1>5, <2>1 DEF TaskTurns, n
      <3> QED
        BY <2>1, <3>1
    <2>4. PassedStep(dirs, d, j)
      BY <2>1, PassedTask DEF n, dir
    <2>5. /\ D \in SUBSET S /\ p \in S \ D /\ T[p] = dir[j]
          /\ Passed(dirs, d, j) = IF T[p].readable THEN D \cup {p} ELSE D
      BY <2>1, <2>4 DEF PassedStep, dir
    <2>6. Counted(outs[k], D, T, mode, tid)
      BY <2>2 DEF CountedAt
    <2>7. outs[j] = ScanTask(outs[k], T[p], mode, tid)
      BY <2>3, <2>5
    <2> HIDE DEF p, D, T, S
    <2>8. Counted(outs[j], Passed(dirs, d, j), T, mode, tid)
      BY <1>3, <2>5, <2>6, <2>7, CountedTurn
    <2> QED
      BY <2>8 DEF CountedAt, T, j
  <1>8. P = Nat
    <2>1. P \in SUBSET Nat
      OBVIOUS
    <2> HIDE DEF P
    <2> QED
      BY <1>6, <1>7, <2>1, NatSetInduction
  <1>9. n \in P /\ n <= n
    <2>1. n <= n
      BY <1>2, SMT
    <2> QED
      BY <1>2, <1>8, <2>1
  <1>10. CountedAt(outs[n], dirs, d, n, mode, tid)
    BY <1>9
  <1>11. outs[n] = result
    BY <1>5 DEF TaskTurns, n, DirScan, base
  <1>12. Passed(dirs, d, n) = Passed(dirs, d + 1, 0)
    BY PassedEnds DEF n, dir
  <1> HIDE DEF result
  <1>13. CountedAt(result, dirs, d + 1, 0, mode, tid)
    BY <1>10, <1>11, <1>12 DEF CountedAt
  <1> QED
    BY <1>13 DEF result, dir

\* So does the loop over the processes.
LEMMA GroupCounted ==
    ASSUME NEW dirs \in Seq(Seq(Task)), NEW mode, NEW tid
    PROVE  Counted(ScanGroup(dirs, mode, tid), ReadablePlaces(dirs), TasksOf(dirs), mode, tid)
  <1> DEFINE n == Len(dirs)
  <1>1. n \in Nat
    BY SMT
  <1>2. NoThreads \in ScanOut /\ CountedAt(NoThreads, dirs, 1, 0, mode, tid)
    <2> DEFINE zero == [s \in ThreadStates |-> 0]
    <2>1. 0 \in Nat /\ 0 \in 0..U16Max /\ ~(0 > 0)
      BY ThreadGroupAssumption, SMT
    <2>2. zero \in [ThreadStates -> 0..U16Max] /\ <<>> \in Seq(Candidate)
      <3>1. <<>> \in Seq(Candidate)
        BY SMT
      <3> QED
        BY <2>1, <3>1
    <2>3. NoThreads \in ScanOut
      BY <2>1, <2>2 DEF NoThreads, ScanOut
    <2>4. /\ NoThreads.total = 0 /\ NoThreads.scanned = 0 /\ NoThreads.states = zero
          /\ NoThreads.candidates = <<>>
      BY DEF NoThreads
    <2>5. Passed(dirs, 1, 0) = {}
      BY PassedEnds
    <2>6. Cardinality({}) = 0 /\ \A s : {p \in {} : StateOf(TasksOf(dirs)[p]) = s} = {}
      BY FS_EmptySet
    <2>7. Exact(NoThreads, {}, TasksOf(dirs))
      BY <2>4, <2>6 DEF Exact
    <2>8. CandidatesExact(<<>>, {}, TasksOf(dirs), tid)
      <3>1. DOMAIN <<>> = {}
        BY SMT
      <3> QED
        BY <3>1 DEF CandidatesExact
    <2> QED
      BY <2>1, <2>3, <2>4, <2>5, <2>7, <2>8 DEF CountedAt, Counted
  <1>3. PICK outs : DirTurns(outs, dirs, NoThreads, mode, tid, DirLoop(dirs, NoThreads, mode, tid))
    BY <1>2, DirLoopTurns
  <1> HIDE DEF n
  <1> DEFINE P == {k \in Nat : k <= n => CountedAt(outs[k], dirs, k + 1, 0, mode, tid)}
  <1>4. 0 \in P
    <2>1. 0 + 1 = 1 /\ 0 \in Nat
      BY SMT
    <2> QED
      BY <1>2, <1>3, <2>1 DEF DirTurns
  <1>5. ASSUME NEW k \in P PROVE k + 1 \in P
    <2>0. k \in Nat /\ k + 1 \in Nat
      <3>1. k \in Nat
        OBVIOUS
      <3> QED
        BY <3>1, SMT
    <2> SUFFICES ASSUME k + 1 <= n PROVE CountedAt(outs[k + 1], dirs, (k + 1) + 1, 0, mode, tid)
      BY <2>0
    <2> DEFINE d == k + 1
    <2>1. d \in 1..n /\ d - 1 = k /\ k <= n
      BY <1>1, <2>0, SMT
    <2>2. CountedAt(outs[k], dirs, d, 0, mode, tid)
      BY <2>0, <2>1
    <2> HIDE DEF d
    <2>3. outs[d] = DirScan(outs[k], dirs[d], mode, tid)
      <3>1. outs[d] = DirScan(outs[d - 1], dirs[d], mode, tid)
        BY <1>3, <2>1 DEF DirTurns, n
      <3> QED
        BY <2>1, <3>1
    <2>4. CountedAt(outs[d], dirs, d + 1, 0, mode, tid)
      <3>1. CountedAt(DirScan(outs[k], dirs[d], mode, tid), dirs, d + 1, 0, mode, tid)
        BY <2>1, <2>2, DirCounted DEF n
      <3> QED
        BY <2>3, <3>1
    <2> QED
      BY <2>4 DEF d
  <1>6. P = Nat
    <2>1. P \in SUBSET Nat
      OBVIOUS
    <2> HIDE DEF P
    <2> QED
      BY <1>4, <1>5, <2>1, NatSetInduction
  <1>7. n \in P /\ n <= n
    BY <1>1, <1>6, SMT
  <1>8. CountedAt(outs[n], dirs, n + 1, 0, mode, tid)
    BY <1>7
  <1>9. outs[n] = ScanGroup(dirs, mode, tid)
    BY <1>3, GroupLoop DEF DirTurns, n
  <1>10. Passed(dirs, n + 1, 0) = ReadablePlaces(dirs)
    BY PassedEnds DEF n
  <1> QED
    BY <1>8, <1>9, <1>10 DEF CountedAt

\* The sums over parts of M, as MapThenSumSet builds them.
ShareSums(dirs, M) ==
    CHOOSE g : g = [s \in SUBSET M |->
                      IF s = {} THEN 0 ELSE dirs[Pick(s)[1]][Pick(s)[2]].share + g[s \ {Pick(s)}]]

\* MapThenSumSet is the last of these sums.
LEMMA ShareSum ==
    ASSUME NEW dirs, NEW M
    PROVE  MapThenSumSet(LAMBDA p : dirs[p[1]][p[2]].share, M) = ShareSums(dirs, M)[M]
  BY DEF MapThenSumSet, MapThenFoldSet, ShareSums, Pick

\* They are the sums of the shares taken as a function.
LEMMA ShareSumIs ==
    ASSUME NEW dirs, NEW M, NEW f, f = [p \in M |-> dirs[p[1]][p[2]].share]
    PROVE  ShareSums(dirs, M) = Sums(f)
  <1> DEFINE A(g) == [s \in SUBSET M |->
                      IF s = {} THEN 0 ELSE dirs[Pick(s)[1]][Pick(s)[2]].share + g[s \ {Pick(s)}]]
             B(g) == [s \in SUBSET DOMAIN f |->
                              IF s = {} THEN 0 ELSE f[Pick(s)] + g[s \ {Pick(s)}]]
  <1>0. DOMAIN f = M /\ \A p \in M : f[p] = dirs[p[1]][p[2]].share
    OBVIOUS
  <1>1. ASSUME NEW g PROVE A(g) = B(g)
    <2>1. \A s \in SUBSET M : s # {} => f[Pick(s)] = dirs[Pick(s)[1]][Pick(s)[2]].share
      BY <1>0, PickIn
    <2> QED
      BY <1>0, <2>1
  <1> HIDE DEF A, B
  <1>2. \A g : (g = A(g)) = (g = B(g))
    BY <1>1
  <1>3. (CHOOSE g : g = A(g)) = (CHOOSE g : g = B(g))
    BY <1>2
  <1> QED
    BY <1>3 DEF A, B, ShareSums, Sums

\* The first n places hold n candidates, and no other one comes before any of them.
Ordered(top, c, n) ==
    /\ top \in [1..n -> DOMAIN c]
    /\ \A i, k \in 1..n : top[i] = top[k] => i = k
    /\ \A i \in 1..n : \A j \in DOMAIN c \ {top[k] : k \in 1..n} : c[j].share <= c[top[i]].share

\* Whatever order qsort gives to equal candidates, the first n places are ordered.
LEMMA TopOrdered ==
    ASSUME NEW c \in Seq(Candidate), NEW n \in Nat, n <= Len(c), NEW top \in TopLists(c, n)
    PROVE  Ordered(top, c, n)
  <1> DEFINE Before(i) == {top[k] : k \in 1..(i - 1)}
  <1>1. top \in [1..n -> DOMAIN c]
    BY DEF TopLists
  <1>2. \A i \in 1..n : \A j \in DOMAIN c \ Before(i) :
           top[i] \notin Before(i) /\ ~compare_thread_candidates(c[j], c[top[i]])
    BY DEF TopLists
  <1>d. DOMAIN c = 1..Len(c) /\ Len(c) \in Nat
    BY SMT
  <1>3. ASSUME NEW i \in 1..n PROVE \E j \in DOMAIN c : j \notin Before(i)
    <2>1. IsFiniteSet(1..(i - 1)) /\ Cardinality(1..(i - 1)) = i - 1
      <3>1. IsFiniteSet(1..(i - 1)) /\ Cardinality(1..(i - 1)) = IF 1 > i - 1 THEN 0 ELSE (i - 1) - 1 + 1
        BY FS_Interval, SMT
      <3> QED
        BY <3>1, SMT
    <2>2. IsFiniteSet(Before(i)) /\ Cardinality(Before(i)) <= i - 1
      <3>1. Before(i) = Image(top, 1..(i - 1))
        BY DEF Image
      <3> HIDE DEF Before
      <3>2. /\ IsFiniteSet(Image(top, 1..(i - 1)))
            /\ Cardinality(Image(top, 1..(i - 1))) <= Cardinality(1..(i - 1))
        BY <2>1, FewImages
      <3> QED
        BY <2>1, <3>1, <3>2
    <2>3. IsFiniteSet(DOMAIN c) /\ Cardinality(DOMAIN c) = Len(c)
      <3>1. IsFiniteSet(1..Len(c)) /\ Cardinality(1..Len(c)) = IF 1 > Len(c) THEN 0 ELSE Len(c) - 1 + 1
        BY <1>d, FS_Interval, SMT
      <3> QED
        BY <1>d, <3>1, SMT
    <2> SUFFICES ASSUME \A j \in DOMAIN c : j \in Before(i) PROVE FALSE
      OBVIOUS
    <2>4. DOMAIN c \in SUBSET Before(i)
      OBVIOUS
    <2> HIDE DEF Before
    <2>5. Cardinality(DOMAIN c) <= Cardinality(Before(i))
      BY <2>2, <2>4, FS_Subset
    <2>6. Cardinality(Before(i)) \in Nat
      BY <2>2, FS_CardinalityType
    <2> QED
      BY <1>d, <2>2, <2>3, <2>5, <2>6, SMT
  <1>4. \A i \in 1..n : top[i] \notin Before(i)
    BY <1>2, <1>3
  <1>5. ASSUME NEW i \in 1..n, NEW k \in 1..n, k < i PROVE top[i] # top[k]
    <2>1. k \in 1..(i - 1)
      BY <1>5, SMT
    <2> QED
      BY <1>4, <2>1
  <1>6. ASSUME NEW i \in 1..n, NEW k \in 1..n, top[i] = top[k] PROVE i = k
    <2>1. ~(k < i) /\ ~(i < k)
      BY <1>5, <1>6
    <2> QED
      BY <2>1, SMT
  <1>7. ASSUME NEW i \in 1..n, NEW j \in DOMAIN c \ {top[k] : k \in 1..n}
        PROVE  c[j].share <= c[top[i]].share
    <2>1. \A k \in 1..(i - 1) : k \in 1..n
      BY SMT
    <2>2. j \notin Before(i)
      BY <1>7, <2>1
    <2>3. ~compare_thread_candidates(c[j], c[top[i]])
      BY <1>2, <2>2
    <2>4. c[j] \in Candidate /\ c[top[i]] \in Candidate
      BY <1>1, SMT
    <2>5. c[j].share \in Nat /\ c[top[i]].share \in Nat
      BY <2>4 DEF Candidate
    <2>6. ~(c[j].share > c[top[i]].share)
      BY <2>3 DEF compare_thread_candidates
    <2> QED
      BY <2>5, <2>6, SMT
  <1> QED
    BY <1>1, <1>6, <1>7 DEF Ordered

\* The threads of a group that count as the candidate id, and what they used.
GroupOf(dirs, id, tid) ==
    {p \in ReadablePlaces(dirs) : Identity(dirs[p[1]][p[2]], tid) = id}

GroupShare(dirs, id, tid) ==
    MapThenSumSet(LAMBDA p : dirs[p[1]][p[2]].share, GroupOf(dirs, id, tid))

\* The candidates of a group.
GroupIds(dirs, tid) == {Identity(dirs[p[1]][p[2]], tid) : p \in ReadablePlaces(dirs)}

\* The summed share of some threads of the group, as the loops accumulate it.
LEMMA GroupShareIs ==
    ASSUME NEW dirs \in Seq(Seq(Task)), NEW M \in SUBSET Places(dirs)
    PROVE  MapThenSumSet(LAMBDA p : dirs[p[1]][p[2]].share, M)
             = Sums(ShareOfTask(TasksOf(dirs)))[M]
  <1> DEFINE S == Places(dirs)
             T == TasksOf(dirs)
             f == ShareOfTask(T)
             g == [p \in M |-> dirs[p[1]][p[2]].share]
  <1>1. IsFiniteSet(S) /\ T \in [S -> Task]
    BY PlacesFinite, TasksType
  <1>2. \A p \in S : T[p].share \in Int /\ T[p] = dirs[p[1]][p[2]]
    <2>1. \A p \in S : T[p] = dirs[p[1]][p[2]]
      BY DEF TasksOf
    <2>2. \A p \in S : T[p].share \in Nat
      <3> HIDE DEF T
      <3> QED
        BY <1>1 DEF Task
    <2> HIDE DEF T
    <2> QED
      BY <2>1, <2>2, SMT
  <1>3. f \in [S -> Int] /\ \A p \in S : f[p] = dirs[p[1]][p[2]].share
    <2> HIDE DEF T
    <2> QED
      BY <1>1, <1>2 DEF ShareOfTask
  <1>4. g \in [M -> Int] /\ \A p \in M : g[p] = f[p]
    <2> HIDE DEF f
    <2> QED
      BY <1>3
  <1>5. ShareSums(dirs, M) = Sums(g)
    BY ShareSumIs
  <1>s. M \in SUBSET S
    OBVIOUS
  <1> HIDE DEF f, g, S, T
  <1>6. Sums(g)[M] = Sums(f)[M]
    <2>1. Agree(f, g, M)
      BY <1>4 DEF Agree
    <2>2. IsFiniteSet(S) /\ f \in [S -> Int] /\ g \in [M -> Int] /\ M \in SUBSET S
      BY <1>1, <1>3, <1>4, <1>s
    <2> QED
      BY <2>1, <2>2, SumPart, ZenonT(30)
  <1> QED
    BY <1>5, <1>6, ShareSum DEF f, T

\* The candidates are the ones of the group.
Summed(c, dirs, tid) ==
    /\ \A i, j \in DOMAIN c : c[i].id = c[j].id => i = j
    /\ \A id : id \in GroupIds(dirs, tid) <=> \E i \in DOMAIN c : c[i].id = id
    /\ \A i \in DOMAIN c : /\ c[i].inst_count = Cardinality(GroupOf(dirs, c[i].id, tid))
                           /\ c[i].share = GroupShare(dirs, c[i].id, tid)

\* The candidates the loops leave are the ones of the group.
LEMMA ExactSummed ==
    ASSUME NEW dirs \in Seq(Seq(Task)), NEW tid, NEW c,
           CandidatesExact(c, ReadablePlaces(dirs), TasksOf(dirs), tid)
    PROVE  Summed(c, dirs, tid)
  <1> DEFINE R == ReadablePlaces(dirs)
             T == TasksOf(dirs)
  <1>1. R \in SUBSET Places(dirs) /\ \A p \in R : T[p] = dirs[p[1]][p[2]]
    BY DEF ReadablePlaces, TasksOf
  <1> HIDE DEF R, T
  <1>2. \A id : Members(R, T, id, tid) = GroupOf(dirs, id, tid)
    BY <1>1 DEF Members, GroupOf, R
  <1>3. ASSUME NEW id
        PROVE  /\ GroupOf(dirs, id, tid) \in SUBSET Places(dirs)
               /\ GroupShare(dirs, id, tid) = Sums(ShareOfTask(T))[GroupOf(dirs, id, tid)]
    <2>1. GroupOf(dirs, id, tid) \in SUBSET Places(dirs)
      BY <1>1 DEF GroupOf, R
    <2> QED
      BY <2>1, GroupShareIs DEF GroupShare, T
  <1>4. CandidatesExact(c, R, T, tid)
    BY DEF R, T
  <1>5. ASSUME NEW i \in DOMAIN c
        PROVE  /\ c[i].inst_count = Cardinality(GroupOf(dirs, c[i].id, tid))
               /\ c[i].share = GroupShare(dirs, c[i].id, tid)
               /\ GroupOf(dirs, c[i].id, tid) # {}
    <2> DEFINE m == Members(R, T, c[i].id, tid)
    <2>1. m # {} /\ c[i].inst_count = Cardinality(m) /\ c[i].share = Sums(ShareOfTask(T))[m]
      BY <1>4 DEF CandidatesExact
    <2>2. m = GroupOf(dirs, c[i].id, tid)
      BY <1>2
    <2>3. GroupShare(dirs, c[i].id, tid) = Sums(ShareOfTask(T))[GroupOf(dirs, c[i].id, tid)]
      BY <1>3
    <2> HIDE DEF m
    <2> QED
      BY <2>1, <2>2, <2>3
  <1>6. ASSUME NEW id PROVE id \in GroupIds(dirs, tid) <=> \E i \in DOMAIN c : c[i].id = id
    <2>1. ASSUME id \in GroupIds(dirs, tid) PROVE \E i \in DOMAIN c : c[i].id = id
      <3>1. PICK p \in R : id = Identity(dirs[p[1]][p[2]], tid)
        BY <2>1 DEF GroupIds, R
      <3>2. id = Identity(T[p], tid)
        BY <1>1, <3>1
      <3> QED
        BY <1>4, <3>2 DEF CandidatesExact
    <2>2. ASSUME NEW i \in DOMAIN c, c[i].id = id PROVE id \in GroupIds(dirs, tid)
      <3>1. PICK p : p \in GroupOf(dirs, id, tid)
        BY <1>5, <2>2
      <3> QED
        BY <3>1 DEF GroupOf, GroupIds
    <2> QED
      BY <2>1, <2>2
  <1> QED
    BY <1>4, <1>5, <1>6 DEF Summed, CandidatesExact

\* The loop of copy_thread_candidate over the first n places.
Copied(entry, c, top, n) == entry.top = [i \in 1..n |-> copy_thread_candidate(c[top[i]])]

\* The Top-N entry made from the candidates of the group.
LEMMA TopEntry ==
    ASSUME NEW dirs \in Seq(Seq(Task)), NEW tid, NEW top_n \in Nat,
           NEW c \in Seq(Candidate), Summed(c, dirs, tid),
           NEW n, n = Min({Len(c), top_n, MaxTopN}), NEW top \in TopLists(c, n),
           NEW entry, Copied(entry, c, top, n)
    PROVE  TopTrue(entry, dirs, tid, top_n)
  <1> DEFINE ids == GroupIds(dirs, tid)
             shown == {entry.top[i].id : i \in DOMAIN entry.top}
  <1>1. Len(c) \in Nat /\ MaxTopN \in Nat /\ DOMAIN c = 1..Len(c)
    BY ThreadGroupAssumption, SMT
  <1>2. n \in Nat /\ n <= Len(c)
    BY <1>1, LeastOfThree
  <1>3. Ordered(top, c, n)
    BY <1>2, TopOrdered
  <1>c. entry.top = [i \in 1..n |-> copy_thread_candidate(c[top[i]])]
    BY DEF Copied
  <1>4. DOMAIN entry.top = 1..n /\ Len(entry.top) = n
    BY <1>2, <1>c, SMT
  <1>5. ASSUME NEW i \in 1..n
        PROVE  /\ top[i] \in DOMAIN c /\ entry.top[i].id = c[top[i]].id
               /\ entry.top[i].share = Clamp(c[top[i]].share)
               /\ entry.top[i].inst_count = Clamp(c[top[i]].inst_count)
    <2>1. top[i] \in DOMAIN c
      BY <1>3 DEF Ordered
    <2>2. entry.top[i] = copy_thread_candidate(c[top[i]])
      BY <1>c
    <2> DEFINE x == c[top[i]]
    <2>3. entry.top[i] = [id |-> x.id, name |-> x.name, inst_count |-> Clamp(x.inst_count),
                          share |-> Clamp(x.share)]
      BY <2>2 DEF copy_thread_candidate
    <2> HIDE DEF x
    <2>4. /\ entry.top[i].id = x.id /\ entry.top[i].share = Clamp(x.share)
          /\ entry.top[i].inst_count = Clamp(x.inst_count)
      BY <2>3, SMT
    <2> QED
      BY <2>1, <2>4 DEF x
  <1>f. ASSUME NEW m \in Nat PROVE IsFiniteSet(1..m) /\ Cardinality(1..m) = m
    <2>1. IsFiniteSet(1..m) /\ Cardinality(1..m) = IF 1 > m THEN 0 ELSE m - 1 + 1
      BY FS_Interval, SMT
    <2> QED
      BY <2>1, SMT
  <1>6. Cardinality(shown) = n
    <2> DEFINE f == [i \in 1..n |-> c[top[i]].id]
    <2>1. shown = Image(f, 1..n)
      <3>1. \A i \in 1..n : f[i] = entry.top[i].id
        BY <1>5
      <3>2. \A x : x \in shown <=> \E i \in 1..n : x = entry.top[i].id
        BY <1>4
      <3>3. \A x : x \in Image(f, 1..n) <=> \E i \in 1..n : x = f[i]
        BY DEF Image
      <3> HIDE DEF f, shown
      <3>4. \A x : x \in shown <=> x \in Image(f, 1..n)
        <4>1. ASSUME NEW x \in shown PROVE x \in Image(f, 1..n)
          <5>1. PICK i \in 1..n : x = entry.top[i].id
            BY <3>2
          <5>2. x = f[i]
            BY <3>1, <5>1
          <5> QED
            BY <3>3, <5>2
        <4>2. ASSUME NEW x \in Image(f, 1..n) PROVE x \in shown
          <5>1. PICK i \in 1..n : x = f[i]
            BY <3>3
          <5>2. x = entry.top[i].id
            BY <3>1, <5>1
          <5> QED
            BY <3>2, <5>2
        <4> QED
          BY <4>1, <4>2
      <3> QED
        BY <3>4
    <2>2. OneToOne(f, 1..n)
      <3>1. ASSUME NEW a \in 1..n, NEW b \in 1..n, f[a] = f[b] PROVE a = b
        <4>1. c[top[a]].id = c[top[b]].id
          BY <3>1
        <4>2. top[a] \in DOMAIN c /\ top[b] \in DOMAIN c
          BY <1>5
        <4>3. top[a] = top[b]
          BY <4>1, <4>2 DEF Summed
        <4> QED
          BY <1>3, <4>3 DEF Ordered
      <3> QED
        BY <3>1 DEF OneToOne
    <2>3. IsFiniteSet(1..n) /\ Cardinality(1..n) = n
      BY <1>2, <1>f
    <2> HIDE DEF f, shown
    <2>4. Cardinality(Image(f, 1..n)) = Cardinality(1..n)
      BY <2>2, <2>3, ImageSize
    <2> QED
      BY <2>1, <2>3, <2>4
  <1>7. Cardinality(ids) = Len(c)
    <2> DEFINE f == [i \in DOMAIN c |-> c[i].id]
    <2>1. ids = Image(f, DOMAIN c)
      <3>1. \A id : id \in ids <=> \E i \in DOMAIN c : f[i] = id
        BY DEF Summed
      <3> HIDE DEF f, ids
      <3> QED
        BY <3>1 DEF Image
    <2>2. OneToOne(f, DOMAIN c)
      BY DEF Summed, OneToOne
    <2>3. IsFiniteSet(DOMAIN c) /\ Cardinality(DOMAIN c) = Len(c)
      BY <1>1, <1>f
    <2> HIDE DEF f, ids
    <2>4. Cardinality(Image(f, DOMAIN c)) = Cardinality(DOMAIN c)
      BY <2>2, <2>3, ImageSize
    <2> QED
      BY <2>1, <2>3, <2>4
  <1>8. Len(entry.top) = Min({Cardinality(ids), top_n, MaxTopN})
    BY <1>4, <1>7
  <1>9. ASSUME NEW i \in DOMAIN entry.top
        PROVE  /\ entry.top[i].id \in ids
               /\ entry.top[i].share = Clamp(GroupShare(dirs, entry.top[i].id, tid))
               /\ entry.top[i].inst_count = Clamp(Cardinality(GroupOf(dirs, entry.top[i].id, tid)))
    <2>1. i \in 1..n
      BY <1>4
    <2>2. /\ top[i] \in DOMAIN c /\ entry.top[i].id = c[top[i]].id
          /\ entry.top[i].share = Clamp(c[top[i]].share)
          /\ entry.top[i].inst_count = Clamp(c[top[i]].inst_count)
      BY <1>5, <2>1
    <2> HIDE DEF ids
    <2> QED
      BY <2>2 DEF Summed, ids
  <1>10. ASSUME NEW out \in ids \ shown, NEW in \in shown
         PROVE  GroupShare(dirs, out, tid) <= GroupShare(dirs, in, tid)
    <2>1. PICK j \in DOMAIN c : c[j].id = out
      BY DEF Summed
    <2>2. PICK i \in 1..n : in = c[top[i]].id
      <3>1. PICK i \in DOMAIN entry.top : in = entry.top[i].id
        BY <1>10
      <3>2. i \in 1..n
        BY <1>4
      <3> QED
        BY <1>5, <3>1, <3>2
    <2>3. j \notin {top[k] : k \in 1..n}
      <3>1. ASSUME NEW k \in 1..n PROVE j # top[k]
        <4>1. entry.top[k].id \in shown
          BY <1>4
        <4>2. entry.top[k].id = c[top[k]].id
          BY <1>5
        <4> HIDE DEF shown
        <4> QED
          BY <1>10, <2>1, <4>1, <4>2
      <3> QED
        BY <3>1
    <2>4. c[j].share <= c[top[i]].share
      BY <1>3, <2>3 DEF Ordered
    <2>5. c[j].share = GroupShare(dirs, out, tid) /\ c[top[i]].share = GroupShare(dirs, in, tid)
      BY <1>5, <2>1, <2>2 DEF Summed
    <2> QED
      BY <2>4, <2>5
  <1>11. Len(entry.top) = Cardinality(shown)
    BY <1>4, <1>6
  <1> QED
    BY <1>8, <1>9, <1>10, <1>11 DEF TopTrue, GroupIds, GroupShare, GroupOf

\* What collect_thread_group promises of an entry.
GroupTrue(entry, dirs, mode, tid, top_n) ==
    /\ CountsTrue(entry, dirs)
    /\ entry.total = 0 <=> ReadablePlaces(dirs) = {}
    /\ mode = "top" => TopTrue(entry, dirs, tid, top_n)

\* Every entry collect_thread_group may produce keeps the promise.
LEMMA GroupEntry ==
    ASSUME NEW dirs \in Seq(Seq(Task)), NEW mode, NEW tid, NEW top_n \in Nat,
           NEW entry \in collect_thread_group(dirs, mode, tid, top_n)
    PROVE  GroupTrue(entry, dirs, mode, tid, top_n)
  <1> DEFINE out == ScanGroup(dirs, mode, tid)
             n == IF mode # "top" THEN 0 ELSE Min({Len(out.candidates), top_n, MaxTopN})
             R == ReadablePlaces(dirs)
             T == TasksOf(dirs)
  <1>1. PICK top \in TopLists(out.candidates, n) :
           entry = [total |-> out.total, states |-> out.states, truncated |-> out.truncated,
                    top |-> [i \in 1..n |-> copy_thread_candidate(out.candidates[top[i]])]]
    BY DEF collect_thread_group
  <1>2. Counted(out, R, T, mode, tid)
    BY GroupCounted
  <1> HIDE DEF out, R, T, n
  <1>3. /\ entry.total = out.total /\ entry.states = out.states
        /\ entry.truncated = out.truncated
        /\ entry.top = [i \in 1..n |-> copy_thread_candidate(out.candidates[top[i]])]
    BY <1>1
  <1>4. out.truncated \in BOOLEAN /\ out.candidates \in Seq(Candidate)
    BY <1>2 DEF Counted, ScanOut
  <1>5. entry.total = 0 <=> R = {}
    BY <1>2, <1>3 DEF Counted
  <1>6. CASE out.truncated = TRUE
    <2>1. entry.truncated
      BY <1>3, <1>6
    <2> QED
      BY <1>5, <2>1 DEF GroupTrue, CountsTrue, TopTrue, R
  <1>7. CASE out.truncated = FALSE
    <2>1. CountsTrue(entry, dirs)
      <3>1. Exact(out, R, T)
        BY <1>2, <1>7 DEF Counted
      <3>2. \A p \in R : T[p] = dirs[p[1]][p[2]]
        BY DEF R, T, ReadablePlaces, TasksOf
      <3>3. \A s : {p \in R : StateOf(T[p]) = s}
                     = {p \in R : thread_state_index(dirs[p[1]][p[2]].letter) = s}
        BY <3>2 DEF StateOf
      <3>4. entry.total = Cardinality(R)
        BY <1>3, <3>1 DEF Exact
      <3>5. \A s \in ThreadStates :
               entry.states[s] = Cardinality({p \in R : thread_state_index(dirs[p[1]][p[2]].letter) = s})
        BY <1>3, <3>1, <3>3 DEF Exact
      <3> QED
        BY <3>4, <3>5 DEF CountsTrue, R
    <2>2. ASSUME mode = "top" PROVE TopTrue(entry, dirs, tid, top_n)
      <3>1. CandidatesExact(out.candidates, R, T, tid)
        BY <1>2, <1>7, <2>2 DEF Counted
      <3>2. Summed(out.candidates, dirs, tid)
        BY <3>1, ExactSummed DEF R, T
      <3>3. n = Min({Len(out.candidates), top_n, MaxTopN})
        BY <2>2 DEF n
      <3>4. Copied(entry, out.candidates, top, n)
        BY <1>3 DEF Copied
      <3> QED
        BY <1>1, <1>4, <3>2, <3>3, <3>4, TopEntry
    <2> QED
      BY <1>5, <2>1, <2>2 DEF GroupTrue, R
  <1> QED
    BY <1>4, <1>6, <1>7

\* The invariant: the configuration is a possible one, and the payload is true.
ThreadInv == cfg \in Configs /\ ThreadCountsTrue /\ TopNTrue

\* A payload of another collector promises nothing about threads.
LEMMA OtherPayload ==
    ASSUME cfg \in Configs, last.kind # "proc"
    PROVE  ThreadInv
  BY DEF ThreadInv, ThreadCountsTrue, TopNTrue

\* At the start there is no payload.
LEMMA InitThreads == Init => ThreadInv
  <1> SUFFICES ASSUME Init PROVE ThreadInv
    OBVIOUS
  <1>1. cfg \in Configs /\ last = NoPayload
    BY DEF Init
  <1>2. last.kind # "proc"
    BY <1>1 DEF NoPayload
  <1> QED
    BY <1>1, <1>2, OtherPayload

\* A list with room for every process of the group holds them all, and any list
\* threads of the group only.
LEMMA PidListOf ==
    ASSUME NEW dirs \in Seq(Seq(Task))
    PROVE  /\ PidList(dirs) \in Seq(Seq(Task))
           /\ Len(dirs) <= ListLimit => PidList(dirs) = dirs
           /\ ReadablePlaces(PidList(dirs)) # {} => ReadablePlaces(dirs) # {}
  <1> DEFINE m == Min({Len(dirs), ListLimit})
             short == SubSeq(dirs, 1, m)
  <1>1. Len(dirs) \in Nat /\ ListLimit \in Nat
    BY CollectorsAssumption, SMT
  <1>2. m \in Nat /\ m <= Len(dirs) /\ (Len(dirs) <= ListLimit => m = Len(dirs))
    <2> DEFINE s == {Len(dirs), ListLimit}
    <2>1. Min(s) \in s /\ \A y \in s : Min(s) <= y
      <3>1. \E x \in s : \A y \in s : x <= y
        BY <1>1, SMT
      <3> QED
        BY <3>1 DEF Min
    <2> HIDE DEF m
    <2>2. m \in {Len(dirs), ListLimit} /\ m <= Len(dirs) /\ m <= ListLimit
      BY <2>1 DEF m
    <2> QED
      BY <1>1, <2>2, SMT
  <1> HIDE DEF m
  <1>3. /\ short \in Seq(Seq(Task)) /\ Len(short) = m
        /\ \A d \in 1..m : short[d] = dirs[d]
    BY <1>1, <1>2, SMT
  <1>4. Len(dirs) <= ListLimit => short = dirs
    BY <1>1, <1>2, <1>3, SMT
  <1>5. ASSUME NEW p \in ReadablePlaces(short) PROVE p \in ReadablePlaces(dirs)
    <2>1. p \in Places(short) /\ short[p[1]][p[2]].readable
      BY DEF ReadablePlaces
    <2> HIDE DEF short
    <2>2. p[1] \in 1..m /\ p[2] \in 1..Len(short[p[1]]) /\ p = <<p[1], p[2]>>
      BY <1>3, <2>1, PlaceIs
    <2>3. short[p[1]] = dirs[p[1]]
      BY <1>3, <2>2
    <2>4. p[1] \in 1..Len(dirs)
      BY <1>1, <1>2, <2>2, SMT
    <2>5. <<p[1], p[2]>> \in Places(dirs)
      BY <2>2, <2>3, <2>4, PlaceIs
    <2> QED
      BY <2>1, <2>2, <2>3, <2>5 DEF ReadablePlaces
  <1>6. PidList(dirs) = short
    BY DEF PidList, m
  <1> QED
    BY <1>3, <1>4, <1>5, <1>6

\* A group with something to report gets into the payload if no more groups than it
\* holds have something to report.
LEMMA FirstOfFew ==
    ASSUME NEW groups \in SUBSET (1..Watched), NEW threaded \in SUBSET (1..Watched),
           groups \subseteq threaded, Cardinality(threaded) <= MaxProcGroups, NEW g \in groups
    PROVE  g \in FirstGroups(groups)
  <1> DEFINE less == {h \in groups : h < g}
             rest == threaded \ {g}
  <1>1. Watched \in Nat /\ MaxProcGroups \in Nat /\ g \in Nat
    BY GroupsAssumption, CollectorsAssumption, SMT
  <1>2. ~(g < g)
    BY <1>1, SMT
  <1>3. less \subseteq rest
    BY <1>2
  <1>4. IsFiniteSet(1..Watched)
    BY <1>1, FS_Interval, SMT
  <1>5. IsFiniteSet(threaded) /\ g \in threaded
    BY <1>4, FS_Subset
  <1>6. IsFiniteSet(rest)
    BY <1>5, FS_Subset
  <1>7. Cardinality(rest) = Cardinality(threaded) - 1
    BY <1>5, FS_RemoveElement
  <1> HIDE DEF less, rest
  <1>8. IsFiniteSet(less) /\ Cardinality(less) <= Cardinality(rest)
    BY <1>3, <1>6, FS_Subset
  <1>9. Cardinality(less) \in Nat /\ Cardinality(threaded) \in Nat
    BY <1>5, <1>8, FS_CardinalityType
  <1>10. Cardinality(less) < MaxProcGroups
    BY <1>1, <1>7, <1>8, <1>9, SMT
  <1> QED
    BY <1>10 DEF FirstGroups, less

\* proc_collect writes true entries.
LEMMA ProcCollected ==
    ASSUME cfg \in Configs, proc_collect
    PROVE  ThreadInv'
  <1>1. cfg' = cfg
    BY DEF proc_collect
  <1>2. CASE cfg.disabled
    <2>1. last' = NoPayload
      BY <1>2 DEF proc_collect
    <2>2. last'.kind # "proc"
      BY <2>1 DEF NoPayload
    <2> QED
      BY <1>1, <2>2 DEF ThreadInv, ThreadCountsTrue, TopNTrue
  <1>3. CASE ~cfg.disabled
    <2> DEFINE Found == [1..Watched -> {"absent", "unreadable", "read"}]
               Written(groups, entries, found) ==
                  last' = [kind |-> "proc", total |-> sctx, groups |-> groups,
                           spans |-> [g \in FirstGroups({h \in 1..Watched :
                                                 found[h] = "read" /\ proc[h] # None}) |-> proc[g]],
                           threads |-> [g \in FirstGroups({h \in 1..Watched :
                                                 cfg.mode # "off" /\ entries[h].total # 0}) |-> entries[g]]]
    <2>0. \E groups \in TaskDirs : \E entries \in ThreadEntries(groups) : \E found \in Found :
             Written(groups, entries, found)
      BY <1>3 DEF proc_collect
    <2> HIDE DEF Written, Found
    <2>1. PICK groups \in TaskDirs : \E entries \in ThreadEntries(groups) : \E found \in Found :
             Written(groups, entries, found)
      BY <2>0
    <2>e. PICK entries \in ThreadEntries(groups) : \E found \in Found : Written(groups, entries, found)
      BY <2>1
    <2>f. PICK found \in Found : Written(groups, entries, found)
      BY <2>e
    <2> DEFINE with == {h \in 1..Watched : cfg.mode # "off" /\ entries[h].total # 0}
               threaded == {g \in 1..Watched : ReadablePlaces(groups[g]) # {}}
    <2>2. last'.groups = groups /\ last'.threads = [g \in FirstGroups(with) |-> entries[g]]
      BY <2>f DEF Written
    <2>3. groups \in [1..Watched -> Seq(Seq(Task))]
      <3>1. <<>> \in Seq(Seq(Task))
        BY SMT
      <3> QED
        BY <3>1, GroupsAssumption DEF TaskDirs
    <2>4. cfg.top_n \in Nat
      BY ConfigsAssumption
    <2>5. ASSUME NEW g \in 1..Watched
          PROVE  /\ GroupTrue(entries[g], PidList(groups[g]), cfg.mode, cfg.include_tid, cfg.top_n)
                 /\ Len(groups[g]) <= ListLimit => PidList(groups[g]) = groups[g]
                 /\ ReadablePlaces(PidList(groups[g])) # {} => ReadablePlaces(groups[g]) # {}
      <3>1. entries[g] \in collect_thread_group(PidList(groups[g]), cfg.mode, cfg.include_tid, cfg.top_n)
        BY <2>e DEF ThreadEntries
      <3>2. groups[g] \in Seq(Seq(Task))
        BY <2>3
      <3>3. /\ PidList(groups[g]) \in Seq(Seq(Task))
            /\ Len(groups[g]) <= ListLimit => PidList(groups[g]) = groups[g]
            /\ ReadablePlaces(PidList(groups[g])) # {} => ReadablePlaces(groups[g]) # {}
        BY <3>2, PidListOf
      <3> QED
        BY <2>4, <3>1, <3>3, GroupEntry
    <2>6. FirstGroups(with) \subseteq with /\ with \subseteq 1..Watched
      BY DEF FirstGroups
    <2>7. DOMAIN last'.threads = FirstGroups(with) /\ DOMAIN last'.groups = 1..Watched
      BY <2>2, <2>3
    <2>8. ASSUME NEW g \in DOMAIN last'.threads, Len(last'.groups[g]) <= ListLimit
          PROVE  GroupTrue(last'.threads[g], last'.groups[g], cfg.mode, cfg.include_tid, cfg.top_n)
      <3>1. g \in 1..Watched /\ last'.threads[g] = entries[g] /\ last'.groups[g] = groups[g]
        BY <2>2, <2>6, <2>7
      <3> QED
        BY <2>5, <2>8, <3>1
    <2>9. ASSUME cfg.mode # "off", Cardinality(threaded) <= MaxProcGroups,
                 NEW g \in threaded, Len(groups[g]) <= ListLimit
          PROVE  g \in FirstGroups(with)
      <3>1. with \subseteq threaded
        BY <2>5 DEF GroupTrue
      <3>2. g \in with
        BY <2>5, <2>9 DEF GroupTrue
      <3> HIDE DEF with
      <3>3. with \in SUBSET (1..Watched) /\ threaded \in SUBSET (1..Watched)
        BY <2>6
      <3> HIDE DEF threaded
      <3> QED
        BY <2>9, <3>1, <3>2, <3>3, FirstOfFew
    <2>10. ThreadCountsTrue'
      <3>1. {g \in DOMAIN last'.groups : ReadablePlaces(last'.groups[g]) # {}} = threaded
        BY <2>2, <2>7
      <3>2. \A g \in DOMAIN last'.threads : Len(last'.groups[g]) <= ListLimit =>
               CountsTrue(last'.threads[g], last'.groups[g])
        BY <2>8 DEF GroupTrue
      <3>3. cfg.mode # "off" /\ Cardinality(threaded) <= MaxProcGroups =>
               \A g \in threaded : Len(last'.groups[g]) <= ListLimit => g \in DOMAIN last'.threads
        BY <2>2, <2>7, <2>9
      <3> HIDE DEF with, threaded
      <3> QED
        BY <1>1, <3>1, <3>2, <3>3 DEF ThreadCountsTrue, Tracked
    <2>11. TopNTrue'
      <3>1. \A g \in DOMAIN last'.threads :
               cfg.mode = "top" /\ Len(last'.groups[g]) <= ListLimit =>
                  TopTrue(last'.threads[g], last'.groups[g], cfg.include_tid, cfg.top_n)
        BY <2>8 DEF GroupTrue
      <3> QED
        BY <1>1, <3>1 DEF TopNTrue, Tracked
    <2> QED
      BY <1>1, <2>10, <2>11 DEF ThreadInv
  <1> QED
    BY <1>2, <1>3

\* Every step keeps the payload true.
LEMMA NextThreads == ThreadInv /\ [Next]_vars => ThreadInv'
  <1> SUFFICES ASSUME ThreadInv, [Next]_vars PROVE ThreadInv'
    OBVIOUS
  <1>0. cfg \in Configs
    BY DEF ThreadInv
  <1>a. cfg' \in Configs /\ last'.kind # "proc" => ThreadInv'
    BY DEF ThreadInv, ThreadCountsTrue, TopNTrue
  <1>1. CASE cpu_collect \/ cpu_collect_fails
    <2>1. cfg' = cfg
      BY <1>1 DEF cpu_collect, cpu_collect_fails
    <2>2. last' = NoPayload \/ \E d, h : last' = [kind |-> "cpu", diff |-> d, share |-> h]
      BY <1>1 DEF cpu_collect, cpu_collect_fails
    <2>3. last'.kind # "proc"
      BY <2>2, SMT DEF NoPayload
    <2> QED
      BY <1>0, <1>a, <2>1, <2>3
  <1>2. CASE mem_collect \/ mem_collect_fails \/ disk_collect_fails \/ push
    <2>1. cfg' = cfg /\ last' = NoPayload
      BY <1>2 DEF mem_collect, mem_collect_fails, disk_collect_fails, push
    <2>2. last'.kind # "proc"
      BY <2>1 DEF NoPayload
    <2> QED
      BY <1>0, <1>a, <2>1, <2>2
  <1>3. CASE net_collect \/ fs_collect
    <2>1. cfg' = cfg
      BY <1>3 DEF net_collect, fs_collect, ListCollect
    <2>2. last' = NoPayload \/ \E k \in {"net", "fs"} : \E x : last' = [kind |-> k, entries |-> x]
      BY <1>3 DEF net_collect, fs_collect, ListCollect
    <2>3. last'.kind # "proc"
      BY <2>2, SMT DEF NoPayload
    <2> QED
      BY <1>0, <1>a, <2>1, <2>3
  <1>4. CASE disk_collect
    <2>1. cfg' = cfg
      BY <1>4 DEF disk_collect
    <2>2. \E x, y, z : last' = [kind |-> "disk", entries |-> x, listed |-> y, before |-> z]
      BY <1>4 DEF disk_collect
    <2>3. last'.kind # "proc"
      BY <2>2, SMT
    <2> QED
      BY <1>0, <1>a, <2>1, <2>3
  <1>5. CASE proc_collect
    BY <1>0, <1>5, ProcCollected
  <1>6. CASE reload
    <2>1. cfg' \in Configs /\ last' = NoPayload
      BY <1>6 DEF reload
    <2>2. last'.kind # "proc"
      BY <2>1 DEF NoPayload
    <2> QED
      BY <1>a, <2>1, <2>2
  <1>7. CASE UNCHANGED vars
    <2>1. cfg' = cfg /\ last' = last
      BY <1>7 DEF vars
    <2> QED
      BY <2>1 DEF ThreadInv, ThreadCountsTrue, TopNTrue, Tracked
  <1> QED
    BY <1>1, <1>2, <1>3, <1>4, <1>5, <1>6, <1>7 DEF Next

\* collect_thread_group counts every readable thread of a group once and under its
\* state, or flags the entry as truncated, for every number of watch groups, scan limit
\* and table size, where the tracker lists every process of the group (ListLimit); and
\* such a group with a readable thread has an entry, where no more groups than a
\* payload holds have threads (MaxProcGroups).
THEOREM ThreadsCounted == Spec => []ThreadCountsTrue
  <1>1. ThreadInv => ThreadCountsTrue
    BY DEF ThreadInv
  <1> QED
    BY <1>1, InitThreads, NextThreads, PTL DEF Spec

\* The Top-N of collect_thread_group are the busiest candidates, each with all its
\* instances and their whole share, or the entry is flagged as truncated, for every
\* group whose processes the tracker lists, and whatever order qsort gives to candidates
\* that compare equal.
THEOREM BusiestShown == Spec => []TopNTrue
  <1>1. ThreadInv => TopNTrue
    BY DEF ThreadInv
  <1> QED
    BY <1>1, InitThreads, NextThreads, PTL DEF Spec
=============================================================================
