----------------------------- MODULE ThreadGroup -----------------------------
(***************************************************************************)
(* proc.c, collect_thread_group: one pass over the threads of a process    *)
(* group, which counts them by scheduling state, adds up the CPU shares of *)
(* those that count as one candidate, and keeps the Top-N.                 *)
(*                                                                         *)
(* The group is a sequence of task directories, one per process, and a     *)
(* directory a sequence of tasks in the order of readdir.  A name is a     *)
(* number, so that strcmp is the order of the numbers.                     *)
(***************************************************************************)
EXTENDS Naturals, Sequences, FiniteSets, FiniteSetsExt, Folds

CONSTANTS
    U16Max,        \* UINT16_MAX
    Candidates,    \* TF_THREAD_CANDIDATES
    ScanLimit,     \* TF_THREAD_SCAN_LIMIT_PER_PID
    MaxTopN        \* TF_MAX_THREAD_TOP_N

ASSUME ThreadGroupAssumption ==
    U16Max \in Nat \ {0} /\ Candidates \in Nat \ {0} /\ ScanLimit \in Nat \ {0} /\ MaxTopN \in Nat

\* A loop over a sequence: op maps the outcome of the turns so far and the next
\* element to the outcome.
ForEach(op(_, _), start, seq) ==
    MapThenFoldSet(LAMBDA i, out : op(out, seq[i]), start, LAMBDA i : i, Max, DOMAIN seq)

Clamp(n) == IF n > U16Max THEN U16Max ELSE n

\* A task is a record: pid, tid and name; whether its stat file could be parsed
\* (readable); its state letter; whether find_thread_slot had a slot for it; and
\* the share computed from its ticks.

-----------------------------------------------------------------------------
(* Counting.                                                               *)

ThreadStates == {"R", "S", "D", "T", "Z", "I", "other"}

thread_state_index(letter) ==
    CASE letter = "t" -> "T"
      [] letter \in ThreadStates -> letter
      [] OTHER -> "other"

NoThreads ==
    [scanned |-> 0, total |-> 0, states |-> [s \in ThreadStates |-> 0],
     truncated |-> FALSE, candidates |-> <<>>]

\* Mutant: the counter stops at its limit in silence.
CountTaskSilent(out, state) ==
    [out EXCEPT !.total = Clamp(@ + 1), !.states[state] = Clamp(@ + 1)]

\* The two calls of increment_u16.
CountTask(out, state) ==
    [out EXCEPT !.total = Clamp(@ + 1), !.states[state] = Clamp(@ + 1),
                !.truncated = @ \/ out.total = U16Max \/ out.states[state] = U16Max]

-----------------------------------------------------------------------------
(* Candidates.                                                             *)

\* What makes two tasks the same candidate.
Identity(task, include_tid) ==
    IF include_tid THEN <<task.pid, task.tid>> ELSE <<task.name>>

\* Mutant: a full table replaces its last candidate.
add_thread_candidateEvicts(out, task, share, include_tid) ==
    LET id == Identity(task, include_tid)
        new == [id |-> id, name |-> task.name, inst_count |-> 1, share |-> share]
        same == {i \in DOMAIN out.candidates : out.candidates[i].id = id}
    IN  IF same # {}
          THEN [out EXCEPT !.candidates[Min(same)].inst_count = @ + 1,
                           !.candidates[Min(same)].share = @ + share]
          ELSE IF Len(out.candidates) >= Candidates
                 THEN [out EXCEPT !.candidates[Candidates] = new]
                 ELSE [out EXCEPT !.candidates = Append(@, new)]

\* A full table returns -1, which the caller turns into the TRUNCATED flag.
add_thread_candidate(out, task, share, include_tid) ==
    LET id == Identity(task, include_tid)
        new == [id |-> id, name |-> task.name, inst_count |-> 1, share |-> share]
        same == {i \in DOMAIN out.candidates : out.candidates[i].id = id}
    IN  IF same # {}
          THEN [out EXCEPT !.candidates[Min(same)].inst_count = @ + 1,
                           !.candidates[Min(same)].share = @ + share]
          ELSE IF Len(out.candidates) >= Candidates
                 THEN [out EXCEPT !.truncated = TRUE]
                 ELSE [out EXCEPT !.candidates = Append(@, new)]

\* One turn of the loop over a task directory.  A task beyond the scan limit
\* ends the loop; the ones after it then change nothing more.
ScanTask(out, task, mode, include_tid) ==
    IF out.scanned >= ScanLimit
      THEN [out EXCEPT !.truncated = TRUE]
      ELSE IF ~task.readable
             THEN out
             ELSE LET counted == CountTask([out EXCEPT !.scanned = @ + 1],
                                           thread_state_index(task.letter))
                  IN  IF mode # "top"
                        THEN counted
                        ELSE add_thread_candidate(
                               [counted EXCEPT !.truncated = @ \/ ~task.slot],
                               task, IF task.slot THEN task.share ELSE 0, include_tid)

ScanGroup(dirs, mode, include_tid) ==
    ForEach(LAMBDA out, dir :
                ForEach(LAMBDA o, t : ScanTask(o, t, mode, include_tid),
                        [out EXCEPT !.scanned = 0], dir),
            NoThreads, dirs)

-----------------------------------------------------------------------------
(* Top-N.                                                                  *)

\* compare_thread_candidates(a, b) < 0
compare_thread_candidates(a, b) ==
    a.share > b.share \/ (a.share = b.share /\ a.name < b.name)

copy_thread_candidate(c) ==
    [id |-> c.id, name |-> c.name, inst_count |-> Clamp(c.inst_count), share |-> Clamp(c.share)]

\* What qsort may leave in the first n places: candidates that compare equal
\* come in any order.
TopLists(candidates, n) ==
    {top \in [1..n -> DOMAIN candidates] :
        \A i \in 1..n : \A j \in DOMAIN candidates \ {top[k] : k \in 1..(i - 1)} :
            /\ top[i] \notin {top[k] : k \in 1..(i - 1)}
            /\ ~compare_thread_candidates(candidates[j], candidates[top[i]])}

\* The entries collect_thread_group may produce.
collect_thread_group(dirs, mode, include_tid, top_n) ==
    LET out == ScanGroup(dirs, mode, include_tid)
        n == IF mode # "top" THEN 0 ELSE Min({Len(out.candidates), top_n, MaxTopN})
    IN  {[total |-> out.total, states |-> out.states, truncated |-> out.truncated,
          top |-> [i \in 1..n |-> copy_thread_candidate(out.candidates[top[i]])]] :
            top \in TopLists(out.candidates, n)}

-----------------------------------------------------------------------------
(* What the entry promises about the group it was made from.               *)

Places(dirs) == UNION {{d} \X DOMAIN dirs[d] : d \in DOMAIN dirs}
ReadablePlaces(dirs) == {p \in Places(dirs) : dirs[p[1]][p[2]].readable}

\* Every readable task is counted once, under its state, or the entry says that
\* it was cut short.
CountsTrue(entry, dirs) ==
    LET Of(p) == thread_state_index(dirs[p[1]][p[2]].letter)
        places == ReadablePlaces(dirs)
    IN  \/ entry.truncated
        \/ /\ entry.total = Cardinality(places)
           /\ \A s \in ThreadStates : entry.states[s] = Cardinality({p \in places : Of(p) = s})

\* The entries of the Top-N carry the number and the summed share of all tasks
\* they stand for, and none that is left out is busier, or the entry says that
\* it was cut short.
TopTrue(entry, dirs, include_tid, top_n) ==
    LET places == ReadablePlaces(dirs)
        Of(p) == Identity(dirs[p[1]][p[2]], include_tid)
        ids == {Of(p) : p \in places}
        Members(id) == {p \in places : Of(p) = id}
        Share(id) == MapThenSumSet(LAMBDA p : dirs[p[1]][p[2]].share, Members(id))
        shown == {entry.top[i].id : i \in DOMAIN entry.top}
    IN  \/ entry.truncated
        \/ /\ Len(entry.top) = Cardinality(shown)
           /\ Len(entry.top) = Min({Cardinality(ids), top_n, MaxTopN})
           /\ \A i \in DOMAIN entry.top :
                 /\ entry.top[i].id \in ids
                 /\ entry.top[i].share = Clamp(Share(entry.top[i].id))
                 /\ entry.top[i].inst_count = Clamp(Cardinality(Members(entry.top[i].id)))
           /\ \A out \in ids \ shown, in \in shown : Share(out) <= Share(in)

=============================================================================
