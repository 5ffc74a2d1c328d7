------------------------------ MODULE MCHistory ------------------------------
(***************************************************************************)
(* The two tables of proc.c, each on its own: they share no state, so what *)
(* one of them does is explored while the other is at rest.  Two of three  *)
(* threads collide; all processes hash to the last slot of their table.    *)
(***************************************************************************)
EXTENDS ThreadHistory, ProcHistory

CONSTANT Tables    \* the tables to explore: "threads", "processes"

VARIABLE table     \* the one this behaviour is about

MCThreads == 1..3
MCHash == [t \in MCThreads |-> IF t = 3 THEN 1 ELSE 0]

MCPids == 1..3
MCPidHash == [p \in MCPids |-> ProcTrack - 1]

MCInit == HistoryInit /\ ProcHistoryInit /\ table \in Tables

MCThreadNext == table = "threads" /\ HistoryNext /\ UNCHANGED <<proc_vars, table>>

MCProcNext == table = "processes" /\ ProcHistoryNext /\ UNCHANGED <<history_vars, table>>

MCNext == MCThreadNext \/ MCProcNext

MCSpec == MCInit /\ [][MCNext]_<<history_vars, proc_vars, table>>
=============================================================================
