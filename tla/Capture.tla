------------------------------- MODULE Capture -------------------------------
(***************************************************************************)
(* Agents, the network and a capture at the server: main.c numbers the     *)
(* frames (seq++ from 0 in every process, a uint32_t), UDP loses,          *)
(* duplicates and reorders them, and the Wireshark plugin judges from what *)
(* arrived what happened on the way.                                       *)
(*                                                                         *)
(* Time counts the frames sent.  A frame carries, for the properties,      *)
(* the run of its agent and its place nth in that run.                     *)
(***************************************************************************)
EXTENDS Dissector

CONSTANTS
    FirstSeqs,     \* seq of an agent that has been running when the model begins
    MaxSends,      \* bound: frames sent
    MaxCapture,    \* bound: frames captured
    MaxRuns        \* bound: starts of an agent

ASSUME CaptureAssumption ==
    /\ FirstSeqs \subseteq 0..(Modulus - 1)
    /\ MaxSends \in Nat /\ MaxCapture \in Nat /\ MaxRuns \in Nat

VARIABLES
    agents,       \* for every key: run, frames sent in it, and seq
    clock,        \* frames sent so far
    network       \* frames on their way

vars == <<capture, dissector_vars, agents, clock, network>>

Init ==
    /\ DissectorInit
    /\ agents \in [Keys -> [run : {1}, nth : {0}, seq : FirstSeqs]]
    /\ clock = 0 /\ network = {}

\* seq++
NextSeq(seq) == (seq + 1) % Modulus

\* A turn of main's loop: tlv_init with seq++, and sendto.
Send(k) ==
    /\ clock < MaxSends
    /\ network' = network \cup
          {[key |-> k, sequence |-> agents[k].seq, timestamp |-> clock,
            run |-> agents[k].run, nth |-> agents[k].nth]}
    /\ agents' = [agents EXCEPT ![k].nth = @ + 1, ![k].seq = NextSeq(@)]
    /\ clock' = clock + 1
    /\ UNCHANGED <<capture, dissector_vars>>

\* The agent is restarted: seq begins at 0.
Restart(k) ==
    /\ agents[k].run < MaxRuns /\ agents[k].nth > 0
    /\ agents' = [agents EXCEPT ![k] = [run |-> @.run + 1, nth |-> 0, seq |-> 0]]
    /\ UNCHANGED <<capture, dissector_vars, clock, network>>

\* Any frame on its way may be the next to arrive, and may arrive once more; one
\* that never does is lost.
Arrive(p) ==
    /\ Len(capture) < MaxCapture
    /\ \E again \in BOOLEAN : network' = IF again THEN network ELSE network \ {p}
    /\ capture' = Append(capture, [key |-> p.key, sequence |-> p.sequence,
                                   timestamp |-> p.timestamp, capture_time |-> clock,
                                   run |-> p.run, nth |-> p.nth])
    /\ frame_analyses' = Append(frame_analyses, NotAnalysed)
    /\ UNCHANGED <<stream_states, scanned, scanning, agents, clock>>

Next ==
    \/ \E k \in Keys : Send(k) \/ Restart(k)
    \/ \E p \in network : Arrive(p)
    \/ DissectorNext /\ UNCHANGED <<agents, clock, network>>

Spec == Init /\ [][Next]_vars

-----------------------------------------------------------------------------
(* Properties.                                                             *)

\* Frames analysed against a predecessor, in a scan.
Judged ==
    {n \in 1..Len(capture) : scanning /\ n <= scanned /\ frame_analyses[n].previous_frame > NoFrame}

Before(n) == capture[frame_analyses[n].previous_frame]

\* Types of the plugin's tables: a stream state names a frame of that stream.
TypeOK ==
    /\ scanned \in 0..Len(capture) /\ scanning \in BOOLEAN
    /\ Len(frame_analyses) = Len(capture)
    /\ \A k \in Keys : /\ stream_states[k] \in 0..Len(capture)
                       /\ stream_states[k] # NoFrame => capture[stream_states[k]].key = k
    /\ \A k \in Keys : agents[k].seq \in 0..(Modulus - 1)

\* Frames of the same run of the same agent.
SameRun(m, n) == capture[m].key = capture[n].key /\ capture[m].run = capture[n].run

\* The frames the agent sent between frame n and its predecessor, as far as they
\* had not been captured before it.
Uncaptured(n) ==
    {i \in (Before(n).nth + 1)..(capture[n].nth - 1) :
        \A m \in 1..(n - 1) : SameRun(m, n) => capture[m].nth # i}

\* Between two frames of one run that arrive in the order they were sent, no frame
\* that was not captured goes unreported, also where seq wraps, as long as fewer
\* than the wrap window are lost at a time; and missing_packets is their exact
\* number unless the predecessor itself was late: a frame sent after it had been
\* captured before, and is reported as missing a second time or in vain.
MissingExact ==
    \A n \in Judged :
        /\ Before(n).run = capture[n].run
        /\ capture[n].nth - Before(n).nth \in 1..WrapWindow
        => /\ frame_analyses[n].missing_packets >= Cardinality(Uncaptured(n))
           /\ (\A m \in 1..(n - 1) : SameRun(m, n) => capture[m].nth <= Before(n).nth) =>
                 frame_analyses[n].missing_packets = Cardinality(Uncaptured(n))
           /\ ~frame_analyses[n].sequence_regression
           /\ ~frame_analyses[n].duplicate_sequence

\* A frame that arrives after one the agent sent later is flagged as a regression,
\* and one that arrives again as a duplicate, and neither is counted as a loss,
\* unless seq wrapped between the two, or they lie so far apart, at the two ends of
\* the numbers, that the window takes the step back for a wrap.
LateFramesFlagged ==
    \A n \in Judged :
        /\ Before(n).run = capture[n].run
        /\ capture[n].sequence <= Before(n).sequence
        /\ capture[n].nth <= Before(n).nth
        /\ Before(n).nth - capture[n].nth <= Modulus - 2 * WrapWindow
        => /\ frame_analyses[n].missing_packets = 0
           /\ IF capture[n].nth = Before(n).nth
                THEN frame_analyses[n].duplicate_sequence
                ELSE frame_analyses[n].sequence_regression

=============================================================================
