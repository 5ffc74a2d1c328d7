------------------------------ MODULE Dissector ------------------------------
(***************************************************************************)
(* wireshark/tracefox.lua: the sequence analysis of captured frames.       *)
(*                                                                         *)
(* Wireshark calls the dissector once for every frame in the order of the  *)
(* capture (the scan), then again for any frame it has to show; a changed  *)
(* preference resets the plugin, and a new scan begins with tracefox.init. *)
(* A stream state is the number of the frame its fields were copied from.  *)
(***************************************************************************)
EXTENDS Naturals, Integers, Sequences, FiniteSets, FiniteSetsExt, Functions

CONSTANTS
    Keys,           \* stream keys: host_label or source, destination and port
    Modulus,        \* UINT32_MODULUS
    WrapWindow,     \* WRAP_WINDOW
    GapThreshold    \* gap_threshold_seconds, in sampling intervals

ASSUME DissectorAssumption ==
    Modulus \in Nat \ {0} /\ WrapWindow \in 1..(Modulus - 1) /\ GapThreshold \in Nat

VARIABLES
    capture,          \* the captured frames [key, sequence, timestamp, capture_time, ...]
    stream_states,    \* for every key the frame number, or NoFrame
    frame_analyses,   \* for every frame number its analysis, or NotAnalysed
    scanned,          \* frames the current scan has been through
    scanning          \* FALSE from prefs_changed until the scan that it causes

dissector_vars == <<stream_states, frame_analyses, scanned, scanning>>

NoFrame == 0
None == -1
NotAnalysed == [previous_frame |-> None]

DissectorInit ==
    /\ capture = <<>>
    /\ stream_states = [k \in Keys |-> NoFrame]
    /\ frame_analyses = <<>>
    /\ scanned = 0 /\ scanning = TRUE

\* Mutant: the window is not looked at.
forward_sequence_deltaNoWrap(previous, current) ==
    IF current >= previous
      THEN [delta |-> current - previous, regression |-> FALSE]
      ELSE [delta |-> None, regression |-> TRUE]

\* Mutant: every step back is taken for a wrap.
forward_sequence_deltaModular(previous, current) ==
    [delta |-> (current - previous) % Modulus, regression |-> FALSE]

forward_sequence_delta(previous, current) ==
    CASE current >= previous ->
           [delta |-> current - previous, regression |-> FALSE]
      [] current < previous /\ previous >= Modulus - WrapWindow /\ current < WrapWindow ->
           [delta |-> (Modulus - previous) + current, regression |-> FALSE]
      [] OTHER ->
           [delta |-> None, regression |-> TRUE]

\* The analysis of frame n against frame m of the same stream.
Compare(m, n) ==
    LET f == forward_sequence_delta(capture[m].sequence, capture[n].sequence)
    IN  [previous_frame |-> m,
         timestamp_delta |-> capture[n].timestamp - capture[m].timestamp,
         sequence_delta |-> f.delta,
         sequence_regression |-> f.regression,
         duplicate_sequence |-> f.delta = 0,
         missing_packets |-> IF f.delta > 1 THEN f.delta - 1 ELSE 0,
         arrival_gap |-> capture[n].capture_time - capture[m].capture_time > GapThreshold]

\* The analysis of a frame without an earlier one.
Alone ==
    [previous_frame |-> NoFrame, timestamp_delta |-> 0, sequence_delta |-> None,
     sequence_regression |-> FALSE, duplicate_sequence |-> FALSE, missing_packets |-> 0,
     arrival_gap |-> FALSE]

\* Mutant: every call analyses the frame anew.
analyse_frameUncached(n) ==
    LET previous == stream_states[capture[n].key]
        newer == previous = NoFrame \/ n > previous
    IN  /\ frame_analyses' = [frame_analyses EXCEPT ![n] =
              IF previous # NoFrame /\ newer THEN Compare(previous, n) ELSE Alone]
        /\ stream_states' = IF newer THEN [stream_states EXCEPT ![capture[n].key] = n]
                                     ELSE stream_states

\* A frame that was analysed before keeps its analysis; otherwise it is compared
\* with the newest frame of its stream, if that is an earlier one.
analyse_frame(n) ==
    LET previous == stream_states[capture[n].key]
        newer == previous = NoFrame \/ n > previous
    IN  IF frame_analyses[n] # NotAnalysed
          THEN UNCHANGED <<stream_states, frame_analyses>>
          ELSE /\ frame_analyses' = [frame_analyses EXCEPT ![n] =
                    IF previous # NoFrame /\ newer THEN Compare(previous, n) ELSE Alone]
               /\ stream_states' = IF newer THEN [stream_states EXCEPT ![capture[n].key] = n]
                                            ELSE stream_states

\* The next frame of the scan.
Scan ==
    /\ scanning /\ scanned < Len(capture)
    /\ analyse_frame(scanned + 1)
    /\ scanned' = scanned + 1
    /\ UNCHANGED <<capture, scanning>>

\* A frame is shown: one the scan has been through, or any frame while
\* Wireshark has not yet begun the scan a changed preference calls for.
Show(n) ==
    /\ n \in DOMAIN capture
    /\ n <= scanned \/ ~scanning
    /\ analyse_frame(n)
    /\ UNCHANGED <<capture, scanned, scanning>>

reset_tracking ==
    /\ stream_states' = [k \in Keys |-> NoFrame]
    /\ frame_analyses' = [n \in DOMAIN capture |-> NotAnalysed]

prefs_changed ==
    /\ scanning
    /\ reset_tracking
    /\ scanning' = FALSE
    /\ UNCHANGED <<capture, scanned>>

\* tracefox.init: a scan begins.
init ==
    /\ reset_tracking
    /\ scanning' = TRUE /\ scanned' = 0
    /\ UNCHANGED capture

DissectorNext ==
    \/ Scan
    \/ \E n \in 1..Len(capture) : Show(n)
    \/ prefs_changed
    \/ init

-----------------------------------------------------------------------------
(* What the analysis of a frame promises.                                  *)

\* The last frame of the same stream before frame n, or NoFrame.
Predecessor(n) ==
    Max({NoFrame} \cup {m \in 1..(n - 1) : capture[m].key = capture[n].key})

\* However often frames are shown, and in whatever order, analyse_frame gives a
\* frame the analysis against its predecessor in the capture: the cache and the
\* test on frame numbers keep a frame shown twice or late from moving the stream
\* backwards, and a reset leaves nothing behind that the next scan would find.
AnalysisStable ==
    scanning =>
        \A n \in 1..Len(capture) :
            frame_analyses[n] =
                IF n > scanned THEN NotAnalysed
                ELSE IF Predecessor(n) = NoFrame THEN Alone
                ELSE Compare(Predecessor(n), n)

=============================================================================
