---------------------------- MODULE Capture_proofs ----------------------------
(***************************************************************************)
(* The plugin's tables are well formed and the analysis of a frame is the  *)
(* one against its predecessor, for any number of streams, frames, losses, *)
(* restarts, displays and resets; the window recognises every wrap; the    *)
(* count of missing frames is exact and late and double frames are flagged *)
(* within the distance the window allows.                                  *)
(*                                                                         *)
(* The inductive invariant says what a stream state is in a scan: the last *)
(* frame of that stream the scan has been through.  A second one follows   *)
(* the numbers: within a run of an agent, the sequence of a frame and its  *)
(* place in the run differ by the same amount, up to a multiple of the     *)
(* modulus, so that the distance of two frames can be read from their      *)
(* sequences as long as it is shorter than the modulus.                    *)
(***************************************************************************)
EXTENDS Capture, TLAPS, FiniteSetTheorems

\* v is the last of the first s frames of c that belong to the stream k, or NoFrame.
LastOf(c, k, s, v) ==
    /\ v \in 0..s
    /\ v # NoFrame => c[v].key = k
    /\ \A m \in 1..s : c[m].key = k => m <= v

Tables ==
    /\ scanned \in Nat /\ scanned <= Len(capture) /\ scanning \in BOOLEAN
    /\ capture \in Seq([key : Keys, sequence : 0..(Modulus - 1), timestamp : Int,
                        capture_time : Int, run : Int, nth : Int])
    /\ DOMAIN frame_analyses = 1..Len(capture)
    /\ stream_states \in [Keys -> 0..Len(capture)]
    /\ \A k \in Keys : stream_states[k] # NoFrame => capture[stream_states[k]].key = k

Senders ==
    /\ agents \in [Keys -> [run : Int, nth : Int, seq : 0..(Modulus - 1)]]
    /\ clock \in Int
    /\ network \subseteq [key : Keys, sequence : 0..(Modulus - 1), timestamp : Int,
                          run : Int, nth : Int]

States == scanning => \A k \in Keys : LastOf(capture, k, scanned, stream_states[k])

\* The analysis of frame n, if v is the last frame of its stream before it.
Against(v, n) == IF v = NoFrame THEN Alone ELSE Compare(v, n)

Analyses ==
    scanning =>
        /\ \A n \in 1..scanned : \E v \in Nat : /\ LastOf(capture, capture[n].key, n - 1, v)
                                               /\ frame_analyses[n] = Against(v, n)
        /\ \A n \in (scanned + 1)..Len(capture) : frame_analyses[n] = NotAnalysed

IInv == Tables /\ Senders /\ States /\ Analyses

-----------------------------------------------------------------------------
(* Lemmas on the operators.                                                *)

\* Max is the largest.
LEMMA MaxIs ==
    ASSUME NEW S, NEW x \in S, S \subseteq Int, \A y \in S : y <= x
    PROVE  Max(S) = x
<1>1. \A z \in S : (\A y \in S : z >= y) => z = x
  OBVIOUS
<1>2. x \in S /\ \A y \in S : x >= y
  OBVIOUS
<1> QED BY <1>1, <1>2 DEF Max

\* The last frame of a stream the scan has been through is the predecessor of the
\* next frame, if that belongs to the stream.
LEMMA PredecessorIs ==
    ASSUME NEW n \in Nat \ {0}, NEW v, LastOf(capture, capture[n].key, n - 1, v)
    PROVE  Predecessor(n) = v
<1> DEFINE S == {NoFrame} \cup {m \in 1..(n - 1) : capture[m].key = capture[n].key}
<1>1. v \in S
  BY DEF LastOf, NoFrame
<1>2. S \subseteq Int /\ \A y \in S : y <= v
  BY DEF LastOf, NoFrame
<1> HIDE DEF S
<1>3. Max(S) = v
  BY <1>1, <1>2, MaxIs
<1> QED BY <1>3 DEF Predecessor, S

\* seq++ stays in 32 bits.
LEMMA NextSeqRange == \A s \in 0..(Modulus - 1) : NextSeq(s) \in 0..(Modulus - 1)
BY DissectorAssumption DEF NextSeq

\* No frame that was analysed looks as if it was not.
LEMMA AnalysedDiffers ==
    /\ Alone # NotAnalysed
    /\ \A v \in Nat : \A n : Against(v, n) # NotAnalysed
<1>1. Alone.previous_frame = 0 /\ NotAnalysed.previous_frame = -1
  BY DEF Alone, NotAnalysed, NoFrame, None
<1>2. ASSUME NEW m \in Nat, NEW n PROVE Compare(m, n).previous_frame = m
  BY DEF Compare
<1> QED BY <1>1, <1>2 DEF Against, NoFrame

-----------------------------------------------------------------------------
\* The plugin starts with empty tables.
LEMMA InitInvariant == Init => IInv
<1> SUFFICES ASSUME Init PROVE IInv
  OBVIOUS
<1>1. Tables
  BY DEF Init, DissectorInit, Tables, NoFrame
<1>2. Senders
  <2>1. agents \in [Keys -> [run : {1}, nth : {0}, seq : FirstSeqs]]
    BY DEF Init
  <2>2. [run : {1}, nth : {0}, seq : FirstSeqs]
          \subseteq [run : Int, nth : Int, seq : 0..(Modulus - 1)]
    <3>1. FirstSeqs \subseteq 0..(Modulus - 1) /\ {1} \subseteq Int /\ {0} \subseteq Int
      BY CaptureAssumption
    <3>2. \A A, B, C, D : A \subseteq D /\ B \subseteq D
                             => [run : A, nth : B, seq : FirstSeqs] \subseteq [run : D, nth : D, seq : FirstSeqs]
      OBVIOUS
    <3>3. \A D : [run : D, nth : D, seq : FirstSeqs] \subseteq [run : D, nth : D, seq : 0..(Modulus - 1)]
      BY <3>1
    <3> QED BY <3>1, <3>2, <3>3, Zenon
  <2>3. agents \in [Keys -> [run : Int, nth : Int, seq : 0..(Modulus - 1)]]
    BY <2>1, <2>2
  <2> QED BY <2>3 DEF Init, Senders
<1>3. States
  BY DEF Init, DissectorInit, States, LastOf, NoFrame
<1>4. Analyses
  BY DEF Init, DissectorInit, Analyses
<1> QED BY <1>1, <1>2, <1>3, <1>4 DEF IInv

\* Frames that stay keep what is said of them.
LEMMA FramesStay ==
    ASSUME NEW N \in Nat, \A n \in 1..N : capture'[n] = capture[n]
    PROVE  /\ \A k : \A s \in 0..N : \A v : LastOf(capture, k, s, v) => LastOf(capture', k, s, v)
           /\ \A n \in 1..N : \A v \in 0..N : Against(v, n)' = Against(v, n)
<1>1. ASSUME NEW k, NEW s \in 0..N, NEW v, LastOf(capture, k, s, v) PROVE LastOf(capture', k, s, v)
  BY <1>1 DEF LastOf, NoFrame
<1>2. ASSUME NEW n \in 1..N, NEW v \in 0..N PROVE Against(v, n)' = Against(v, n)
  <2>1. CASE v = NoFrame
    BY <2>1, Zenon DEF Against, Alone
  <2>2. CASE v # NoFrame
    <3>1. capture'[n] = capture[n] /\ capture'[v] = capture[v]
      BY <2>2 DEF NoFrame
    <3>2. Compare(v, n)' = Compare(v, n)
      BY <3>1 DEF Compare
    <3> QED BY <2>2, <3>2, Zenon DEF Against
  <2> QED BY <2>1, <2>2
<1> QED BY <1>1, <1>2

\* ... and so do the analyses of those the scan has been through.
LEMMA AnalysesStay ==
    ASSUME IInv, scanning, NEW n \in 1..Len(capture), n <= scanned,
           \A m \in 1..Len(capture) : capture'[m] = capture[m],
           frame_analyses'[n] = frame_analyses[n]
    PROVE  \E v \in Nat : /\ LastOf(capture', capture'[n].key, n - 1, v)
                          /\ frame_analyses'[n] = Against(v, n)'
<1>1. n \in 1..scanned /\ Len(capture) \in Nat
  BY DEF IInv, Tables
<1>2. PICK v \in Nat : LastOf(capture, capture[n].key, n - 1, v) /\ frame_analyses[n] = Against(v, n)
  BY <1>1, Zenon DEF IInv, Analyses
<1>3. PICK k : k = capture[n].key
  OBVIOUS
<1>4. LastOf(capture, k, n - 1, v) /\ n - 1 \in 0..Len(capture) /\ v \in 0..Len(capture)
  BY <1>1, <1>2, <1>3 DEF LastOf
<1>5. PICK N \in Nat : N = Len(capture)
  BY <1>1
<1>6. LastOf(capture', k, n - 1, v) /\ Against(v, n)' = Against(v, n)
  BY <1>4, <1>5, FramesStay
<1>7. k = capture'[n].key
  BY <1>3
<1> QED BY <1>2, <1>6, <1>7 DEF LastOf

\* What the plugin promises depends on its own variables only.
LEMMA Untouched ==
    ASSUME IInv, capture' = capture, stream_states' = stream_states,
           frame_analyses' = frame_analyses, scanned' = scanned, scanning' = scanning
    PROVE  Tables' /\ States' /\ Analyses'
<1>1. Tables'
  BY DEF IInv, Tables
<1>2. States'
  BY Zenon DEF IInv, States, LastOf
<1>3. Analyses'
  <2>1. scanned \in Nat /\ Len(capture) \in Nat /\ scanned <= Len(capture)
    BY DEF IInv, Tables
  <2>2. scanning => \A n \in 1..scanned : \E v \in Nat : LastOf(capture', capture'[n].key, n - 1, v)
                                                         /\ frame_analyses'[n] = Against(v, n)'
    <3> SUFFICES ASSUME scanning, NEW n \in 1..scanned
                 PROVE  \E v \in Nat : LastOf(capture', capture'[n].key, n - 1, v)
                                      /\ frame_analyses'[n] = Against(v, n)'
      OBVIOUS
    <3>1. n \in 1..Len(capture) /\ n <= scanned
      BY <2>1
    <3> QED BY <3>1, AnalysesStay, Zenon
  <2> QED BY <2>2 DEF IInv, Analyses
<1> QED BY <1>1, <1>2, <1>3

\* The agents and the network change nothing of the plugin's.
LEMMA SendersPreserve ==
    ASSUME IInv, NEW k \in Keys, Send(k) \/ Restart(k)
    PROVE  IInv'
<1>1. /\ capture' = capture /\ stream_states' = stream_states
      /\ frame_analyses' = frame_analyses /\ scanned' = scanned /\ scanning' = scanning
  BY Zenon DEF Send, Restart, dissector_vars
<1>2. Tables' /\ States' /\ Analyses'
  BY <1>1, Untouched
<1>3. Senders'
  <2>1. CASE Send(k)
    <3>1. agents[k].seq \in 0..(Modulus - 1) /\ NextSeq(agents[k].seq) \in 0..(Modulus - 1)
      BY NextSeqRange DEF IInv, Senders
    <3>2. [agents[k] EXCEPT !.nth = @ + 1, !.seq = NextSeq(@)]
            \in [run : Int, nth : Int, seq : 0..(Modulus - 1)]
      <4>1. \A D, r, x, y : r \in [run : Int, nth : Int, seq : D] /\ x \in Int /\ y \in D
              => [r EXCEPT !.nth = x, !.seq = y] \in [run : Int, nth : Int, seq : D]
        OBVIOUS
      <4>2. agents[k] \in [run : Int, nth : Int, seq : 0..(Modulus - 1)]
            /\ agents[k].nth + 1 \in Int
        BY DEF IInv, Senders
      <4> QED BY <3>1, <4>1, <4>2, Zenon
    <3>3. agents' = [agents EXCEPT ![k] = [agents[k] EXCEPT !.nth = @ + 1, !.seq = NextSeq(@)]]
      BY <2>1 DEF Send, IInv, Senders
    <3>4. agents' \in [Keys -> [run : Int, nth : Int, seq : 0..(Modulus - 1)]]
      BY <3>2, <3>3 DEF IInv, Senders
    <3>5. [key |-> k, sequence |-> agents[k].seq, timestamp |-> clock,
           run |-> agents[k].run, nth |-> agents[k].nth]
            \in [key : Keys, sequence : 0..(Modulus - 1), timestamp : Int,
                run : Int, nth : Int]
      BY <3>1 DEF IInv, Senders
    <3>6. clock' = clock + 1 /\ network' = network \cup
            {[key |-> k, sequence |-> agents[k].seq, timestamp |-> clock,
              run |-> agents[k].run, nth |-> agents[k].nth]}
      BY <2>1, Zenon DEF Send
    <3> QED BY <3>4, <3>5, <3>6 DEF IInv, Senders
  <2>2. CASE Restart(k)
    BY <2>2, DissectorAssumption DEF Restart, IInv, Senders
  <2> QED BY <2>1, <2>2
<1> QED BY <1>2, <1>3 DEF IInv

\* A frame that arrives does not change the ones before it.
LEMMA ArrivePreserves == ASSUME IInv, NEW p \in network, Arrive(p) PROVE IInv'
<1> DEFINE f == [key |-> p.key, sequence |-> p.sequence, timestamp |-> p.timestamp,
                 capture_time |-> clock, run |-> p.run, nth |-> p.nth]
           Frames == [key : Keys, sequence : 0..(Modulus - 1), timestamp : Int,
                      capture_time : Int, run : Int, nth : Int]
           N == Len(capture)
<1>1. /\ capture' = Append(capture, f) /\ frame_analyses' = Append(frame_analyses, NotAnalysed)
      /\ stream_states' = stream_states /\ scanned' = scanned /\ scanning' = scanning
      /\ agents' = agents /\ clock' = clock
      /\ network' = network \/ network' = network \ {p}
  BY Zenon DEF Arrive
<1>2. f \in Frames
  BY DEF IInv, Senders
<1> HIDE DEF f
<1>3. /\ capture \in Seq(Frames) /\ N \in Nat /\ scanned \in Nat /\ scanned <= N
      /\ DOMAIN frame_analyses = 1..N /\ stream_states \in [Keys -> 0..N]
  BY DEF IInv, Tables
<1>4. /\ capture' \in Seq(Frames) /\ Len(capture') = N + 1
      /\ \A n \in 1..N : capture'[n] = capture[n]
  BY <1>1, <1>2, <1>3
<1>5. /\ DOMAIN frame_analyses' = 1..(N + 1)
      /\ \A n \in 1..N : frame_analyses'[n] = frame_analyses[n]
      /\ frame_analyses'[N + 1] = NotAnalysed
  BY <1>1, <1>3
<1>6. Tables'
  BY <1>1, <1>3, <1>4, <1>5 DEF IInv, Tables, NoFrame
<1>7. Senders'
  BY <1>1 DEF IInv, Senders
<1>8. States'
  <2>1. \A k, v : LastOf(capture, k, scanned, v) => LastOf(capture', k, scanned', v)
    <3>1. PICK M \in Nat : M = N
      BY <1>3
    <3>2. PICK s \in 0..M : s = scanned
      BY <1>3, <3>1
    <3> QED BY <1>1, <1>4, <3>1, <3>2, FramesStay, Zenon
  <2> QED BY <1>1, <2>1 DEF IInv, States
<1>9. Analyses'
  <2>1. scanning => \A n \in 1..scanned : \E v \in Nat : LastOf(capture', capture'[n].key, n - 1, v)
                                                         /\ frame_analyses'[n] = Against(v, n)'
    <3> SUFFICES ASSUME scanning, NEW n \in 1..scanned
                 PROVE  \E v \in Nat : LastOf(capture', capture'[n].key, n - 1, v)
                                      /\ frame_analyses'[n] = Against(v, n)'
      OBVIOUS
    <3>1. scanned \in Nat /\ N \in Nat /\ scanned <= N
      BY <1>3, Zenon
    <3>2. n \in 1..N /\ n <= scanned
      BY <3>1
    <3>3. frame_analyses'[n] = frame_analyses[n]
      BY <1>5, <3>2, Zenon
    <3> QED BY <1>4, <3>2, <3>3, AnalysesStay, Zenon
  <2>2. scanning => \A n \in (scanned + 1)..(N + 1) : frame_analyses'[n] = NotAnalysed
    <3> SUFFICES ASSUME scanning, NEW n \in (scanned + 1)..(N + 1)
                 PROVE  frame_analyses'[n] = NotAnalysed
      OBVIOUS
    <3>1. CASE n = N + 1
      BY <1>5, <3>1
    <3>2. CASE n # N + 1
      <4>1. n \in (scanned + 1)..N /\ n \in 1..N
        BY <1>3, <3>2
      <4>2. frame_analyses[n] = NotAnalysed
        BY <4>1 DEF IInv, Analyses
      <4> QED BY <1>5, <4>1, <4>2
    <3> QED BY <3>1, <3>2
  <2> QED BY <1>1, <1>4, <2>1, <2>2 DEF Analyses, NotAnalysed
<1> QED BY <1>6, <1>7, <1>8, <1>9 DEF IInv

\* A captured frame belongs to a stream.
LEMMA KeyOfFrame == ASSUME Tables, NEW n \in 1..Len(capture) PROVE capture[n].key \in Keys
<1> DEFINE Frames == [key : Keys, sequence : 0..(Modulus - 1), timestamp : Int,
                      capture_time : Int, run : Int, nth : Int]
<1>1. capture \in Seq(Frames)
  BY Zenon DEF Tables
<1> HIDE DEF Frames
<1>2. capture[n] \in Frames
  BY <1>1
<1> QED BY <1>2, Zenon DEF Frames

\* Whatever analyse_frame does, a stream state names a frame of the stream.
LEMMA AnalyseTables ==
    ASSUME Tables, NEW n \in 1..Len(capture), analyse_frame(n), capture' = capture,
           scanned' \in Nat, scanned' <= Len(capture), scanning' \in BOOLEAN
    PROVE  Tables'
<1>1. capture[n].key \in Keys
  BY KeyOfFrame
<1>2. \/ frame_analyses' = frame_analyses
      \/ \E x : frame_analyses' = [frame_analyses EXCEPT ![n] = x]
  BY Zenon DEF analyse_frame
<1>3. \/ stream_states' = stream_states
      \/ stream_states' = [stream_states EXCEPT ![capture[n].key] = n]
  BY Zenon DEF analyse_frame
<1>4. DOMAIN frame_analyses' = 1..Len(capture)
  BY <1>2 DEF Tables
<1>5. /\ stream_states' \in [Keys -> 0..Len(capture)]
      /\ \A k \in Keys : stream_states'[k] # NoFrame => capture[stream_states'[k]].key = k
  <2>1. CASE stream_states' = stream_states
    BY <2>1 DEF Tables
  <2>2. CASE stream_states' = [stream_states EXCEPT ![capture[n].key] = n]
    <3>1. PICK j \in Keys : j = capture[n].key
      BY <1>1
    <3>2. stream_states' = [stream_states EXCEPT ![j] = n] /\ n # NoFrame
      BY <2>2, <3>1 DEF NoFrame
    <3>3. stream_states \in [Keys -> 0..Len(capture)] /\ n \in 0..Len(capture)
      BY DEF Tables
    <3>4. \A k \in Keys : stream_states'[k] = IF k = j THEN n ELSE stream_states[k]
      BY <3>2, <3>3
    <3>5. \A k \in Keys : stream_states[k] # NoFrame => capture[stream_states[k]].key = k
      BY Zenon DEF Tables
    <3>6. stream_states' \in [Keys -> 0..Len(capture)]
      BY <3>2, <3>3
    <3> QED BY <3>1, <3>4, <3>5, <3>6, Zenon
  <2> QED BY <1>3, <2>1, <2>2
<1> QED BY <1>4, <1>5 DEF Tables

\* The scan compares a frame with the last one of its stream, which it then becomes.
LEMMA ScanPreserves ==
    ASSUME IInv, Scan, agents' = agents, clock' = clock, network' = network
    PROVE  IInv'
<1>1. /\ scanning /\ scanning' = scanning /\ capture' = capture
      /\ scanned' = scanned + 1 /\ scanned < Len(capture) /\ analyse_frame(scanned + 1)
  BY Zenon DEF Scan
<1>2. /\ scanned \in Nat /\ Len(capture) \in Nat /\ DOMAIN frame_analyses = 1..Len(capture)
      /\ stream_states \in [Keys -> 0..Len(capture)]
  BY DEF IInv, Tables
<1>3. PICK n \in 1..Len(capture) : n = scanned + 1
  BY <1>1, <1>2
<1>4. PICK k \in Keys : k = capture[n].key
  BY KeyOfFrame DEF IInv
<1>5. PICK v : v = stream_states[k]
  OBVIOUS
<1>6. LastOf(capture, k, scanned, v)
  BY <1>1, <1>4, <1>5, Zenon DEF IInv, States
<1>7. v \in 0..scanned /\ (v = NoFrame \/ n > v)
  BY <1>2, <1>3, <1>6 DEF LastOf, NoFrame
<1>8. frame_analyses[n] = NotAnalysed
  <2>1. n \in (scanned + 1)..Len(capture)
    BY <1>2, <1>3
  <2> QED BY <1>1, <2>1, Zenon DEF IInv, Analyses
<1>9. /\ frame_analyses' = [frame_analyses EXCEPT ![n] = Against(v, n)]
      /\ stream_states' = [stream_states EXCEPT ![k] = n]
  <2>1. analyse_frame(n)
    BY <1>1, <1>3, Zenon
  <2>2. /\ frame_analyses' = [frame_analyses EXCEPT ![n] =
                IF v # NoFrame /\ (v = NoFrame \/ n > v) THEN Compare(v, n) ELSE Alone]
        /\ stream_states' = IF v = NoFrame \/ n > v THEN [stream_states EXCEPT ![k] = n]
                                                  ELSE stream_states
    BY <1>4, <1>5, <1>8, <2>1, Zenon DEF analyse_frame
  <2>3. (IF v # NoFrame /\ (v = NoFrame \/ n > v) THEN Compare(v, n) ELSE Alone) = Against(v, n)
    BY <1>7, Zenon DEF Against
  <2> QED BY <1>7, <2>2, <2>3, Zenon
<1>10. Tables'
  <2>1. analyse_frame(n)
    BY <1>1, <1>3, Zenon
  <2>2. scanned' \in Nat /\ scanned' <= Len(capture) /\ scanning' \in BOOLEAN
    BY <1>1, <1>2 DEF IInv, Tables
  <2> QED BY <1>1, <2>1, <2>2, AnalyseTables, Zenon DEF IInv
<1>11. Senders'
  BY DEF IInv, Senders
<1>12. States'
  <2>1. ASSUME NEW j \in Keys PROVE LastOf(capture, j, n, stream_states'[j])
    <3>1. CASE j = k
      <4>1. stream_states'[j] = n
        BY <1>2, <1>9, <3>1
      <4> QED BY <1>2, <1>4, <3>1, <4>1 DEF LastOf
    <3>2. CASE j # k
      <4>1. stream_states'[j] = stream_states[j]
        BY <1>2, <1>9, <3>2
      <4>2. LastOf(capture, j, scanned, stream_states[j])
        BY <1>1, Zenon DEF IInv, States
      <4>3. capture[n].key # j
        BY <1>4, <3>2
      <4> QED BY <1>2, <1>3, <4>1, <4>2, <4>3 DEF LastOf, NoFrame
    <3> QED BY <3>1, <3>2
  <2> QED BY <1>1, <1>3, <2>1 DEF States
<1>13. Analyses'
  <2>1. ASSUME NEW m \in 1..n
        PROVE  \E u \in Nat : /\ LastOf(capture', capture'[m].key, m - 1, u)
                              /\ frame_analyses'[m] = Against(u, m)'
    <3>1. CASE m = n
      <4>1. frame_analyses'[n] = Against(v, n)
        BY <1>2, <1>9
      <4>2. Against(v, n)' = Against(v, n)
        BY <1>1, Zenon DEF Against, Compare, Alone
      <4>3. LastOf(capture', capture'[n].key, n - 1, v)
        BY <1>1, <1>2, <1>3, <1>4, <1>6
      <4>4. v \in Nat
        BY <1>2, <1>7
      <4> QED BY <3>1, <4>1, <4>2, <4>3, <4>4, Zenon
    <3>2. CASE m # n
      <4>1. m \in 1..Len(capture) /\ m <= scanned /\ frame_analyses'[m] = frame_analyses[m]
        BY <1>2, <1>3, <1>9, <3>2
      <4>2. \A i \in 1..Len(capture) : capture'[i] = capture[i]
        BY <1>1, Zenon
      <4> QED BY <1>1, <4>1, <4>2, AnalysesStay, Zenon
    <3> QED BY <3>1, <3>2
  <2>2. ASSUME NEW m \in (n + 1)..Len(capture) PROVE frame_analyses'[m] = NotAnalysed
    <3>1. m \in (scanned + 1)..Len(capture) /\ m # n /\ m \in 1..Len(capture)
      BY <1>2, <1>3
    <3>2. frame_analyses[m] = NotAnalysed
      BY <1>1, <3>1, Zenon DEF IInv, Analyses
    <3> QED BY <1>2, <1>9, <3>1, <3>2
  <2> QED BY <1>1, <1>3, <2>1, <2>2 DEF Analyses, NotAnalysed
<1> QED BY <1>10, <1>11, <1>12, <1>13 DEF IInv

\* Showing a frame again changes nothing in a scan; after a changed preference it
\* changes only what the next scan will reset.
LEMMA ShowPreserves ==
    ASSUME IInv, NEW n \in 1..Len(capture), Show(n),
           agents' = agents, clock' = clock, network' = network
    PROVE  IInv'
<1>1. /\ capture' = capture /\ scanned' = scanned /\ scanning' = scanning
      /\ analyse_frame(n) /\ (n <= scanned \/ ~scanning)
  BY Zenon DEF Show
<1>2. Senders'
  BY DEF IInv, Senders
<1>3. CASE scanning
  <2>1. n \in 1..scanned
    BY <1>1, <1>3 DEF IInv, Tables
  <2>2. PICK v \in Nat : frame_analyses[n] = Against(v, n)
    BY <1>3, <2>1, Zenon DEF IInv, Analyses
  <2>3. frame_analyses[n] # NotAnalysed
    BY <2>2, AnalysedDiffers, Zenon
  <2>4. stream_states' = stream_states /\ frame_analyses' = frame_analyses
    BY <1>1, <2>3, Zenon DEF analyse_frame
  <2> QED BY <1>1, <1>2, <2>4, Untouched, Zenon DEF IInv
<1>4. CASE ~scanning
  <2>1. scanned' \in Nat /\ scanned' <= Len(capture) /\ scanning' \in BOOLEAN
    BY <1>1, Zenon DEF IInv, Tables
  <2>2. Tables'
    BY <1>1, <2>1, AnalyseTables, Zenon DEF IInv
  <2> QED BY <1>1, <1>2, <1>4, <2>2, Zenon DEF IInv, States, Analyses
<1> QED BY <1>3, <1>4

\* A new preference or capture file starts the scan over with empty tables.
LEMMA ResetPreserves ==
    ASSUME IInv, prefs_changed \/ init, agents' = agents, clock' = clock, network' = network
    PROVE  IInv'
<1>1. /\ capture' = capture /\ stream_states' = [k \in Keys |-> NoFrame]
      /\ frame_analyses' = [n \in DOMAIN capture |-> NotAnalysed]
      /\ \/ scanning' = FALSE /\ scanned' = scanned
         \/ scanning' = TRUE /\ scanned' = 0
  BY Zenon DEF prefs_changed, init, reset_tracking
<1>2. /\ Len(capture) \in Nat /\ DOMAIN capture = 1..Len(capture)
  BY DEF IInv, Tables
<1>3. Tables'
  <2>1. scanned' \in Nat /\ scanned' <= Len(capture) /\ scanning' \in BOOLEAN
    <3>1. scanned \in Nat /\ scanned <= Len(capture) /\ 0 \in Nat /\ 0 <= Len(capture)
      BY <1>2 DEF IInv, Tables
    <3> QED BY <1>1, <3>1, Zenon
  <2>2. DOMAIN frame_analyses' = 1..Len(capture)
    BY <1>1, <1>2
  <2>3. /\ stream_states' \in [Keys -> 0..Len(capture)]
        /\ \A k \in Keys : stream_states'[k] = NoFrame
    BY <1>1, <1>2 DEF NoFrame
  <2> QED BY <1>1, <2>1, <2>2, <2>3, Zenon DEF IInv, Tables
<1>4. Senders'
  BY DEF IInv, Senders
<1>5. States' /\ Analyses'
  <2>1. CASE scanning' = FALSE
    BY <2>1, Zenon DEF States, Analyses
  <2>2. CASE scanning' = TRUE
    <3>1. scanned' = 0
      BY <1>1, <2>2
    <3>2. States'
      BY <1>1, <3>1 DEF States, LastOf, NoFrame
    <3>3. Analyses'
      BY <1>1, <1>2, <3>1 DEF Analyses, NotAnalysed
    <3> QED BY <3>2, <3>3
  <2> QED BY <1>1, <2>1, <2>2, Zenon
<1> QED BY <1>3, <1>4, <1>5 DEF IInv

\* Every step of the senders, the network and the plugin keeps the invariant.
LEMMA NextPreserves == IInv /\ [Next]_vars => IInv'
<1> SUFFICES ASSUME IInv, [Next]_vars PROVE IInv'
  OBVIOUS
<1>1. CASE \E k \in Keys : Send(k) \/ Restart(k)
  BY <1>1, SendersPreserve, Zenon
<1>2. CASE \E p \in network : Arrive(p)
  BY <1>2, ArrivePreserves, Zenon
<1>3. CASE DissectorNext /\ UNCHANGED <<agents, clock, network>>
  <2>1. agents' = agents /\ clock' = clock /\ network' = network
    BY <1>3, Zenon
  <2> QED BY <1>3, <2>1, ScanPreserves, ShowPreserves, ResetPreserves, Zenon DEF DissectorNext
<1>4. CASE UNCHANGED vars
  <2>1. /\ capture' = capture /\ stream_states' = stream_states
        /\ frame_analyses' = frame_analyses /\ scanned' = scanned /\ scanning' = scanning
        /\ agents' = agents /\ clock' = clock /\ network' = network
    BY <1>4, Zenon DEF vars, dissector_vars
  <2>2. Senders'
    BY <2>1 DEF IInv, Senders
  <2> QED BY <2>1, <2>2, Untouched, Zenon DEF IInv
<1> QED BY <1>1, <1>2, <1>3, <1>4, Zenon DEF Next

-----------------------------------------------------------------------------
(* The numbers of the frames.  Two frames of one run differ in sequence by *)
(* as much as in place, up to a multiple of the modulus.                   *)

Multiples == {q * Modulus : q \in Int}

\* Frames on their way or captured.
Seen == network \cup {capture[n] : n \in 1..Len(capture)}

Offset(f) == f.sequence - f.nth

\* What run k is at with its next frame.
NextOffset(k) == agents[k].seq - agents[k].nth

Numbered ==
    /\ \A f \in Seen : f.run <= agents[f.key].run
    /\ \A f \in Seen : f.run = agents[f.key].run => Offset(f) - NextOffset(f.key) \in Multiples
    /\ \A f, g \in Seen : f.key = g.key /\ f.run = g.run => Offset(f) - Offset(g) \in Multiples

\* The multiples of the modulus are closed under sums and differences.
LEMMA MultiplesGroup ==
    /\ Multiples \subseteq Int /\ 0 \in Multiples /\ Modulus \in Multiples
    /\ \A x, y \in Multiples : x + y \in Multiples /\ x - y \in Multiples /\ -x \in Multiples
<1>1. Modulus \in Int
  BY DissectorAssumption
<1>2. Multiples \subseteq Int
  BY <1>1 DEF Multiples
<1>3. 0 \in Multiples /\ Modulus \in Multiples
  <2>1. 0 * Modulus = 0 /\ 1 * Modulus = Modulus
    BY <1>1
  <2> QED BY <2>1 DEF Multiples
<1>4. ASSUME NEW x \in Multiples, NEW y \in Multiples
      PROVE  x + y \in Multiples /\ x - y \in Multiples /\ -x \in Multiples
  <2>1. PICK p \in Int, q \in Int : x = p * Modulus /\ y = q * Modulus
    BY <1>4 DEF Multiples
  <2>2. /\ x + y = (p + q) * Modulus /\ x - y = (p - q) * Modulus /\ -x = (-p) * Modulus
        /\ p + q \in Int /\ p - q \in Int /\ -p \in Int
    BY <1>1, <2>1
  <2> QED BY <2>2 DEF Multiples
<1> QED BY <1>2, <1>3, <1>4

\* The only multiple less than a modulus away from zero is zero.
LEMMA SmallMultiple ==
    ASSUME NEW x \in Multiples, -Modulus < x, x < Modulus
    PROVE  x = 0
<1>1. Modulus \in Nat /\ Modulus > 0
  BY DissectorAssumption
<1>2. PICK q \in Int : x = q * Modulus
  BY DEF Multiples
<1>3. q >= 1 => q * Modulus >= Modulus
  <2>1. q >= 1 => (q - 1) * Modulus >= 0
    BY <1>1
  <2>2. (q - 1) * Modulus = q * Modulus - Modulus
    BY <1>1
  <2>3. q * Modulus \in Int
    BY <1>1
  <2> QED BY <1>1, <2>1, <2>2, <2>3
<1>4. q <= -1 => q * Modulus <= -Modulus
  <2>1. q <= -1 => (-1 - q) * Modulus >= 0
    BY <1>1
  <2>2. (-1 - q) * Modulus = -Modulus - q * Modulus
    BY <1>1
  <2>3. q * Modulus \in Int
    BY <1>1
  <2> QED BY <1>1, <2>1, <2>2, <2>3
<1>5. q = 0
  BY <1>1, <1>2, <1>3, <1>4
<1> QED BY <1>1, <1>2, <1>5

\* The number d frames after number a, and the number e frames before it.
LEMMA Ahead ==
    ASSUME NEW a \in 0..(Modulus - 1), NEW b \in 0..(Modulus - 1), NEW d \in 1..WrapWindow,
           b - a - d \in Multiples
    PROVE  b = a + d \/ b = a + d - Modulus
<1>1. Modulus \in Nat \ {0} /\ WrapWindow \in 1..(Modulus - 1)
  BY DissectorAssumption, Zenon
<1>2. PICK x \in Multiples : x = b - a - d
  OBVIOUS
<1>3. x \in Int /\ x < Modulus /\ -Modulus < x + Modulus
  BY <1>1, <1>2
<1>4. x + Modulus \in Multiples
  BY MultiplesGroup, Zenon
<1>5. -Modulus < x => x = 0
  BY <1>3, SmallMultiple, Zenon
<1>6. ~(-Modulus < x) => x + Modulus = 0
  <2> SUFFICES ASSUME ~(-Modulus < x) PROVE x + Modulus = 0
    OBVIOUS
  <2>1. x + Modulus < Modulus
    BY <1>1, <1>3
  <2> QED BY <1>3, <1>4, <2>1, SmallMultiple, Zenon
<1> QED BY <1>1, <1>2, <1>3, <1>5, <1>6

\* forward_sequence_delta on a frame that is e behind, or the same one.
LEMMA Behind ==
    ASSUME NEW a \in 0..(Modulus - 1), NEW b \in 0..(Modulus - 1), NEW e \in Nat,
           b <= a, e <= Modulus - 2 * WrapWindow, (a - b) - e \in Multiples
    PROVE  /\ e = 0 => forward_sequence_delta(a, b).delta = 0
           /\ e # 0 => forward_sequence_delta(a, b) = [delta |-> None, regression |-> TRUE]
<1>1. Modulus \in Nat \ {0} /\ WrapWindow \in 1..(Modulus - 1)
  BY DissectorAssumption, Zenon
<1>2. PICK x \in Multiples : x = (a - b) - e
  OBVIOUS
<1>3. -Modulus < x /\ x < Modulus
  BY <1>1, <1>2
<1>4. x = 0
  BY <1>3, SmallMultiple, Zenon
<1>5. a = b + e
  BY <1>1, <1>2, <1>4
<1>6. CASE e = 0
  <2>1. b >= a /\ ~(b < a) /\ b - a = 0
    BY <1>1, <1>5, <1>6
  <2>2. forward_sequence_delta(a, b) = [delta |-> b - a, regression |-> FALSE]
    BY <2>1, Zenon DEF forward_sequence_delta
  <2> QED BY <1>6, <2>1, <2>2
<1>7. CASE e # 0
  <2>1. b < a /\ ~(b >= a) /\ ~(a >= Modulus - WrapWindow /\ b < WrapWindow)
    BY <1>1, <1>5, <1>7
  <2>2. forward_sequence_delta(a, b) = [delta |-> None, regression |-> TRUE]
    BY <2>1, Zenon DEF forward_sequence_delta
  <2> QED BY <1>7, <2>2, Zenon
<1> QED BY <1>6, <1>7

\* The fields of a frame under way or captured.
LEMMA SeenTypes ==
    ASSUME IInv, NEW f \in Seen
    PROVE  f.key \in Keys /\ f.sequence \in 0..(Modulus - 1) /\ f.run \in Int /\ f.nth \in Int
<1>1. CASE f \in network
  BY <1>1 DEF IInv, Senders
<1>2. CASE f \in {capture[n] : n \in 1..Len(capture)}
  <2> DEFINE Frames == [key : Keys, sequence : 0..(Modulus - 1), timestamp : Int,
                        capture_time : Int, run : Int, nth : Int]
  <2>1. capture \in Seq(Frames)
    BY Zenon DEF IInv, Tables
  <2> HIDE DEF Frames
  <2>2. f \in Frames
    BY <1>2, <2>1
  <2> QED BY <2>2 DEF Frames
<1> QED BY <1>1, <1>2 DEF Seen

\* Nothing has been sent at first.
LEMMA InitNumbered == Init => Numbered
<1> SUFFICES ASSUME Init PROVE Numbered
  OBVIOUS
<1>1. Seen = {}
  BY DEF Init, DissectorInit, Seen
<1> QED BY <1>1, Zenon DEF Numbered

\* A step after which no new frame is seen, and every agent is in the same run as before,
\* at the same place up to a multiple.
LEMMA NumberedKept ==
    ASSUME IInv, Numbered,
           \A f \in Seen' : \E g \in Seen : /\ f.key = g.key /\ f.run = g.run
                                            /\ f.sequence = g.sequence /\ f.nth = g.nth,
           agents' = agents
    PROVE  Numbered'
<1>1. ASSUME NEW f \in Seen'
      PROVE  \E g \in Seen : f.key = g.key /\ f.run = g.run /\ Offset(f) = Offset(g)
  BY Zenon DEF Offset
<1>2. \A k : NextOffset(k)' = NextOffset(k)
  BY DEF NextOffset
<1>3. ASSUME NEW f \in Seen'
      PROVE  /\ f.run <= agents'[f.key].run
             /\ f.run = agents'[f.key].run => Offset(f) - NextOffset(f.key)' \in Multiples
  <2>1. PICK g \in Seen : f.key = g.key /\ f.run = g.run /\ Offset(f) = Offset(g)
    BY <1>1
  <2> QED BY <1>2, <2>1, Zenon DEF Numbered
<1>4. ASSUME NEW f \in Seen', NEW h \in Seen', f.key = h.key, f.run = h.run
      PROVE  Offset(f) - Offset(h) \in Multiples
  <2>1. PICK g \in Seen : f.key = g.key /\ f.run = g.run /\ Offset(f) = Offset(g)
    BY <1>1
  <2>2. PICK i \in Seen : h.key = i.key /\ h.run = i.run /\ Offset(h) = Offset(i)
    BY <1>1
  <2> QED BY <1>4, <2>1, <2>2, Zenon DEF Numbered
<1> QED BY <1>3, <1>4, Zenon DEF Numbered, Multiples

\* main.c numbers a frame one higher than the one before, or begins at zero again
\* where the counter wraps: the place in the run goes up by one in both cases.
LEMMA NextSeqStep ==
    ASSUME NEW s \in 0..(Modulus - 1)
    PROVE  NextSeq(s) = s + 1 \/ NextSeq(s) = s + 1 - Modulus
<1>1. Modulus \in Nat \ {0}
  BY DissectorAssumption
<1>2. CASE s + 1 = Modulus
  <2>1. Modulus % Modulus = 0
    BY <1>1
  <2> QED BY <1>1, <1>2, <2>1 DEF NextSeq
<1>3. CASE s + 1 < Modulus
  <2>1. (s + 1) % Modulus = s + 1
    BY <1>1, <1>3
  <2> QED BY <2>1 DEF NextSeq
<1> QED BY <1>1, <1>2, <1>3

\* A frame sent carries the next number of its run.
LEMMA SendNumbered == ASSUME IInv, Numbered, NEW k \in Keys, Send(k) PROVE Numbered'
<1> DEFINE new == [key |-> k, sequence |-> agents[k].seq, timestamp |-> clock,
                   run |-> agents[k].run, nth |-> agents[k].nth]
<1>1. /\ network' = network \cup {new} /\ capture' = capture
      /\ agents' = [agents EXCEPT ![k].nth = @ + 1, ![k].seq = NextSeq(@)]
  BY Zenon DEF Send
<1>2. /\ agents \in [Keys -> [run : Int, nth : Int, seq : 0..(Modulus - 1)]]
      /\ agents[k].seq \in 0..(Modulus - 1) /\ agents[k].nth \in Int /\ agents[k].run \in Int
  BY DEF IInv, Senders
<1>3. new.key = k /\ new.run = agents[k].run /\ Offset(new) = NextOffset(k)
  BY DEF Offset, NextOffset
<1> HIDE DEF new
<1>4. Seen' = Seen \cup {new}
  BY <1>1, Zenon DEF Seen
<1>5. /\ \A j \in Keys : agents'[j].run = agents[j].run
      /\ \A j \in Keys : j # k => NextOffset(j)' = NextOffset(j)
      /\ agents'[k].seq = NextSeq(agents[k].seq) /\ agents'[k].nth = agents[k].nth + 1
  BY <1>1, <1>2 DEF NextOffset
<1>6. NextOffset(k) - NextOffset(k)' \in Multiples /\ NextOffset(k) \in Int /\ NextOffset(k)' \in Int
  <2>1. NextSeq(agents[k].seq) = agents[k].seq + 1 \/ NextSeq(agents[k].seq) = agents[k].seq + 1 - Modulus
    BY <1>2, NextSeqStep
  <2>2. NextOffset(k) = agents[k].seq - agents[k].nth /\ NextOffset(k)' = agents'[k].seq - agents'[k].nth
    BY DEF NextOffset
  <2>3. Modulus \in Int
    BY DissectorAssumption
  <2>4. NextOffset(k) - NextOffset(k)' = 0 \/ NextOffset(k) - NextOffset(k)' = Modulus
    BY <1>2, <1>5, <2>1, <2>2, <2>3
  <2> QED BY <1>2, <1>5, <2>1, <2>2, <2>3, <2>4, MultiplesGroup
<1>7. \A f \in Seen : f.key \in Keys /\ Offset(f) \in Int
  BY SeenTypes, DissectorAssumption DEF Offset
<1>8. ASSUME NEW f \in Seen'
      PROVE  /\ f.run <= agents'[f.key].run
             /\ f.run = agents'[f.key].run => Offset(f) - NextOffset(f.key)' \in Multiples
  <2>1. CASE f = new
    BY <1>2, <1>3, <1>5, <1>6, <2>1
  <2>2. CASE f \in Seen /\ f.key # k
    BY <1>5, <1>7, <2>2, Zenon DEF Numbered
  <2>3. CASE f \in Seen /\ f.key = k
    <3>1. f.run <= agents'[f.key].run
      BY <1>5, <2>3, Zenon DEF Numbered
    <3>2. ASSUME f.run = agents'[k].run PROVE Offset(f) - NextOffset(k)' \in Multiples
      <4>1. Offset(f) - NextOffset(k) \in Multiples
        BY <1>5, <2>3, <3>2, Zenon DEF Numbered
      <4>2. (Offset(f) - NextOffset(k)) + (NextOffset(k) - NextOffset(k)') \in Multiples
        BY <1>6, <4>1, MultiplesGroup, Zenon
      <4>3. (Offset(f) - NextOffset(k)) + (NextOffset(k) - NextOffset(k)') = Offset(f) - NextOffset(k)'
        BY <1>6, <1>7, <2>3
      <4> QED BY <4>2, <4>3, Zenon
    <3> QED BY <2>3, <3>1, <3>2, Zenon
  <2> QED BY <1>4, <2>1, <2>2, <2>3, Zenon
<1>9. ASSUME NEW f \in Seen', NEW g \in Seen', f.key = g.key, f.run = g.run
      PROVE  Offset(f) - Offset(g) \in Multiples
  <2>1. CASE f \in Seen /\ g \in Seen
    BY <1>9, <2>1, Zenon DEF Numbered
  <2>2. CASE f = new /\ g = new
    BY <1>3, <1>6, <2>2, MultiplesGroup
  <2>3. CASE f \in Seen /\ g = new
    BY <1>3, <1>9, <2>3, Zenon DEF Numbered
  <2>4. CASE f = new /\ g \in Seen
    <3>1. Offset(g) - NextOffset(k) \in Multiples
      BY <1>3, <1>9, <2>4, Zenon DEF Numbered
    <3>2. -(Offset(g) - NextOffset(k)) \in Multiples
      BY <3>1, MultiplesGroup, Zenon
    <3>3. -(Offset(g) - NextOffset(k)) = Offset(f) - Offset(g)
      BY <1>3, <1>6, <1>7, <2>4
    <3> QED BY <3>2, <3>3, Zenon
  <2> QED BY <1>4, <2>1, <2>2, <2>3, <2>4, Zenon
<1> QED BY <1>8, <1>9, Zenon DEF Numbered, Multiples

\* A new run has no frames yet.
LEMMA RestartNumbered == ASSUME IInv, Numbered, NEW k \in Keys, Restart(k) PROVE Numbered'
<1>1. /\ agents' = [agents EXCEPT ![k] = [run |-> agents[k].run + 1, nth |-> 0, seq |-> 0]]
      /\ network' = network /\ capture' = capture
  BY Zenon DEF Restart
<1>2. agents \in [Keys -> [run : Int, nth : Int, seq : 0..(Modulus - 1)]] /\ agents[k].run \in Int
  BY DEF IInv, Senders
<1>3. agents'[k].run = agents[k].run + 1 /\ \A j \in Keys : j # k => agents'[j] = agents[j]
  BY <1>1, <1>2
<1>4. Seen' = Seen
  BY <1>1, Zenon DEF Seen
<1>5. ASSUME NEW f \in Seen
      PROVE  /\ f.run <= agents'[f.key].run
             /\ f.run = agents'[f.key].run => Offset(f) - NextOffset(f.key)' \in Multiples
  <2>1. f.key \in Keys /\ f.run \in Int /\ f.run <= agents[f.key].run
    BY SeenTypes DEF Numbered
  <2>2. CASE f.key = k
    BY <1>2, <1>3, <2>1, <2>2
  <2>3. CASE f.key # k
    <3>1. agents'[f.key] = agents[f.key]
      BY <1>3, <2>1, <2>3
    <3>2. NextOffset(f.key)' = NextOffset(f.key)
      BY <3>1 DEF NextOffset
    <3> QED BY <2>1, <3>1, <3>2, Zenon DEF Numbered
  <2> QED BY <2>2, <2>3
<1> QED BY <1>4, <1>5, Zenon DEF Numbered, Multiples

\* Every step keeps the numbering.
LEMMA NextNumbered == IInv /\ Numbered /\ [Next]_vars => Numbered'
<1> SUFFICES ASSUME IInv, Numbered, [Next]_vars PROVE Numbered'
  OBVIOUS
<1>1. CASE \E k \in Keys : Send(k) \/ Restart(k)
  BY <1>1, SendNumbered, RestartNumbered, Zenon
<1>2. ASSUME NEW p \in network, Arrive(p) PROVE Numbered'
  <2> DEFINE a == [key |-> p.key, sequence |-> p.sequence, timestamp |-> p.timestamp,
                   capture_time |-> clock, run |-> p.run, nth |-> p.nth]
  <2>1. /\ capture' = Append(capture, a) /\ network' \subseteq network /\ agents' = agents
    BY <1>2, Zenon DEF Arrive
  <2>2. /\ a.key = p.key /\ a.run = p.run /\ a.sequence = p.sequence /\ a.nth = p.nth
    OBVIOUS
  <2> HIDE DEF a
  <2>3. \A n \in 1..Len(capture') : capture'[n] = a \/ capture'[n] \in {capture[m] : m \in 1..Len(capture)}
    <3>1. Len(capture) \in Nat /\ Len(capture') = Len(capture) + 1
          /\ capture'[Len(capture) + 1] = a
          /\ \A n \in 1..Len(capture) : capture'[n] = capture[n]
      <4>1. \A S : \A c \in Seq(S) : \A x : /\ Len(c) \in Nat /\ Len(Append(c, x)) = Len(c) + 1
                                           /\ Append(c, x)[Len(c) + 1] = x
                                           /\ \A n \in 1..Len(c) : Append(c, x)[n] = c[n]
        OBVIOUS
      <4>2. capture \in Seq([key : Keys, sequence : 0..(Modulus - 1), timestamp : Int,
                             capture_time : Int, run : Int, nth : Int])
        BY Zenon DEF IInv, Tables
      <4> QED BY <2>1, <4>1, <4>2, Zenon
    <3> QED BY <3>1
  <2>4. \A f \in Seen' : f \in Seen \/ f = a
    BY <2>1, <2>3, Zenon DEF Seen
  <2>5. p \in Seen
    BY <1>2, Zenon DEF Seen
  <2>6. \A f \in Seen' : \E g \in Seen : /\ f.key = g.key /\ f.run = g.run
                                        /\ f.sequence = g.sequence /\ f.nth = g.nth
    BY <2>2, <2>4, <2>5, Zenon
  <2> QED BY <2>1, <2>6, NumberedKept, Zenon
<1>3. CASE (DissectorNext /\ UNCHANGED <<agents, clock, network>>) \/ UNCHANGED vars
  <2>1. agents' = agents /\ network' = network /\ capture' = capture
    BY <1>3, Zenon DEF DissectorNext, Scan, Show, prefs_changed, init, vars
  <2>2. Seen' = Seen
    BY <2>1, Zenon DEF Seen
  <2> QED BY <2>1, <2>2, NumberedKept, Zenon
<1> QED BY <1>1, <1>2, <1>3, Zenon DEF Next

\* A frame that was judged was compared with an earlier frame of its stream.
LEMMA JudgedAgainst ==
    ASSUME IInv, NEW n \in Judged
    PROVE  \E v \in 1..Len(capture) : /\ frame_analyses[n] = Compare(v, n) /\ Before(n) = capture[v]
                                      /\ capture[v].key = capture[n].key
                                      /\ n \in 1..Len(capture)
<1>1. scanning /\ n \in 1..Len(capture) /\ n <= scanned /\ frame_analyses[n].previous_frame > NoFrame
  BY Zenon DEF Judged
<1>2. scanned \in Nat /\ scanned <= Len(capture) /\ Len(capture) \in Nat
  BY DEF IInv, Tables
<1>3. n \in 1..scanned
  BY <1>1, <1>2
<1>4. PICK v \in Nat : LastOf(capture, capture[n].key, n - 1, v) /\ frame_analyses[n] = Against(v, n)
  BY <1>1, <1>3, Zenon DEF IInv, Analyses
<1>5. v # NoFrame
  <2>1. Alone.previous_frame = 0
    BY DEF Alone, NoFrame
  <2> QED BY <1>1, <1>4, <2>1 DEF Against, NoFrame
<1>6. frame_analyses[n] = Compare(v, n) /\ capture[v].key = capture[n].key
  BY <1>4, <1>5, Zenon DEF Against, LastOf
<1>7. Compare(v, n).previous_frame = v
  BY DEF Compare
<1>8. v \in 1..Len(capture)
  BY <1>1, <1>2, <1>4, <1>5 DEF LastOf, NoFrame
<1> QED BY <1>1, <1>6, <1>7, <1>8, Zenon DEF Before

-----------------------------------------------------------------------------
\* The plugin's stream states name captured frames of their stream, and the agent's
\* sequence numbers stay in their 32 bits.
THEOREM TypeCorrect == Spec => []TypeOK
<1>1. IInv => TypeOK
  BY DEF IInv, Tables, Senders, TypeOK
<1> QED BY <1>1, InitInvariant, NextPreserves, PTL DEF Spec

\* analyse_frame gives every frame of a scan the analysis against its predecessor in
\* the capture, whatever frames are shown, in whatever order, between its calls.
THEOREM AnalysisAgainstPredecessor == Spec => []AnalysisStable
<1>1. ASSUME IInv PROVE AnalysisStable
  <2> SUFFICES ASSUME scanning, NEW n \in 1..Len(capture)
               PROVE  frame_analyses[n] =
                          IF n > scanned THEN NotAnalysed
                          ELSE IF Predecessor(n) = NoFrame THEN Alone
                          ELSE Compare(Predecessor(n), n)
    BY <1>1, Zenon DEF AnalysisStable
  <2>1. scanned \in Nat /\ Len(capture) \in Nat
    BY <1>1 DEF IInv, Tables
  <2>2. CASE n > scanned
    <3>1. n \in (scanned + 1)..Len(capture)
      BY <2>1, <2>2
    <3>2. frame_analyses[n] = NotAnalysed
      BY <1>1, <3>1, Zenon DEF IInv, Analyses
    <3> QED BY <2>2, <3>2
  <2>3. CASE ~(n > scanned)
    <3>1. n \in 1..scanned /\ n \in Nat \ {0}
      BY <2>1, <2>3
    <3>2. PICK v \in Nat : /\ LastOf(capture, capture[n].key, n - 1, v)
                           /\ frame_analyses[n] = Against(v, n)
      BY <1>1, <3>1, Zenon DEF IInv, Analyses
    <3>3. Predecessor(n) = v
      BY <3>1, <3>2, PredecessorIs, Zenon
    <3> QED BY <2>3, <3>2, <3>3, Zenon DEF Against
  <2> QED BY <2>2, <2>3
<1> QED BY <1>1, InitInvariant, NextPreserves, PTL DEF Spec

\* forward_sequence_delta finds how many numbers lie between two frames when fewer than
\* the wrap window were lost, also where the counter passed 2^32.
THEOREM DeltaExact ==
    ASSUME NEW p \in 0..(Modulus - 1), NEW d \in 1..WrapWindow,
           NEW c \in 0..(Modulus - 1), c = p + d \/ c = p + d - Modulus
    PROVE  forward_sequence_delta(p, c) = [delta |-> d, regression |-> FALSE]
<1>1. Modulus \in Nat /\ WrapWindow \in 1..(Modulus - 1)
  BY DissectorAssumption
<1>2. CASE c = p + d
  <2>1. c >= p /\ ~(c < p) /\ c - p = d
    BY <1>2
  <2> QED BY <2>1, Zenon DEF forward_sequence_delta
<1>3. CASE c = p + d - Modulus
  <2>1. /\ ~(c >= p) /\ c < p /\ p >= Modulus - WrapWindow /\ c < WrapWindow
        /\ (Modulus - p) + c = d
    BY <1>1, <1>3
  <2> QED BY <2>1, Zenon DEF forward_sequence_delta
<1> QED BY <1>2, <1>3

\* The frames between two of a run that are d apart: d - 1 were sent, and all of them
\* were uncaptured if nothing sent after the first had been captured.
LEMMA UncapturedBound ==
    ASSUME NEW n \in Nat, NEW a \in Int, NEW b \in Int, NEW d \in Nat, d = b - a, d # 0,
           Before(n).nth = a, capture[n].nth = b
    PROVE  /\ Cardinality(Uncaptured(n)) <= d - 1
           /\ IsFiniteSet(Uncaptured(n))
           /\ (\A m \in 1..(n - 1) : SameRun(m, n) => capture[m].nth <= a /\ capture[m].nth \in Int) =>
                 Cardinality(Uncaptured(n)) = d - 1
<1> DEFINE lo == a + 1
           hi == b - 1
           all == lo..hi
<1>1. lo \in Int /\ hi \in Int /\ (IF lo > hi THEN 0 ELSE hi - lo + 1) = d - 1
  OBVIOUS
<1>2. IsFiniteSet(all) /\ Cardinality(all) = d - 1
  <2> HIDE DEF lo, hi
  <2>1. IsFiniteSet(lo..hi) /\ Cardinality(lo..hi) = IF lo > hi THEN 0 ELSE hi - lo + 1
    BY <1>1, FS_Interval, Zenon
  <2> QED BY <1>1, <2>1, Zenon
<1>3. Uncaptured(n) \subseteq all
  BY Zenon DEF Uncaptured
<1>4. ASSUME \A m \in 1..(n - 1) : SameRun(m, n) => capture[m].nth <= a /\ capture[m].nth \in Int
      PROVE  Uncaptured(n) = all
  <2>1. \A i \in all : \A x \in Int : x <= a => x # i
    OBVIOUS
  <2> QED BY <1>4, <2>1, Zenon DEF Uncaptured
<1> HIDE DEF all
<1>5. Cardinality(Uncaptured(n)) <= d - 1 /\ IsFiniteSet(Uncaptured(n))
  BY <1>2, <1>3, FS_Subset, Zenon
<1> QED BY <1>2, <1>4, <1>5, Zenon

\* In one run, and if fewer than the wrap window were lost at a time, the plugin reports no
\* fewer frames as missing than were not captured between two that arrived, and exactly
\* as many unless a late frame came between, for every modulus and window and however
\* often seq has wrapped.
THEOREM LossesCounted == Spec => []MissingExact
<1>1. ASSUME IInv, Numbered PROVE MissingExact
  <2> SUFFICES ASSUME NEW n \in Judged, Before(n).run = capture[n].run,
                      capture[n].nth - Before(n).nth \in 1..WrapWindow
               PROVE  /\ frame_analyses[n].missing_packets >= Cardinality(Uncaptured(n))
                      /\ (\A m \in 1..(n - 1) : SameRun(m, n) => capture[m].nth <= Before(n).nth) =>
                            frame_analyses[n].missing_packets = Cardinality(Uncaptured(n))
                      /\ ~frame_analyses[n].sequence_regression
                      /\ ~frame_analyses[n].duplicate_sequence
    BY Zenon DEF MissingExact
  <2>1. PICK v \in 1..Len(capture) : /\ frame_analyses[n] = Compare(v, n) /\ Before(n) = capture[v]
                                     /\ capture[v].key = capture[n].key /\ n \in 1..Len(capture)
    BY <1>1, JudgedAgainst, Zenon
  <2>2. PICK f \in Seen, g \in Seen : f = capture[v] /\ g = capture[n]
    BY <2>1, Zenon DEF Seen
  <2>3. PICK d \in 1..WrapWindow : d = g.nth - f.nth
    BY <2>1, <2>2
  <2>4. Offset(g) - Offset(f) \in Multiples
    BY <1>1, <2>1, <2>2, Zenon DEF Numbered
  <2>5. /\ f.sequence \in 0..(Modulus - 1) /\ g.sequence \in 0..(Modulus - 1)
        /\ f.nth \in Int /\ g.nth \in Int
    BY <1>1, SeenTypes, Zenon
  <2>6. Modulus \in Nat \ {0} /\ WrapWindow \in 1..(Modulus - 1)
    BY DissectorAssumption, Zenon
  <2>7. g.sequence = f.sequence + d \/ g.sequence = f.sequence + d - Modulus
    <3>1. g.sequence - f.sequence - d = Offset(g) - Offset(f)
      <4>1. g.sequence - f.sequence - (g.nth - f.nth) = Offset(g) - Offset(f)
        BY <2>5, <2>6 DEF Offset
      <4> QED BY <2>3, <4>1, Zenon
    <3> QED BY <2>3, <2>4, <2>5, <3>1, Ahead, Zenon
  <2>8. forward_sequence_delta(f.sequence, g.sequence) = [delta |-> d, regression |-> FALSE]
    BY <2>5, <2>7, DeltaExact, Zenon
  <2>9. /\ Compare(v, n).missing_packets = IF d > 1 THEN d - 1 ELSE 0
        /\ Compare(v, n).sequence_regression = FALSE
        /\ Compare(v, n).duplicate_sequence = (d = 0)
    BY <2>2, <2>8 DEF Compare
  <2>10. d \in Nat /\ d # 0 /\ (IF d > 1 THEN d - 1 ELSE 0) = d - 1
    BY <2>6
  <2>11. ~Compare(v, n).sequence_regression /\ ~Compare(v, n).duplicate_sequence
    BY <2>9, <2>10, Zenon
  <2>12. frame_analyses[n].missing_packets = d - 1
    BY <2>1, <2>9, <2>10, Zenon
  <2>13. \A m \in 1..(n - 1) : capture[m].nth \in Int
    <3>1. Len(capture) \in Nat /\ n \in 1..Len(capture)
      BY <1>1, <2>1 DEF IInv, Tables
    <3>2. \A m \in 1..(n - 1) : m \in 1..Len(capture)
      BY <3>1
    <3> QED BY <1>1, <3>2, SeenTypes, Zenon DEF Seen
  <2>14. /\ Cardinality(Uncaptured(n)) <= d - 1 /\ IsFiniteSet(Uncaptured(n))
         /\ (\A m \in 1..(n - 1) : SameRun(m, n) => capture[m].nth <= Before(n).nth) =>
               Cardinality(Uncaptured(n)) = d - 1
    <3>1. n \in Nat
      BY <2>1
    <3>2. Before(n).nth = f.nth /\ capture[n].nth = g.nth
      BY <2>1, <2>2, Zenon
    <3>3. /\ Cardinality(Uncaptured(n)) <= d - 1 /\ IsFiniteSet(Uncaptured(n))
          /\ (\A m \in 1..(n - 1) : SameRun(m, n) => capture[m].nth <= f.nth /\ capture[m].nth \in Int) =>
                Cardinality(Uncaptured(n)) = d - 1
      BY <2>3, <2>5, <2>10, <3>1, <3>2, UncapturedBound, Zenon
    <3> QED BY <2>13, <3>2, <3>3, Zenon
  <2>15. Cardinality(Uncaptured(n)) \in Nat
    BY <2>14, FS_CardinalityType, Zenon
  <2>16. frame_analyses[n].missing_packets >= Cardinality(Uncaptured(n))
    BY <2>10, <2>12, <2>14, <2>15
  <2> QED BY <2>1, <2>11, <2>12, <2>14, <2>16, Zenon
<1>2. Init => IInv /\ Numbered
  BY InitInvariant, InitNumbered
<1>3. IInv /\ Numbered /\ [Next]_vars => (IInv /\ Numbered)'
  BY NextPreserves, NextNumbered
<1> QED BY <1>1, <1>2, <1>3, PTL DEF Spec

\* A frame that is late or comes twice is flagged as such and never counted as a loss, as
\* long as it is not late by nearly a whole turn of the counter.
THEOREM LateAndDoubleFrames == Spec => []LateFramesFlagged
<1>1. ASSUME IInv, Numbered PROVE LateFramesFlagged
  <2> SUFFICES ASSUME NEW n \in Judged, Before(n).run = capture[n].run,
                      capture[n].sequence <= Before(n).sequence, capture[n].nth <= Before(n).nth,
                      Before(n).nth - capture[n].nth <= Modulus - 2 * WrapWindow
               PROVE  /\ frame_analyses[n].missing_packets = 0
                      /\ IF capture[n].nth = Before(n).nth
                           THEN frame_analyses[n].duplicate_sequence
                           ELSE frame_analyses[n].sequence_regression
    BY Zenon DEF LateFramesFlagged
  <2>1. PICK v \in 1..Len(capture) : /\ frame_analyses[n] = Compare(v, n) /\ Before(n) = capture[v]
                                     /\ capture[v].key = capture[n].key /\ n \in 1..Len(capture)
    BY <1>1, JudgedAgainst, Zenon
  <2>2. PICK f \in Seen, g \in Seen : f = capture[v] /\ g = capture[n]
    BY <2>1, Zenon DEF Seen
  <2>3. /\ g.sequence <= f.sequence /\ g.nth <= f.nth
        /\ f.nth - g.nth <= Modulus - 2 * WrapWindow
    BY <2>1, <2>2, Zenon
  <2>4. Offset(f) - Offset(g) \in Multiples
    BY <1>1, <2>1, <2>2, Zenon DEF Numbered
  <2>5. /\ f.sequence \in 0..(Modulus - 1) /\ g.sequence \in 0..(Modulus - 1)
        /\ f.nth \in Int /\ g.nth \in Int
    BY <1>1, SeenTypes, Zenon
  <2>6. Modulus \in Nat \ {0} /\ WrapWindow \in 1..(Modulus - 1)
    BY DissectorAssumption, Zenon
  <2>7. PICK e \in Nat : e = f.nth - g.nth
    BY <2>3, <2>5
  <2> DEFINE r == forward_sequence_delta(f.sequence, g.sequence)
  <2>8. /\ Compare(v, n).missing_packets = IF r.delta > 1 THEN r.delta - 1 ELSE 0
        /\ Compare(v, n).sequence_regression = r.regression
        /\ Compare(v, n).duplicate_sequence = (r.delta = 0)
    BY <2>2 DEF Compare
  <2>9. /\ e = 0 => r.delta = 0
        /\ e # 0 => r = [delta |-> None, regression |-> TRUE]
    <3>1. (f.sequence - g.sequence) - e = Offset(f) - Offset(g)
      BY <2>5, <2>6, <2>7 DEF Offset
    <3> QED BY <2>3, <2>4, <2>5, <2>7, <3>1, Behind, Zenon
  <2> HIDE DEF r
  <2>10. CASE f.nth = g.nth
    <3>1. r.delta = 0
      BY <2>5, <2>7, <2>9, <2>10
    <3>2. (IF r.delta > 1 THEN r.delta - 1 ELSE 0) = 0
      BY <3>1
    <3> QED BY <2>1, <2>2, <2>8, <2>10, <3>1, <3>2, Zenon
  <2>11. CASE f.nth # g.nth
    <3>1. r = [delta |-> None, regression |-> TRUE]
      BY <2>5, <2>7, <2>9, <2>11
    <3>2. r.regression = TRUE /\ (IF r.delta > 1 THEN r.delta - 1 ELSE 0) = 0
      BY <3>1 DEF None
    <3> QED BY <2>1, <2>2, <2>8, <2>11, <3>2, Zenon
  <2> QED BY <2>10, <2>11
<1>2. Init => IInv /\ Numbered
  BY InitInvariant, InitNumbered
<1>3. IInv /\ Numbered /\ [Next]_vars => (IInv /\ Numbered)'
  BY NextPreserves, NextNumbered
<1> QED BY <1>1, <1>2, <1>3, PTL DEF Spec

=============================================================================
