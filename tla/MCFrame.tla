------------------------------- MODULE MCFrame -------------------------------
(***************************************************************************)
(* Frame on samples at the edges of every count.  The thread groups are    *)
(* some groups of equal size followed by one of any size, so that the last *)
(* one meets every possible remainder of the buffer.                       *)
(***************************************************************************)
EXTENDS Frame

ThreadGroupOf(top, truncated) == [top |-> top, truncated |-> truncated]

ThreadSeqs ==
    {<<>>} \cup
    {[i \in 1..(n + 1) |-> ThreadGroupOf(IF i <= n THEN k ELSE last, i <= n /\ k = 5)] :
        n \in {0, 3, 4, 6, 7}, k \in {0, 5, 7}, last \in 0..MaxTopN}

SampleOf(labels, nets, disks, fss) ==
    {s \in [label : labels, net : nets, disk : disks, fs : fss,
            proc : {Disabled, 0, 8}, threads : ThreadSeqs] :
        s.proc = Disabled => s.threads = <<>>}

\* Counts whose TLV length still fits in its byte.
FittingSamples == SampleOf({0, 1, 63}, {0, 4}, {0, 1, 3}, {0, 5, 9})

\* Every number of disks the agent collects.
DiskSamples == SampleOf({0}, {1}, 0..MaxDisks, {1})

=============================================================================
