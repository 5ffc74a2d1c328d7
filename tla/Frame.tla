-------------------------------- MODULE Frame --------------------------------
(***************************************************************************)
(* One frame, from the payloads the collectors have gathered to what the   *)
(* server's parser makes of it: tlv.c, the push functions of cpu.c, mem.c, *)
(* net.c, disk.c, fs.c and proc.c, the assembly loop of main.c, and        *)
(* tracefox_protocol.py.                                                   *)
(*                                                                         *)
(* A TLV is its type, its length byte and the counts its value begins      *)
(* with.  The bytes of an entry are the window (offset and size) it        *)
(* occupies in the value: an entry survives the trip when the parser reads *)
(* the window the agent wrote.                                             *)
(***************************************************************************)
EXTENDS Naturals, Integers, Sequences, FiniteSets, FiniteSetsExt, Functions

CONSTANT Samples    \* what the collectors may have gathered

Cap == 1400                \* TF_FRAME_BUF_SIZE
MaxInterfaces == 4
MaxDisks == 16
MaxFs == 16
MaxProcGroups == 8
MaxTopN == 7
MaxLabel == 63             \* TF_HOST_LABEL_SIZE - 1

\* proc = Disabled stands for a process collector without proc_prefix, and an
\* empty label for no host_label.
Disabled == -1

ThreadGroup == [top : 0..MaxTopN, truncated : BOOLEAN]

Sample ==
    [label : 0..MaxLabel, net : 0..MaxInterfaces, disk : 0..MaxDisks, fs : 0..MaxFs,
     proc : {Disabled} \cup (0..MaxProcGroups), threads : Seq(ThreadGroup)]

ASSUME SamplesAssumption ==
    \A s \in Samples :
        /\ s \in Sample
        /\ s.proc = Disabled => s.threads = <<>>
        /\ Len(s.threads) <= MaxProcGroups

VARIABLES
    at,            \* the step main.c takes next
    sample,        \* the payloads gathered for this frame
    group,         \* thread_push: index of the next thread group
    len,           \* tlv_writer.len
    tlvs,          \* what the buffer holds after the 12-byte header
    push_errors,   \* main.c's count of failed pushes
    parsed         \* what parse_frame returns on the server

vars == <<at, sample, group, len, tlvs, push_errors, parsed>>

NotParsed == <<>>
HeaderLen == 12
Byte(n) == n % 256         \* the (uint8_t) casts

Init ==
    /\ at = "tlv_init"
    /\ sample \in Samples
    /\ group = 1 /\ len = 0 /\ tlvs = <<>> /\ push_errors = 0
    /\ parsed = NotParsed

-----------------------------------------------------------------------------
(* tlv.c                                                                   *)

\* Mutant: forgets the two bytes of type and length.
FitsNoHeader(length) == len + length <= Cap

Fits(length) == len + 2 + length <= Cap

\* A TLV: its type, its length byte, where its value starts in the buffer, and
\* the count and the TRUNCATED flag that the value carries.
Tlv(type, length, count, truncated) ==
    [type |-> type, length |-> length, off |-> len + 2, count |-> count,
     truncated |-> truncated]

\* tlv_put, and main.c's push_errors++ when it returns -1.
tlv_put(tlv) ==
    IF Fits(tlv.length)
      THEN /\ len' = len + 2 + tlv.length
           /\ tlvs' = Append(tlvs, tlv)
           /\ UNCHANGED push_errors
      ELSE push_errors' = push_errors + 1 /\ UNCHANGED <<len, tlvs>>

tlv_init ==
    /\ at = "tlv_init"
    /\ len' = HeaderLen
    /\ tlvs' = <<>>
    /\ at' = "host_label"
    /\ UNCHANGED <<sample, group, push_errors, parsed>>

-----------------------------------------------------------------------------
(* The pushes of main.c, in the order of collector_list.def.               *)

\* A label that does not fit is only logged.
push_host_label ==
    /\ at = "host_label"
    /\ IF sample.label > 0 /\ Fits(sample.label)
         THEN tlv_put(Tlv("HOST_LABEL", sample.label, 0, FALSE))
         ELSE UNCHANGED <<len, tlvs, push_errors>>
    /\ at' = "cpu"
    /\ UNCHANGED <<sample, group, parsed>>

cpu_push ==
    /\ at = "cpu"
    /\ tlv_put(Tlv("CPU", 10, 0, FALSE))
    /\ at' = "mem"
    /\ UNCHANGED <<sample, group, parsed>>

mem_push ==
    /\ at = "mem"
    /\ tlv_put(Tlv("MEM", 18, 0, FALSE))
    /\ at' = "net"
    /\ UNCHANGED <<sample, group, parsed>>

\* Mutant: the length leaves out the count byte.
ListLenNoCount(count, entry) == Byte(count * entry)

\* A list TLV: a count byte and that many entries; nothing for an empty list.
ListLen(count, entry) == Byte(1 + count * entry)

push_list(type, count, entry) ==
    IF count = 0
      THEN UNCHANGED <<len, tlvs, push_errors>>
      ELSE tlv_put(Tlv(type, ListLen(count, entry), count, FALSE))

net_push ==
    /\ at = "net"
    /\ push_list("NET", sample.net, 24)
    /\ at' = "disk"
    /\ UNCHANGED <<sample, group, parsed>>

\* Mutant: leaves the two IOPS deltas out of the entry.
disk_push_shorter ==
    /\ at = "disk"
    /\ push_list("DISK", sample.disk, 58)
    /\ at' = "fs"
    /\ UNCHANGED <<sample, group, parsed>>

disk_push ==
    /\ at = "disk"
    /\ push_list("DISK", sample.disk, 66)
    /\ at' = "fs"
    /\ UNCHANGED <<sample, group, parsed>>

fs_push ==
    /\ at = "fs"
    /\ push_list("FS", sample.fs, 26)
    /\ at' = "proc"
    /\ UNCHANGED <<sample, group, parsed>>

\* proc_push sends its count byte even for no groups; thread_push follows it
\* only when the PROC TLV went in.
proc_push ==
    /\ at = "proc"
    /\ IF sample.proc = Disabled
         THEN at' = "send" /\ UNCHANGED <<len, tlvs, push_errors>>
         ELSE LET length == ListLen(sample.proc, 24)
              IN  /\ tlv_put(Tlv("PROC", length, sample.proc, FALSE))
                  /\ at' = IF Fits(length) THEN "thread" ELSE "send"
    /\ UNCHANGED <<sample, group, parsed>>

ThreadLen(top) == 34 + 28 * top

\* Mutant: shrinks one entry too far.
EmitTopCountGreedy(top) ==
    CHOOSE k \in 0..top :
        /\ k = 0 \/ Fits(ThreadLen(k + 1))
        /\ \A j \in (k + 1)..top : ~Fits(ThreadLen(j + 1))

\* Mutant: never shrinks.
EmitTopCountAll(top) == top

\* The loop of thread_push that shrinks the top-N until it fits or is empty.
EmitTopCount(top) ==
    CHOOSE k \in 0..top :
        /\ k = 0 \/ Fits(ThreadLen(k))
        /\ \A j \in (k + 1)..top : ~Fits(ThreadLen(j))

\* thread_push: one iteration of its loop over the thread groups.  A group whose
\* header does not fit ends the loop without a trace in the frame.
thread_push ==
    /\ at = "thread" /\ group <= Len(sample.threads)
    /\ LET g == sample.threads[group]
           emit == EmitTopCount(g.top)
       IN  IF ~Fits(ThreadLen(0))
             THEN at' = "send" /\ UNCHANGED <<len, tlvs, push_errors, group>>
             ELSE /\ tlv_put(Tlv("THREAD", ThreadLen(emit), emit,
                                 g.truncated \/ emit < g.top))
                  /\ at' = IF Fits(ThreadLen(emit)) THEN "thread" ELSE "send"
                  /\ group' = group + 1
    /\ UNCHANGED <<sample, parsed>>

thread_push_done ==
    /\ at = "thread" /\ group > Len(sample.threads)
    /\ at' = "send"
    /\ UNCHANGED <<sample, group, len, tlvs, push_errors, parsed>>

-----------------------------------------------------------------------------
(* tracefox_protocol.py, on the datagram that sendto delivers whole.       *)

\* The windows of the entries a loop of the parser reads: count of them, as
\* long as they lie within the value.
Windows(tlv, count, size) ==
    [i \in 1..Min({count, (tlv.length - 1) \div size}) |->
        [off |-> 1 + (i - 1) * size, size |-> size]]

\* DISK and FS entries have an older, shorter layout, told apart by entry_size.
SizedWindows(tlv, size, legacy) ==
    LET entry_size == IF tlv.count > 0 THEN (tlv.length - 1) \div tlv.count ELSE 0
    IN  Windows(tlv, tlv.count, IF entry_size >= size THEN size ELSE legacy)

\* The entries of one TLV, or nothing if the parser skips it.
ParseTlv(tlv) ==
    CASE tlv.type = "NET" /\ tlv.length >= 1 -> Windows(tlv, tlv.count, 24)
      [] tlv.type = "DISK" /\ tlv.length >= 1 -> SizedWindows(tlv, 66, 42)
      [] tlv.type = "FS" /\ tlv.length >= 1 -> SizedWindows(tlv, 26, 22)
      [] tlv.type = "PROC" /\ tlv.length >= 1 -> Windows(tlv, tlv.count, 24)
      [] tlv.type = "THREAD" /\ tlv.length >= 34 ->
            [i \in 1..Min({tlv.count, (tlv.length - 34) \div 28}) |->
                [off |-> 34 + (i - 1) * 28, size |-> 28]]
      [] OTHER -> <<>>

\* Whether the parser accepts a TLV at all, or skips it for its length.
Accepts(tlv) ==
    CASE tlv.type = "CPU" -> tlv.length = 10
      [] tlv.type = "MEM" -> tlv.length = 18
      [] tlv.type = "THREAD" -> tlv.length >= 34
      [] OTHER -> tlv.length >= 1

\* _parse_tlv_entries stops at a TLV that reaches beyond the datagram.
parse_frame ==
    /\ at = "send"
    /\ parsed' = [i \in {j \in 1..Len(tlvs) : /\ \A k \in 1..j :
                                                   tlvs[k].off + tlvs[k].length <= len
                                              /\ Accepts(tlvs[j])} |->
                    [type |-> tlvs[i].type, entries |-> ParseTlv(tlvs[i]),
                     truncated |-> tlvs[i].truncated]]
    /\ at' = "parsed"
    /\ UNCHANGED <<sample, group, len, tlvs, push_errors>>

Done == at = "parsed" /\ UNCHANGED vars

Next ==
    \/ tlv_init \/ push_host_label \/ cpu_push \/ mem_push \/ net_push \/ disk_push
    \/ fs_push \/ proc_push \/ thread_push \/ thread_push_done
    \/ parse_frame \/ Done

Spec == Init /\ [][Next]_vars

-----------------------------------------------------------------------------
(* Properties.                                                             *)

\* Every variable has its type, and the writer never passes the end of buffer.
TypeOK ==
    /\ at \in {"tlv_init", "host_label", "cpu", "mem", "net", "disk", "fs", "proc",
               "thread", "send", "parsed"}
    /\ sample \in Samples
    /\ group \in 1..(Len(sample.threads) + 1)
    /\ len \in 0..Cap
    /\ push_errors \in Nat
    /\ \A i \in 1..Len(tlvs) : tlvs[i].length \in 0..255

\* The frame budget never refuses a push: what is not a thread group always
\* fits, and thread_push shrinks a group before it asks for too much.
NoPushFails == push_errors = 0

Written(count, first, size) ==
    [i \in 1..count |-> [off |-> first + (i - 1) * size, size |-> size]]

Received(type) == {parsed[i] : i \in {j \in DOMAIN parsed : parsed[j].type = type}}

ThreadGroupsReceived == Cardinality({i \in DOMAIN parsed : parsed[i].type = "THREAD"})

\* Every network interface, process group and mount point the agent has gathered is
\* read by the parser from the bytes the agent wrote for it.
ListsArrive ==
    at = "parsed" =>
        /\ \A r \in Received("NET") : r.entries = Written(sample.net, 1, 24)
        /\ sample.net > 0 => Received("NET") # {}
        /\ sample.proc # Disabled =>
              {r.entries : r \in Received("PROC")} = {Written(sample.proc, 1, 24)}
        /\ sample.fs > 0 =>
              {r.entries : r \in Received("FS")} = {Written(sample.fs, 1, 26)}

\* The same for every disk: the README's "per device" counters.
DisksArrive ==
    at = "parsed" /\ sample.disk > 0 =>
        {r.entries : r \in Received("DISK")} = {Written(sample.disk, 1, 66)}

\* A thread group that arrives has all its entries or the TRUNCATED flag, and has
\* lost no more entries than the buffer made necessary; and no group is left out
\* while a group without entries still fits.  (Whether a group that is left out
\* can be told from the frame is TruncationExposed.)
ThreadGroupsWhole ==
    at = "parsed" =>
        /\ \A i \in DOMAIN parsed :
            parsed[i].type = "THREAD" =>
                LET g == sample.threads[Cardinality(
                           {j \in DOMAIN parsed : j <= i /\ parsed[j].type = "THREAD"})]
                    n == Len(parsed[i].entries)
                IN  /\ n = tlvs[i].count
                    /\ g.truncated => parsed[i].truncated
                    /\ n < g.top => /\ parsed[i].truncated
                                    /\ tlvs[i].off + ThreadLen(n + 1) > Cap
        /\ Fits(ThreadLen(0)) => ThreadGroupsReceived = Len(sample.threads)

\* README.md:85 and :323: when the frame budget cuts the threads short, the metric
\* tracefox_thread_collection_truncated says so.  At the least, one of the thread
\* groups of a frame that lacks a group carries the flag.
TruncationExposed ==
    at = "parsed" =>
        \/ ThreadGroupsReceived = Len(sample.threads)
        \/ \E r \in Received("THREAD") : r.truncated
=============================================================================
