----------------------------- MODULE Frame_proofs -----------------------------
(***************************************************************************)
(* For every set of samples the collectors can gather: the writer stays    *)
(* within its buffer, and no push is ever refused; the server reads back   *)
(* the mounts exactly up to nine and the disks exactly up to three; and    *)
(* thread groups arrive whole or marked, in their order.                   *)
(*                                                                         *)
(* The argument is a budget: at each step of main.c the frame is at most   *)
(* as long as the largest TLVs before it, so that everything up to the     *)
(* PROC TLV fits, and thread_push asks for no more than what is left.  The *)
(* results about the server need the layout as well: every TLV lies whole  *)
(* within the frame with the count of the sample, a list whose push is     *)
(* past is there, and the thread groups are the last TLVs.                 *)
(***************************************************************************)
EXTENDS Frame, TLAPS, FiniteSetTheorems

TlvName == {"HOST_LABEL", "CPU", "MEM", "NET", "DISK", "FS", "PROC", "THREAD"}

TlvType ==
    [type : TlvName, length : 0..255, off : Nat, count : Nat, truncated : BOOLEAN]

\* The most a frame can hold when a step begins.
Budget ==
    /\ at = "tlv_init" => len = 0
    /\ at = "host_label" => len <= 12
    /\ at = "cpu" => len <= 77
    /\ at = "mem" => len <= 89
    /\ at = "net" => len <= 109
    /\ at = "disk" => len <= 366
    /\ at = "fs" => len <= 623
    /\ at = "proc" => len <= 880

IInv ==
    /\ TypeOK
    /\ NoPushFails
    /\ tlvs \in Seq(TlvType)
    /\ at = "thread" => sample.proc # Disabled
    /\ Budget

\* The parts of the invariant that the arithmetic below needs.
LEMMA LenType == IInv => len \in 0..1400
  BY DEF IInv, TypeOK, Cap

\* The budget is part of the invariant.
LEMMA BudgetType == IInv => Budget
  BY DEF IInv

\* What SamplesAssumption says of the sample at hand.
LEMMA SampleType ==
    ASSUME sample \in Samples
    PROVE  /\ sample.label \in 0..63
           /\ sample.net \in 0..4 /\ sample.disk \in 0..16 /\ sample.fs \in 0..16
           /\ sample.proc # Disabled => sample.proc \in 0..8
  BY SamplesAssumption
  DEF Sample, MaxLabel, MaxInterfaces, MaxDisks, MaxFs, MaxProcGroups, Disabled

\* The thread groups of a sample.
LEMMA ThreadsType ==
    ASSUME sample \in Samples
    PROVE  sample.threads \in Seq(ThreadGroup)
  BY SamplesAssumption DEF Sample

\* A list's length byte is a byte, whatever the list.
LEMMA ListLenType ==
    ASSUME NEW n \in Nat, NEW e \in Nat
    PROVE  ListLen(n, e) \in 0..255
  <1>1. 1 + n * e \in Nat
    OBVIOUS
  <1> QED
    BY <1>1 DEF ListLen, Byte

\* The shrinking loop ends on a count that fits, once the header does, and on the
\* largest such count.
LEMMA EmitFits ==
    ASSUME NEW top \in 0..7, len \in 0..Cap, Fits(ThreadLen(0))
    PROVE  /\ EmitTopCount(top) \in 0..top
           /\ Fits(ThreadLen(EmitTopCount(top)))
           /\ EmitTopCount(top) < top => ~Fits(ThreadLen(EmitTopCount(top) + 1))
  <1> DEFINE P(k) == /\ k = 0 \/ Fits(ThreadLen(k))
                     /\ \A j \in (k + 1)..top : ~Fits(ThreadLen(j))
  <1>1. \E k \in 0..top : P(k)
    <2>1. \A k \in 0..7 : Fits(ThreadLen(k)) <=> len + 36 + 28 * k <= 1400
      BY DEF Fits, ThreadLen, Cap
    <2>2. CASE len + 36 + 28 * top <= 1400
      <3>1. P(top)
        BY <2>1, <2>2
      <3> QED BY <3>1
    <2>3. CASE ~(len + 36 + 28 * top <= 1400)
      <3>1. PICK k \in 0..7 : /\ len + 36 + 28 * k <= 1400
                              /\ ~(len + 36 + 28 * (k + 1) <= 1400)
        <4>1. len + 36 <= 1400
          BY DEF Fits, ThreadLen, Cap
        <4> QED
          BY <2>3, <4>1 DEF Cap
      <3>2. k < top
        BY <2>3, <3>1 DEF Cap
      <3>3. P(k)
        BY <2>1, <3>1, <3>2 DEF Cap
      <3> QED
        BY <3>2, <3>3
    <2> QED
      BY <2>2, <2>3
  <1>2. EmitTopCount(top) = CHOOSE k \in 0..top : P(k)
    BY DEF EmitTopCount
  <1>3. EmitTopCount(top) \in 0..top /\ P(EmitTopCount(top))
    <2> HIDE DEF P
    <2> QED BY <1>1, <1>2
  <1>4. \A k \in 0..top : P(k) /\ k < top => ~Fits(ThreadLen(k + 1))
    OBVIOUS
  <1> QED
    BY <1>3, <1>4

\* A thread group's TLV has a length that fits its byte.
LEMMA ThreadLenType == \A k \in 0..7 : ThreadLen(k) \in 0..255 /\ k \in Nat
  BY DEF ThreadLen

\* The typing of a TLV, and of the literals the pushes build one from.
LEMMA TlvOK ==
    ASSUME IInv, NEW type \in TlvName, NEW length \in 0..255, NEW count \in Nat,
           NEW truncated \in BOOLEAN
    PROVE  /\ Tlv(type, length, count, truncated) \in TlvType
           /\ Tlv(type, length, count, truncated).length = length
  <1>1. len + 2 \in Nat
    BY DEF IInv, TypeOK, Cap
  <1> QED
    BY <1>1, Zenon DEF Tlv, TlvType

\* The names of the TLVs main.c pushes.
LEMMA Literals ==
    /\ FALSE \in BOOLEAN
    /\ "HOST_LABEL" \in TlvName /\ "CPU" \in TlvName /\ "MEM" \in TlvName
    /\ "NET" \in TlvName /\ "DISK" \in TlvName /\ "FS" \in TlvName
    /\ "PROC" \in TlvName /\ "THREAD" \in TlvName
  BY Zenon DEF TlvName

\* A TLV that fits leaves the length within the buffer.
LEMMA Grow ==
    ASSUME NEW m \in 0..Cap, NEW n \in 0..255, m + 2 + n <= Cap
    PROVE  m + 2 + n \in 0..Cap
  <1>1. m \in Nat /\ n \in Nat
    BY DEF Cap
  <1>2. m + 2 + n \in Nat
    BY <1>1
  <1> QED
    BY <1>2 DEF Cap

\* What tlv_put's Append does to the TLVs.
LEMMA ElementType == \A s \in Seq(TlvType) : \A i \in 1..Len(s) : s[i] \in TlvType
  OBVIOUS

\* What a pushed TLV does to the sequence of them.
LEMMA Appended ==
    ASSUME NEW s \in Seq(TlvType), NEW t \in TlvType
    PROVE  /\ Append(s, t) \in Seq(TlvType)
           /\ Len(Append(s, t)) = Len(s) + 1
           /\ Append(s, t)[Len(s) + 1] = t
           /\ \A i \in 1..Len(s) : Append(s, t)[i] = s[i]
  OBVIOUS

\* tlv_put, when what it is given fits.
LEMMA PutFits ==
    ASSUME IInv, NEW t \in TlvType, Fits(t.length), tlv_put(t)
    PROVE  /\ len' = len + 2 + t.length /\ len' \in 0..Cap
           /\ push_errors' = push_errors
           /\ tlvs' \in Seq(TlvType)
  <1>1. /\ len' = len + 2 + t.length
        /\ tlvs' = Append(tlvs, t)
        /\ push_errors' = push_errors
    BY DEF tlv_put
  <1>2. tlvs' \in Seq(TlvType)
    BY <1>1, Appended DEF IInv
  <1>3. len \in 0..Cap
    BY DEF IInv, TypeOK
  <1>4. t.length \in 0..255
    BY Zenon DEF TlvType
  <1>5. len' \in 0..Cap
    <2>1. len + 2 + t.length <= Cap
      BY Zenon DEF Fits
    <2>2. len + 2 + t.length \in 0..Cap
      BY <1>3, <1>4, <2>1, Grow, Zenon
    <2> QED
      BY <1>1, <2>2, Zenon
  <1> QED
    BY <1>1, <1>2, <1>5

\* The conjunct of TypeOK about length bytes.
LEMMA TlvLength == \A t \in TlvType : t.length \in 0..255
  BY Zenon DEF TlvType

\* Every TLV of the frame has a length byte.
LEMMA Lengths ==
    ASSUME NEW s \in Seq(TlvType)
    PROVE  \A i \in 1..Len(s) : s[i].length \in 0..255
  <1> SUFFICES ASSUME NEW i \in 1..Len(s) PROVE s[i].length \in 0..255
    OBVIOUS
  <1>1. s[i] \in TlvType
    BY ElementType
  <1> QED
    BY <1>1, TlvLength

\* The writer starts within its budget.
LEMMA InitIInv == Init => IInv
  <1> SUFFICES ASSUME Init PROVE IInv
    OBVIOUS
  <1>1. tlvs \in Seq(TlvType) /\ Len(tlvs) = 0
    BY DEF Init
  <1>2. Len(sample.threads) \in Nat
    BY SampleType DEF Init
  <1> QED
    BY <1>1, <1>2 DEF Init, IInv, TypeOK, NoPushFails, Budget, Cap

\* A push that is not thread_push adds one TLV within its budget, or nothing.
LEMMA PushStep ==
    ASSUME IInv, sample' = sample, group' = group, parsed' = parsed,
           at' \in {"cpu", "mem", "net", "disk", "fs", "proc", "thread", "send"},
           at' = "thread" => sample.proc # Disabled,
           len' \in 0..Cap, push_errors' = push_errors, tlvs' \in Seq(TlvType),
           Budget'
    PROVE  IInv'
  <1>1. TypeOK'
    BY Lengths DEF IInv, TypeOK
  <1> QED
    BY <1>1 DEF IInv, NoPushFails

\* A list adds at most a full TLV to the frame.
LEMMA ListPush ==
    ASSUME IInv, NEW type \in TlvName, NEW n \in Nat, NEW e \in Nat, len <= 1000,
           push_list(type, n, e)
    PROVE  /\ len' \in 0..Cap /\ len' <= len + 257
           /\ push_errors' = push_errors
           /\ tlvs' \in Seq(TlvType)
  <1>0. len \in 0..1400
    BY LenType
  <1>t. tlvs \in Seq(TlvType)
    BY DEF IInv
  <1>1. CASE n = 0
    <2>1. len' = len /\ tlvs' = tlvs /\ push_errors' = push_errors
      BY <1>1 DEF push_list
    <2>2. len' \in 0..Cap /\ len' <= len + 257
      BY <1>0, <2>1 DEF Cap
    <2> QED
      BY <1>t, <2>1, <2>2
  <1>2. CASE n # 0
    <2>1. ListLen(n, e) \in 0..255
      BY ListLenType
    <2>2. Fits(ListLen(n, e))
      BY <1>0, <2>1 DEF Fits, Cap
    <2>3. tlv_put(Tlv(type, ListLen(n, e), n, FALSE))
      BY <1>2 DEF push_list
    <2>4. /\ Tlv(type, ListLen(n, e), n, FALSE) \in TlvType
          /\ Tlv(type, ListLen(n, e), n, FALSE).length = ListLen(n, e)
      BY <2>1, TlvOK, Literals, ZenonT(60)
    <2>5. /\ len' = len + 2 + ListLen(n, e) /\ len' \in 0..Cap
          /\ push_errors' = push_errors
          /\ tlvs' \in Seq(TlvType)
      BY <2>2, <2>3, <2>4, PutFits, Zenon
    <2>6. len' = len + 2 + ListLen(n, e)
      BY <2>5
    <2>7. len' <= len + 257
      BY <1>0, <2>1, <2>6
    <2> QED
      BY <2>5, <2>7
  <1> QED
    BY <1>1, <1>2

\* Every step of main.c stays within its budget.
LEMMA NextIInv == IInv /\ [Next]_vars => IInv'
  <1> SUFFICES ASSUME IInv, [Next]_vars PROVE IInv'
    OBVIOUS
  <1>0. sample \in Samples /\ len \in 0..Cap /\ FALSE \in BOOLEAN
    BY DEF IInv, TypeOK
  <1>g. sample.threads \in Seq(ThreadGroup) /\ group \in 1..(Len(sample.threads) + 1)
    BY <1>0, ThreadsType DEF IInv, TypeOK
  <1>b. Budget
    BY BudgetType
  <1>s. /\ sample.label \in 0..63
        /\ sample.net \in Nat /\ sample.disk \in Nat /\ sample.fs \in Nat
        /\ sample.proc # Disabled => sample.proc \in 0..8
    BY <1>0, SampleType
  <1>1. CASE tlv_init
    <2>1. tlvs' \in Seq(TlvType) /\ Len(tlvs') = 0
      BY <1>1 DEF tlv_init
    <2>2. TypeOK'
      BY <1>1, <2>1 DEF tlv_init, IInv, TypeOK, HeaderLen, Cap
    <2> QED
      BY <1>1, <2>1, <2>2 DEF tlv_init, IInv, Budget, NoPushFails, HeaderLen
  <1>2. CASE push_host_label
    <2>1. CASE sample.label > 0 /\ Fits(sample.label)
      <3>1. /\ len' = len + 2 + sample.label /\ len' \in 0..Cap
            /\ push_errors' = push_errors /\ tlvs' \in Seq(TlvType)
        <4>1. sample.label \in 0..255
          BY <1>s
        <4>2. tlv_put(Tlv("HOST_LABEL", sample.label, 0, FALSE))
          BY <1>2, <2>1 DEF push_host_label
        <4>3. 0 \in Nat
          OBVIOUS
        <4>4. /\ Tlv("HOST_LABEL", sample.label, 0, FALSE) \in TlvType
              /\ Tlv("HOST_LABEL", sample.label, 0, FALSE).length = sample.label
          BY <4>1, <4>3, TlvOK, Literals, Zenon
        <4> QED
          BY <2>1, <4>2, <4>4, PutFits, Zenon
      <3>2. Budget'
        <4>1. len' = len + 2 + sample.label
          BY <3>1
        <4> QED
          BY <1>2, <1>0, <1>b, <1>s, <4>1 DEF push_host_label, Budget, Cap
      <3> QED
        BY <1>2, <3>1, <3>2, PushStep DEF push_host_label
    <2>2. CASE ~(sample.label > 0 /\ Fits(sample.label))
      <3>1. UNCHANGED <<len, tlvs, push_errors>>
        BY <1>2, <2>2 DEF push_host_label
      <3>2. Budget'
        BY <1>2, <1>0, <1>b, <3>1 DEF push_host_label, Budget, Cap
      <3>3. tlvs' \in Seq(TlvType)
        BY <3>1 DEF IInv
      <3> QED
        BY <1>2, <1>0, <3>1, <3>2, <3>3, PushStep DEF push_host_label
    <2> QED
      BY <2>1, <2>2
  <1>3. CASE cpu_push
    <2>1. Fits(10)
      BY <1>3, <1>0, <1>b DEF cpu_push, Budget, Fits, Cap
    <2>2. /\ len' = len + 2 + 10 /\ len' \in 0..Cap
          /\ push_errors' = push_errors /\ tlvs' \in Seq(TlvType)
      <3>1. 10 \in 0..255 /\ 0 \in Nat
        OBVIOUS
      <3>2. /\ Tlv("CPU", 10, 0, FALSE) \in TlvType
            /\ Tlv("CPU", 10, 0, FALSE).length = 10
        BY <3>1, TlvOK, Literals, Zenon
      <3>3. tlv_put(Tlv("CPU", 10, 0, FALSE))
        BY <1>3 DEF cpu_push
      <3> QED
        BY <2>1, <3>2, <3>3, PutFits, Zenon
    <2>3. len' = len + 2 + 10
      BY <2>2
    <2>4. Budget'
      BY <1>3, <1>0, <1>b, <2>3 DEF cpu_push, Budget, Cap
    <2> QED
      BY <1>3, <2>2, <2>4, PushStep DEF cpu_push
  <1>4. CASE mem_push
    <2>1. Fits(18)
      BY <1>4, <1>0, <1>b DEF mem_push, Budget, Fits, Cap
    <2>2. /\ len' = len + 2 + 18 /\ len' \in 0..Cap
          /\ push_errors' = push_errors /\ tlvs' \in Seq(TlvType)
      <3> DEFINE n == 18
      <3>1. n \in 0..255 /\ 0 \in Nat
        OBVIOUS
      <3>0. n = 18 /\ Fits(n)
        BY <2>1
      <3>2. /\ Tlv("MEM", n, 0, FALSE) \in TlvType
            /\ Tlv("MEM", n, 0, FALSE).length = n
        <4> HIDE DEF n
        <4> QED
          BY <3>1, TlvOK, Literals, Zenon
      <3>3. tlv_put(Tlv("MEM", n, 0, FALSE))
        BY <1>4 DEF mem_push
      <3> HIDE DEF n
      <3>4. /\ len' = len + 2 + n /\ len' \in 0..Cap
            /\ push_errors' = push_errors /\ tlvs' \in Seq(TlvType)
        BY <3>0, <3>2, <3>3, PutFits, Zenon
      <3> QED
        BY <3>0, <3>4, Zenon
    <2>3. len' = len + 2 + 18
      BY <2>2
    <2>4. Budget'
      BY <1>4, <1>0, <1>b, <2>3 DEF mem_push, Budget, Cap
    <2> QED
      BY <1>4, <2>2, <2>4, PushStep DEF mem_push
  <1>5. CASE net_push
    <2>1. len <= 1000
      BY <1>5, <1>0, <1>b DEF net_push, Budget, Cap
    <2>2. push_list("NET", sample.net, 24)
      BY <1>5 DEF net_push
    <2>3. /\ len' \in 0..Cap /\ len' <= len + 257
          /\ push_errors' = push_errors /\ tlvs' \in Seq(TlvType)
      <3>1. 24 \in Nat
        OBVIOUS
      <3> QED
        BY <1>s, <2>1, <2>2, <3>1, Literals, ListPush, Zenon
    <2>4. len' <= len + 257 /\ len' \in 0..Cap
      BY <2>3
    <2>5. Budget'
      BY <1>5, <1>0, <1>b, <2>4 DEF net_push, Budget, Cap
    <2> QED
      BY <1>5, <2>3, <2>5, PushStep DEF net_push
  <1>6. CASE disk_push
    <2>1. len <= 1000
      BY <1>6, <1>0, <1>b DEF disk_push, Budget, Cap
    <2>2. push_list("DISK", sample.disk, 66)
      BY <1>6 DEF disk_push
    <2>3. /\ len' \in 0..Cap /\ len' <= len + 257
          /\ push_errors' = push_errors /\ tlvs' \in Seq(TlvType)
      <3>1. 66 \in Nat
        OBVIOUS
      <3> QED
        BY <1>s, <2>1, <2>2, <3>1, Literals, ListPush, Zenon
    <2>4. len' <= len + 257 /\ len' \in 0..Cap
      BY <2>3
    <2>5. Budget'
      BY <1>6, <1>0, <1>b, <2>4 DEF disk_push, Budget, Cap
    <2> QED
      BY <1>6, <2>3, <2>5, PushStep DEF disk_push
  <1>7. CASE fs_push
    <2>1. len <= 1000
      BY <1>7, <1>0, <1>b DEF fs_push, Budget, Cap
    <2>2. push_list("FS", sample.fs, 26)
      BY <1>7 DEF fs_push
    <2>3. /\ len' \in 0..Cap /\ len' <= len + 257
          /\ push_errors' = push_errors /\ tlvs' \in Seq(TlvType)
      <3>1. 26 \in Nat
        OBVIOUS
      <3> QED
        BY <1>s, <2>1, <2>2, <3>1, Literals, ListPush, Zenon
    <2>4. len' <= len + 257 /\ len' \in 0..Cap
      BY <2>3
    <2>5. Budget'
      BY <1>7, <1>0, <1>b, <2>4 DEF fs_push, Budget, Cap
    <2> QED
      BY <1>7, <2>3, <2>5, PushStep DEF fs_push
  <1>8. CASE proc_push
    <2>1. CASE sample.proc = Disabled
      <3>1. at' = "send" /\ UNCHANGED <<len, tlvs, push_errors>>
        BY <1>8, <2>1 DEF proc_push
      <3>2. Budget'
        BY <3>1 DEF Budget
      <3>3. tlvs' \in Seq(TlvType)
        BY <3>1 DEF IInv
      <3> QED
        BY <1>8, <1>0, <3>1, <3>2, <3>3, PushStep DEF proc_push
    <2>2. CASE sample.proc # Disabled
      <3> DEFINE length == ListLen(sample.proc, 24)
      <3>1. length \in 0..255 /\ sample.proc \in Nat
        <4>1. sample.proc \in Nat /\ 24 \in Nat
          BY <1>s, <2>2
        <4> QED
          BY <4>1, ListLenType, Zenon
      <3>2. Fits(length)
        BY <1>8, <1>0, <1>b, <3>1 DEF proc_push, Budget, Fits, Cap
      <3>3. tlv_put(Tlv("PROC", length, sample.proc, FALSE)) /\ at' = "thread"
        BY <1>8, <2>2, <3>2 DEF proc_push
      <3>4. /\ len' \in 0..Cap
            /\ push_errors' = push_errors /\ tlvs' \in Seq(TlvType)
        <4> HIDE DEF length
        <4> QED
          <5>1. /\ Tlv("PROC", length, sample.proc, FALSE) \in TlvType
                /\ Tlv("PROC", length, sample.proc, FALSE).length = length
            BY <3>1, TlvOK, Literals, Zenon
          <5> QED
            BY <3>2, <3>3, <5>1, PutFits, Zenon
      <3>5. Budget'
        BY <3>3 DEF Budget
      <3> QED
        BY <1>8, <2>2, <3>3, <3>4, <3>5, PushStep DEF proc_push
    <2> QED
      BY <2>1, <2>2
  <1>9. CASE thread_push
    <2>0. /\ at = "thread" /\ group <= Len(sample.threads)
          /\ sample' = sample /\ parsed' = parsed
      BY <1>9 DEF thread_push
    <2>1. CASE ~Fits(ThreadLen(0))
      <3>1. at' = "send" /\ UNCHANGED <<len, tlvs, push_errors, group>>
        BY <1>9, <2>1 DEF thread_push
      <3>2. Budget'
        BY <3>1 DEF Budget
      <3>3. tlvs' \in Seq(TlvType)
        BY <3>1 DEF IInv
      <3> QED
        BY <1>0, <2>0, <3>1, <3>2, <3>3, PushStep
    <2>2. CASE Fits(ThreadLen(0))
      <3> DEFINE g == sample.threads[group]
                 emit == EmitTopCount(g.top)
                 flag == g.truncated \/ emit < g.top
      <3>1. g \in ThreadGroup
        BY <1>g, <2>0
      <3>2. g.top \in 0..7
        BY <3>1 DEF ThreadGroup, MaxTopN
      <3>3. emit \in 0..7 /\ Fits(ThreadLen(emit))
        <4>1. emit \in 0..g.top /\ Fits(ThreadLen(emit))
          BY <1>0, <2>2, <3>2, EmitFits
        <4> QED
          BY <3>2, <4>1
      <3>4. flag \in BOOLEAN
        BY Zenon
      <3>5. /\ tlv_put(Tlv("THREAD", ThreadLen(emit), emit, flag))
            /\ at' = IF Fits(ThreadLen(emit)) THEN "thread" ELSE "send"
            /\ group' = group + 1
        BY <1>9, <2>2 DEF thread_push
      <3>6. at' = "thread"
        BY <3>3, <3>5
      <3>7. ThreadLen(emit) \in 0..255 /\ emit \in Nat
        <4> HIDE DEF emit
        <4> QED
          BY <3>3, ThreadLenType
      <3>8. /\ len' \in 0..Cap
            /\ push_errors' = push_errors /\ tlvs' \in Seq(TlvType)
        <4> HIDE DEF emit, flag
        <4> QED
          <5>1. /\ Tlv("THREAD", ThreadLen(emit), emit, flag) \in TlvType
                /\ Tlv("THREAD", ThreadLen(emit), emit, flag).length = ThreadLen(emit)
            BY <3>4, <3>7, TlvOK, Literals, ZenonT(60)
          <5> QED
            BY <3>3, <3>5, <5>1, PutFits, Zenon
      <3>9. group' \in 1..(Len(sample'.threads) + 1)
        BY <1>g, <2>0, <3>5
      <3>10. TypeOK'
        <4> HIDE DEF g, emit, flag
        <4> QED
          BY <2>0, <3>6, <3>8, <3>9, Lengths DEF IInv, TypeOK
      <3> QED
        <4> HIDE DEF g, emit, flag
        <4> QED
          BY <2>0, <3>6, <3>8, <3>10 DEF IInv, NoPushFails, Budget
    <2> QED
      BY <2>1, <2>2
  <1>10. CASE thread_push_done
    <2>1. Budget'
      BY <1>10 DEF thread_push_done, Budget
    <2>2. tlvs' \in Seq(TlvType)
      BY <1>10 DEF thread_push_done, IInv
    <2> QED
      BY <1>10, <1>0, <2>1, <2>2, PushStep DEF thread_push_done
  <1>11. CASE parse_frame
    <2>1. /\ at' = "parsed"
          /\ UNCHANGED <<sample, group, len, tlvs, push_errors>>
      BY <1>11 DEF parse_frame
    <2>2. TypeOK'
      BY <2>1 DEF IInv, TypeOK
    <2>3. NoPushFails' /\ tlvs' \in Seq(TlvType)
      BY <2>1, Zenon DEF IInv, NoPushFails
    <2>4. Budget' /\ at' # "thread"
      BY <2>1 DEF Budget
    <2> QED
      BY <2>2, <2>3, <2>4, Zenon DEF IInv
  <1>12. CASE UNCHANGED vars
    <2>1. UNCHANGED <<at, sample, group, len, tlvs, push_errors>>
      BY <1>12 DEF vars
    <2>2. TypeOK'
      BY <2>1 DEF IInv, TypeOK
    <2>3. NoPushFails' /\ tlvs' \in Seq(TlvType) /\ (at' = "thread" => sample'.proc # Disabled)
      BY <2>1, Zenon DEF IInv, NoPushFails
    <2>4. Budget'
      BY <2>1 DEF IInv, Budget
    <2> QED
      BY <2>2, <2>3, <2>4, Zenon DEF IInv
  <1> QED
    BY <1>1, <1>2, <1>3, <1>4, <1>5, <1>6, <1>7, <1>8, <1>9, <1>10, <1>11, <1>12
    DEF Next, Done

\* The budget holds throughout.
LEMMA Inductive == Spec => []IInv
  BY InitIInv, NextIInv, PTL DEF Spec

\* tlv_put never writes beyond the frame buffer, whatever the collectors have
\* gathered, and every length byte is a byte.
THEOREM TypeCorrect == Spec => []TypeOK
  <1>1. IInv => TypeOK
    BY DEF IInv
  <1> QED
    BY Inductive, <1>1, PTL

\* No collector's push is refused for lack of room: main.c's push_errors stays
\* 0 until sendto, with any number of interfaces, disks, mount points, process
\* groups and thread groups.
THEOREM PushesFit == Spec => []NoPushFails
  <1>1. IInv => NoPushFails
    BY DEF IInv
  <1> QED
    BY Inductive, <1>1, PTL

-----------------------------------------------------------------------------
(* What the frame holds, and what the parser makes of it.                  *)

\* A TLV lies within the frame and has a length the parser accepts.
Whole(t, l) == t.off + t.length <= l /\ Accepts(t)

ListTlv(t, count, entry) == t.count = count /\ t.length = ListLen(count, entry)

\* The TLV of a list says what the sample holds.
Content(t, s) ==
    /\ t.type = "NET" => ListTlv(t, s.net, 24)
    /\ t.type = "DISK" => ListTlv(t, s.disk, 66)
    /\ t.type = "FS" => ListTlv(t, s.fs, 26)
    /\ t.type = "PROC" => ListTlv(t, s.proc, 24)

\* The TLV of a thread group has lost no more entries than it had to.
Group(t, g) ==
    /\ t.count \in 0..g.top
    /\ t.length = ThreadLen(t.count)
    /\ g.truncated => t.truncated
    /\ t.count < g.top => t.truncated /\ t.off + ThreadLen(t.count + 1) > Cap

\* The thread groups pushed so far are the last TLVs, in their order.
ThreadsLast(ts, g, gs) ==
    /\ g - 1 <= Len(ts)
    /\ \A i \in 1..Len(ts) :
        LET k == i - (Len(ts) - (g - 1))
        IN  IF k <= 0 THEN ts[i].type # "THREAD"
                      ELSE ts[i].type = "THREAD" /\ Group(ts[i], gs[k])

Has(ts, type) == \E i \in 1..Len(ts) : ts[i].type = type

\* A list whose push is past is in the frame.
Present(a, ts, s) ==
    /\ a \in {"disk", "fs", "proc", "thread", "send", "parsed"} /\ s.net > 0 => Has(ts, "NET")
    /\ a \in {"fs", "proc", "thread", "send", "parsed"} /\ s.disk > 0 => Has(ts, "DISK")
    /\ a \in {"proc", "thread", "send", "parsed"} /\ s.fs > 0 => Has(ts, "FS")
    /\ a \in {"thread", "send", "parsed"} /\ s.proc # Disabled => Has(ts, "PROC")

Contents == \A i \in 1..Len(tlvs) : Whole(tlvs[i], len) /\ Content(tlvs[i], sample)

ThreadsPushed ==
    /\ at \notin {"thread", "send", "parsed"} => group = 1
    /\ at \in {"send", "parsed"} => group = Len(sample.threads) + 1 \/ ~Fits(ThreadLen(0))

ParsedFrame ==
    [i \in {j \in 1..Len(tlvs) : /\ \A k \in 1..j : tlvs[k].off + tlvs[k].length <= len
                                 /\ Accepts(tlvs[j])} |->
        [type |-> tlvs[i].type, entries |-> ParseTlv(tlvs[i]),
         truncated |-> tlvs[i].truncated]]

LInv ==
    /\ Contents
    /\ Present(at, tlvs, sample)
    /\ ThreadsLast(tlvs, group, sample.threads)
    /\ ThreadsPushed
    /\ at = "parsed" => parsed = ParsedFrame

\* An empty frame is laid out well.
LEMMA InitLInv == Init => LInv
  <1> SUFFICES ASSUME Init PROVE LInv
    OBVIOUS
  <1>1. Len(tlvs) = 0 /\ group = 1 /\ at = "tlv_init"
    BY DEF Init
  <1>2. Contents
    BY <1>1 DEF Contents
  <1>3. ThreadsLast(tlvs, group, sample.threads)
    BY <1>1 DEF ThreadsLast
  <1> QED
    BY <1>1, <1>2, <1>3 DEF LInv, Present, ThreadsPushed

\* One TLV more, at the end.
Grew(t) ==
    /\ tlvs' \in Seq(TlvType)
    /\ Len(tlvs') = Len(tlvs) + 1
    /\ tlvs'[Len(tlvs) + 1] = t
    /\ \A i \in 1..Len(tlvs) : tlvs'[i] = tlvs[i]

\* What was within the frame stays within it.
LEMMA Stays ==
    ASSUME NEW o \in Nat, NEW n \in 0..255, NEW l \in 0..Cap, NEW m \in 0..255,
           o + n <= l
    PROVE  o + n <= l + 2 + m
  BY DEF Cap

\* A TLV pushed last ends where the frame ends.
LEMMA Reaches ==
    ASSUME NEW l \in 0..Cap, NEW m \in 0..255
    PROVE  l + 2 + m <= l + 2 + m
  BY DEF Cap

\* A push that fits adds its TLV right behind what the frame holds.
LEMMA Added ==
    ASSUME IInv, Contents, sample' = sample, NEW t \in TlvType, t.off = len + 2,
           Fits(t.length), tlv_put(t), Accepts(t), Content(t, sample)
    PROVE  Grew(t) /\ Contents'
  <1>1. /\ len' = len + 2 + t.length
        /\ tlvs' = Append(tlvs, t)
    BY DEF tlv_put
  <1>2. tlvs \in Seq(TlvType) /\ len \in 0..Cap
    BY DEF IInv, TypeOK
  <1>3. Grew(t)
    BY <1>1, <1>2, Appended DEF Grew
  <1>4. t.length \in 0..255
    BY TlvLength
  <1>5. ASSUME NEW i \in 1..Len(tlvs')
        PROVE  Whole(tlvs'[i], len') /\ Content(tlvs'[i], sample')
    <2>1. CASE i \in 1..Len(tlvs)
      <3>1. tlvs[i] \in TlvType
        BY <1>2, <2>1, ElementType
      <3>2. tlvs[i].off \in Nat /\ tlvs[i].length \in 0..255
        BY <3>1, Zenon DEF TlvType
      <3>3. /\ tlvs[i].off + tlvs[i].length <= len
            /\ Accepts(tlvs[i]) /\ Content(tlvs[i], sample)
        BY <2>1, Zenon DEF Contents, Whole
      <3>4. tlvs[i].off + tlvs[i].length <= len'
        BY <1>1, <1>2, <1>4, <3>2, <3>3, Stays, Zenon
      <3>5. tlvs'[i] = tlvs[i]
        BY <1>3, <2>1, Zenon DEF Grew
      <3> QED
        BY <3>3, <3>4, <3>5, Zenon DEF Whole
    <2>2. CASE i = Len(tlvs) + 1
      <3>1. tlvs'[i] = t
        BY <1>3, <2>2, Zenon DEF Grew
      <3>2. t.off + t.length <= len'
        <4>1. len + 2 + t.length <= len + 2 + t.length
          BY <1>2, <1>4, Reaches, Zenon
        <4> QED
          BY <1>1, <4>1, Zenon
      <3> QED
        BY <3>1, <3>2, Zenon DEF Whole
    <2>3. i \in 1..Len(tlvs) \/ i = Len(tlvs) + 1
      <3>1. Len(tlvs') = Len(tlvs) + 1 /\ Len(tlvs) \in Nat
        BY <1>2, <1>3 DEF Grew
      <3> QED
        BY <3>1
    <2> QED
      BY <2>1, <2>2, <2>3
  <1> QED
    BY <1>3, <1>5, Zenon DEF Contents

\* Nothing leaves the frame.
Kept == \A type : Has(tlvs, type) => Has(tlvs', type)

\* A push keeps what the frame had and adds its TLV.
LEMMA HasKept ==
    ASSUME tlvs \in Seq(TlvType), NEW t, Grew(t)
    PROVE  Kept /\ Has(tlvs', t.type)
  <1>1. Len(tlvs) \in Nat /\ Len(tlvs') = Len(tlvs) + 1
    BY DEF Grew
  <1>2. Len(tlvs) + 1 \in 1..Len(tlvs')
    BY <1>1
  <1>3. \A i \in 1..Len(tlvs) : i \in 1..Len(tlvs')
    BY <1>1
  <1> QED
    BY <1>2, <1>3, Zenon DEF Grew, Has, Kept

Pushing == {"host_label", "cpu", "mem", "net", "disk", "fs", "proc"}

\* Before the thread groups there is room for any TLV.
LEMMA Room ==
    ASSUME IInv, at \in Pushing, NEW n \in 0..255
    PROVE  Fits(n)
  <1>1. len \in 0..1400 /\ Budget
    BY LenType, BudgetType
  <1>2. len <= 880
    BY <1>1 DEF Budget, Pushing
  <1> QED
    BY <1>1, <1>2 DEF Fits, Cap

\* A push before the thread groups: one TLV that is not a thread group's.
LEMMA PlainPush ==
    ASSUME IInv, LInv, at \in Pushing, at' \notin {"send", "parsed"},
           sample' = sample, group' = group,
           NEW t, t.type # "THREAD", Grew(t), Contents', Present(at', tlvs', sample')
    PROVE  LInv'
  <1>1. group = 1 /\ Len(tlvs) \in Nat /\ Len(tlvs') = Len(tlvs) + 1
    BY DEF IInv, LInv, ThreadsPushed, Pushing, Grew
  <1>2. \A i \in 1..Len(tlvs) : tlvs[i].type # "THREAD"
    BY <1>1 DEF LInv, ThreadsLast
  <1>3. \A i \in 1..Len(tlvs') : tlvs'[i].type # "THREAD"
    <2>1. \A i \in 1..Len(tlvs') : i \in 1..Len(tlvs) \/ i = Len(tlvs) + 1
      BY <1>1
    <2> QED
      BY <1>2, <2>1, Zenon DEF Grew
  <1>4. ThreadsLast(tlvs', group', sample'.threads)
    <2>1. group' - 1 <= Len(tlvs')
      BY <1>1
    <2>2. \A i \in 1..Len(tlvs') : ~(i - (Len(tlvs') - (group' - 1)) <= 0) => FALSE
      BY <1>1
    <2> QED
      BY <1>3, <2>1, <2>2, Zenon DEF ThreadsLast
  <1>5. ThreadsPushed'
    BY <1>1 DEF ThreadsPushed
  <1> QED
    BY <1>4, <1>5, Zenon DEF LInv

\* A step that writes nothing.
LEMMA NoPush ==
    ASSUME LInv, UNCHANGED <<sample, group, len, tlvs>>, at' # "parsed",
           Present(at', tlvs, sample), ThreadsPushed'
    PROVE  LInv'
  <1>1. Contents'
    BY Zenon DEF LInv, Contents
  <1>2. Present(at', tlvs', sample') /\ ThreadsLast(tlvs', group', sample'.threads)
    BY Zenon DEF LInv
  <1> QED
    BY <1>1, <1>2, Zenon DEF LInv

\* The list TLVs: their length is odd, so that it is never 0.
LEMMA OddLength ==
    ASSUME NEW n \in 0..16
    PROVE  /\ ListLen(n, 24) \in 1..255 /\ ListLen(n, 26) \in 1..255
           /\ ListLen(n, 66) \in 1..255
  BY DEF ListLen, Byte

ListName == {"NET", "DISK", "FS", "PROC"}

\* The push of a list leaves its TLV whole, last, and with the count of the sample.
LEMMA ListLayout ==
    ASSUME IInv, LInv, at \in Pushing, sample' = sample,
           NEW type \in ListName,
           NEW n \in Nat, NEW e \in Nat, ListLen(n, e) \in 1..255,
           tlv_put(Tlv(type, ListLen(n, e), n, FALSE)),
           Content(Tlv(type, ListLen(n, e), n, FALSE), sample)
    PROVE  /\ Grew(Tlv(type, ListLen(n, e), n, FALSE))
           /\ Tlv(type, ListLen(n, e), n, FALSE).type = type
           /\ Contents'
  <1> DEFINE t == Tlv(type, ListLen(n, e), n, FALSE)
  <1>1. /\ t.type = type /\ t.length = ListLen(n, e) /\ t.off = len + 2
    BY Zenon DEF Tlv
  <1>2. ListLen(n, e) \in 0..255 /\ ListLen(n, e) >= 1
    BY SMT
  <1>3. t \in TlvType
    BY <1>2, TlvOK, Literals, ZenonT(60) DEF TlvName, ListName
  <1>4. Accepts(t)
    <2>1. t.type \notin {"CPU", "MEM", "THREAD"}
      BY <1>1, Zenon DEF ListName
    <2>2. t.length >= 1
      BY <1>1, <1>2, Zenon
    <2> HIDE DEF t
    <2> QED
      BY <2>1, <2>2 DEF Accepts
  <1>5. Fits(t.length)
    BY <1>1, <1>2, Room, Zenon
  <1>6. Contents
    BY DEF LInv
  <1> HIDE DEF t
  <1>7. tlv_put(t) /\ Content(t, sample)
    BY Zenon DEF t
  <1>8. Grew(t) /\ Contents'
    BY <1>1, <1>3, <1>4, <1>5, <1>6, <1>7, Added, Zenon
  <1> QED
    BY <1>1, <1>8, Zenon DEF t

\* The three TLVs that are not lists.
LEMMA FixedLayout ==
    ASSUME IInv, LInv, at \in Pushing, sample' = sample,
           NEW type \in {"HOST_LABEL", "CPU", "MEM"}, NEW n \in 1..255,
           type = "CPU" => n = 10, type = "MEM" => n = 18,
           tlv_put(Tlv(type, n, 0, FALSE))
    PROVE  /\ Grew(Tlv(type, n, 0, FALSE))
           /\ Tlv(type, n, 0, FALSE).type = type
           /\ Contents'
  <1> DEFINE t == Tlv(type, n, 0, FALSE)
  <1>1. /\ t.type = type /\ t.length = n /\ t.off = len + 2
    BY Zenon DEF Tlv
  <1>2. n \in 0..255 /\ n >= 1 /\ 0 \in Nat
    BY SMT
  <1>3. t \in TlvType
    BY <1>2, TlvOK, Literals, ZenonT(60) DEF TlvName
  <1>4. Accepts(t) /\ Content(t, sample)
    <2>1. /\ t.type \in {"HOST_LABEL", "CPU", "MEM"}
          /\ t.type = "CPU" => t.length = 10
          /\ t.type = "MEM" => t.length = 18
          /\ t.length >= 1
      BY <1>1, <1>2, Zenon
    <2> HIDE DEF t
    <2>2. Accepts(t)
      BY <2>1 DEF Accepts
    <2>3. Content(t, sample)
      BY <2>1 DEF Content
    <2> QED
      BY <2>2, <2>3
  <1>5. Fits(t.length)
    BY <1>1, <1>2, Room, Zenon
  <1>6. Contents
    BY DEF LInv
  <1> HIDE DEF t
  <1>7. tlv_put(t)
    BY Zenon DEF t
  <1>8. Grew(t) /\ Contents'
    BY <1>1, <1>3, <1>4, <1>5, <1>6, <1>7, Added, Zenon
  <1> QED
    BY <1>1, <1>8, Zenon DEF t

\* The pushes of the lists: what a list holds is in the frame afterwards.
LEMMA ListStep ==
    ASSUME IInv, LInv, at \in Pushing, at' \notin {"send", "parsed"},
           sample' = sample, group' = group,
           NEW type \in ListName,
           NEW n \in Nat, NEW e \in Nat, ListLen(n, e) \in 1..255,
           tlv_put(Tlv(type, ListLen(n, e), n, FALSE)),
           Content(Tlv(type, ListLen(n, e), n, FALSE), sample),
           Kept /\ Has(tlvs', type) => Present(at', tlvs', sample')
    PROVE  LInv'
  <1> DEFINE t == Tlv(type, ListLen(n, e), n, FALSE)
  <1>1. Grew(t) /\ t.type = type /\ Contents'
    BY ListLayout, Zenon
  <1> HIDE DEF t
  <1>2. Kept /\ Has(tlvs', type)
    BY <1>1, HasKept, Zenon DEF IInv
  <1>3. t.type # "THREAD"
    BY <1>1, Zenon DEF ListName
  <1> QED
    BY <1>1, <1>2, <1>3, PlainPush, Zenon

\* The content of a list's own TLV.
LEMMA ListContent ==
    /\ Content(Tlv("NET", ListLen(sample.net, 24), sample.net, FALSE), sample)
    /\ Content(Tlv("DISK", ListLen(sample.disk, 66), sample.disk, FALSE), sample)
    /\ Content(Tlv("FS", ListLen(sample.fs, 26), sample.fs, FALSE), sample)
    /\ Content(Tlv("PROC", ListLen(sample.proc, 24), sample.proc, FALSE), sample)
  BY Zenon DEF Content, ListTlv, Tlv

\* thread_push adds the next group behind the ones before it.
LEMMA GroupStep ==
    ASSUME NEW ts \in Seq(TlvType), NEW us \in Seq(TlvType), NEW t, NEW gs,
           NEW g \in Nat \ {0}, ThreadsLast(ts, g, gs),
           Len(us) = Len(ts) + 1, us[Len(ts) + 1] = t,
           \A i \in 1..Len(ts) : us[i] = ts[i],
           t.type = "THREAD", Group(t, gs[g])
    PROVE  ThreadsLast(us, g + 1, gs)
  <1> DEFINE m == Len(ts)
             K(i) == i - (m - (g - 1))
  <1>1. m \in Nat /\ Len(us) = m + 1 /\ g - 1 <= m
    BY DEF ThreadsLast
  <1>2. \A i \in 1..(m + 1) : /\ i - ((m + 1) - (g + 1 - 1)) = K(i)
                              /\ i \in 1..m \/ i = m + 1
    BY <1>1
  <1>3. K(m + 1) = g /\ ~(g <= 0) /\ g + 1 - 1 <= m + 1
    BY <1>1
  <1>4. \A i \in 1..m : IF K(i) <= 0 THEN ts[i].type # "THREAD"
                        ELSE ts[i].type = "THREAD" /\ Group(ts[i], gs[K(i)])
    BY Zenon DEF ThreadsLast
  <1>5. us[m + 1] = t /\ \A i \in 1..m : us[i] = ts[i]
    OBVIOUS
  <1> HIDE DEF m, K
  <1>6. \A i \in 1..(m + 1) : IF K(i) <= 0 THEN us[i].type # "THREAD"
                              ELSE us[i].type = "THREAD" /\ Group(us[i], gs[K(i)])
    <2>1. ASSUME NEW i \in 1..m
          PROVE  IF K(i) <= 0 THEN us[i].type # "THREAD"
                 ELSE us[i].type = "THREAD" /\ Group(us[i], gs[K(i)])
      BY <1>4, <1>5, Zenon
    <2>2. us[m + 1].type = "THREAD" /\ Group(us[m + 1], gs[K(m + 1)]) /\ ~(K(m + 1) <= 0)
      BY <1>3, <1>5, Zenon
    <2> QED
      BY <1>2, <2>1, <2>2, Zenon
  <1>7. \A i \in 1..Len(us) :
           LET k == i - (Len(us) - ((g + 1) - 1))
           IN  IF k <= 0 THEN us[i].type # "THREAD"
                         ELSE us[i].type = "THREAD" /\ Group(us[i], gs[k])
    <2> SUFFICES ASSUME NEW i \in 1..Len(us)
                 PROVE  LET k == i - (Len(us) - ((g + 1) - 1))
                        IN  IF k <= 0 THEN us[i].type # "THREAD"
                                      ELSE us[i].type = "THREAD" /\ Group(us[i], gs[k])
      OBVIOUS
    <2>1. i \in 1..(m + 1)
      BY <1>1, Zenon
    <2>2. i - (Len(us) - ((g + 1) - 1)) = K(i)
      BY <1>1, <1>2, <2>1 DEF K
    <2> QED
      BY <1>6, <2>1, <2>2, Zenon
  <1>8. (g + 1) - 1 <= Len(us)
    BY <1>1
  <1> QED
    BY <1>7, <1>8, Zenon DEF ThreadsLast

\* One iteration of thread_push that writes a group.
LEMMA ThreadStep ==
    ASSUME IInv, LInv, thread_push, Fits(ThreadLen(0))
    PROVE  LInv'
  <1> DEFINE g == sample.threads[group]
             emit == EmitTopCount(g.top)
             flag == g.truncated \/ emit < g.top
             t == Tlv("THREAD", ThreadLen(emit), emit, flag)
  <1>1. /\ at = "thread" /\ group <= Len(sample.threads)
        /\ sample' = sample /\ group' = group + 1
        /\ tlv_put(t)
        /\ at' = IF Fits(ThreadLen(emit)) THEN "thread" ELSE "send"
    BY DEF thread_push
  <1>2. sample \in Samples /\ len \in 0..Cap /\ tlvs \in Seq(TlvType) /\ Contents
    BY DEF IInv, TypeOK, LInv
  <1>3. sample.threads \in Seq(ThreadGroup) /\ group \in 1..(Len(sample.threads) + 1)
    BY <1>2, ThreadsType DEF IInv, TypeOK
  <1>4. g.top \in 0..7
    <2>1. g \in ThreadGroup
      BY <1>1, <1>3
    <2> QED
      BY <2>1 DEF ThreadGroup, MaxTopN
  <1>5. /\ emit \in 0..g.top /\ Fits(ThreadLen(emit))
        /\ emit < g.top => ~Fits(ThreadLen(emit + 1))
    BY <1>2, <1>4, EmitFits
  <1>6. /\ t.type = "THREAD" /\ t.length = ThreadLen(emit) /\ t.count = emit
        /\ t.truncated = flag /\ t.off = len + 2
    BY Zenon DEF Tlv
  <1>7. flag \in BOOLEAN /\ (g.truncated => flag) /\ (emit < g.top => flag)
    BY Zenon
  <1>8. emit \in 0..7 /\ emit \in Nat /\ ThreadLen(emit) \in 0..255 /\ ThreadLen(emit) >= 34
    <2>1. emit \in 0..7
      BY <1>4, <1>5
    <2> HIDE DEF emit
    <2> QED
      BY <2>1 DEF ThreadLen
  <1>9. t \in TlvType
    <2> HIDE DEF emit, flag
    <2> QED
      BY <1>7, <1>8, TlvOK, Literals, ZenonT(60)
  <1>10. Group(t, g)
    <2>1. emit < g.top => (len + 2) + ThreadLen(emit + 1) > Cap
      <3> DEFINE k == ThreadLen(emit + 1)
      <3>1. k \in Nat
        <4> HIDE DEF emit
        <4> QED BY <1>8 DEF ThreadLen
      <3>2. emit < g.top => ~(len + 2 + k <= Cap)
        BY <1>5, Zenon DEF Fits
      <3> HIDE DEF k, emit, g
      <3>3. ~(len + 2 + k <= Cap) => (len + 2) + k > Cap
        BY <1>2, <3>1 DEF Cap
      <3> QED
        BY <3>2, <3>3, Zenon DEF k
    <2> HIDE DEF t, g, emit, flag
    <2> QED
      BY <1>5, <1>6, <1>7, <2>1, Zenon DEF Group
  <1>11. Accepts(t) /\ Content(t, sample) /\ Fits(t.length)
    <2> HIDE DEF t, g, emit, flag
    <2>1. t.type = "THREAD" /\ t.length >= 34
      BY <1>6, <1>8, Zenon
    <2>2. Accepts(t)
      BY <2>1 DEF Accepts
    <2>3. Content(t, sample)
      BY <2>1 DEF Content
    <2> QED
      BY <1>5, <1>6, <2>2, <2>3, Zenon
  <1> HIDE DEF t, g, emit, flag
  <1>12. Grew(t) /\ Contents'
    BY <1>1, <1>2, <1>6, <1>9, <1>11, Added, Zenon
  <1>13. ThreadsLast(tlvs', group', sample'.threads)
    <2>1. group \in Nat \ {0}
      BY <1>3
    <2>2. ThreadsLast(tlvs, group, sample.threads) /\ g = sample.threads[group]
      BY Zenon DEF LInv, g
    <2>3. ThreadsLast(tlvs', group + 1, sample.threads)
      BY <1>2, <1>6, <1>10, <1>12, <2>1, <2>2, GroupStep, ZenonT(60) DEF Grew
    <2> QED
      BY <1>1, <2>3, Zenon
  <1>14. at' = "thread"
    BY <1>1, <1>5, Zenon
  <1>15. Present(at', tlvs', sample')
    <2>1. Kept
      BY <1>2, <1>12, HasKept, Zenon
    <2>2. Present("thread", tlvs, sample)
      BY <1>1, Zenon DEF LInv
    <2>3. Present("thread", tlvs', sample)
      BY <2>1, <2>2, Zenon DEF Present, Kept
    <2> QED
      BY <1>1, <1>14, <2>3, Zenon
  <1>16. ThreadsPushed' /\ at' # "parsed"
    BY <1>14 DEF ThreadsPushed
  <1> QED
    BY <1>12, <1>13, <1>15, <1>16, Zenon DEF LInv

\* Before the network interfaces no list is due.
LEMMA NothingDue == \A ts, s : \A a \in {"host_label", "cpu", "mem", "net"} : Present(a, ts, s)
  BY DEF Present

\* The push of a TLV that is no list keeps the layout.
LEMMA FixedStep ==
    ASSUME IInv, LInv, at \in Pushing, at' \in {"cpu", "mem", "net"},
           sample' = sample, group' = group,
           NEW type \in {"HOST_LABEL", "CPU", "MEM"}, NEW n \in 1..255,
           type = "CPU" => n = 10, type = "MEM" => n = 18,
           tlv_put(Tlv(type, n, 0, FALSE))
    PROVE  LInv'
  <1> DEFINE t == Tlv(type, n, 0, FALSE)
  <1>1. Grew(t) /\ t.type = type /\ Contents'
    BY FixedLayout
  <1> HIDE DEF t
  <1>2. t.type # "THREAD" /\ at' \notin {"send", "parsed"}
    BY <1>1, Zenon
  <1>3. Present(at', tlvs', sample')
    BY NothingDue, Zenon
  <1> QED
    BY <1>1, <1>2, <1>3, PlainPush, Zenon

\* Every step of main.c and of the parser keeps the layout.
LEMMA NextLInv == IInv /\ LInv /\ [Next]_vars => LInv'
  <1> SUFFICES ASSUME IInv, LInv, [Next]_vars PROVE LInv'
    OBVIOUS
  <1>0. sample \in Samples
    BY DEF IInv, TypeOK
  <1>s. /\ sample.label \in 0..63
        /\ sample.net \in 0..16 /\ sample.disk \in 0..16 /\ sample.fs \in 0..16
        /\ sample.proc # Disabled => sample.proc \in 0..16
    BY <1>0, SampleType
  <1>n. /\ sample.net \in Nat /\ sample.disk \in Nat /\ sample.fs \in Nat
        /\ sample.proc # Disabled => sample.proc \in Nat
        /\ 24 \in Nat /\ 66 \in Nat /\ 26 \in Nat
    BY <1>s
  <1>l. "NET" \in ListName /\ "DISK" \in ListName /\ "FS" \in ListName /\ "PROC" \in ListName
    BY Zenon DEF ListName
  <1>p. Present(at, tlvs, sample)
    BY DEF LInv
  <1>g. at \in Pushing => group = 1
    BY DEF LInv, ThreadsPushed, Pushing
  <1>1. CASE tlv_init
    <2>1. Len(tlvs') = 0 /\ group' = 1 /\ at' = "host_label" /\ sample' = sample
      BY <1>1 DEF tlv_init, LInv, ThreadsPushed
    <2>2. Contents'
      BY <2>1 DEF Contents
    <2>3. ThreadsLast(tlvs', group', sample'.threads)
      BY <2>1 DEF ThreadsLast
    <2> QED
      BY <2>1, <2>2, <2>3 DEF LInv, Present, ThreadsPushed
  <1>2. CASE push_host_label
    <2>0. /\ at = "host_label" /\ at' = "cpu" /\ sample' = sample /\ group' = group
          /\ at \in Pushing
      BY <1>2 DEF push_host_label, Pushing
    <2>1. CASE sample.label > 0 /\ Fits(sample.label)
      <3>1. tlv_put(Tlv("HOST_LABEL", sample.label, 0, FALSE))
        BY <1>2, <2>1 DEF push_host_label
      <3>2. sample.label \in 1..255
        BY <1>s, <2>1
      <3> QED
        BY <2>0, <3>1, <3>2, FixedStep, ZenonT(60)
    <2>2. CASE ~(sample.label > 0 /\ Fits(sample.label))
      <3>1. UNCHANGED <<len, tlvs>>
        BY <1>2, <2>2 DEF push_host_label
      <3>2. ThreadsPushed' /\ at' # "parsed"
        BY <1>g, <2>0 DEF ThreadsPushed
      <3>3. Present(at', tlvs, sample)
        BY <2>0, NothingDue, Zenon
      <3> QED
        BY <2>0, <3>1, <3>2, <3>3, NoPush, Zenon
    <2> QED
      BY <2>1, <2>2
  <1>3. CASE cpu_push
    <2>1. /\ at \in Pushing /\ at' = "mem" /\ sample' = sample /\ group' = group
          /\ tlv_put(Tlv("CPU", 10, 0, FALSE))
      BY <1>3 DEF cpu_push, Pushing
    <2>2. 10 \in 1..255
      OBVIOUS
    <2> QED
      BY <2>1, <2>2, FixedStep, ZenonT(60)
  <1>4. CASE mem_push
    <2>1. /\ at \in Pushing /\ at' = "net" /\ sample' = sample /\ group' = group
          /\ tlv_put(Tlv("MEM", 18, 0, FALSE))
      BY <1>4 DEF mem_push, Pushing
    <2>2. 18 \in 1..255
      OBVIOUS
    <2> QED
      BY <2>1, <2>2, FixedStep, ZenonT(60)
  <1>5. CASE net_push
    <2>0. /\ at = "net" /\ at' = "disk" /\ sample' = sample /\ group' = group
          /\ at \in Pushing /\ at' \notin {"send", "parsed"}
          /\ push_list("NET", sample.net, 24)
      BY <1>5 DEF net_push, Pushing
    <2>1. CASE sample.net # 0
      <3>1. tlv_put(Tlv("NET", ListLen(sample.net, 24), sample.net, FALSE))
        BY <2>0, <2>1 DEF push_list
      <3>2. Kept /\ Has(tlvs', "NET") => Present(at', tlvs', sample')
        BY <2>0 DEF Present
      <3>3. ListLen(sample.net, 24) \in 1..255
        BY <1>s, OddLength, Zenon
      <3> QED
        BY <1>n, <1>l, <2>0, <3>1, <3>2, <3>3, ListContent, ListStep, ZenonT(60)
    <2>2. CASE sample.net = 0
      <3>1. UNCHANGED <<len, tlvs>>
        BY <2>0, <2>2 DEF push_list
      <3>2. ThreadsPushed' /\ at' # "parsed"
        BY <1>g, <2>0 DEF ThreadsPushed
      <3>3. Present(at', tlvs, sample)
        BY <2>0, <2>2 DEF Present
      <3> QED
        BY <2>0, <3>1, <3>2, <3>3, NoPush, Zenon
    <2> QED
      BY <2>1, <2>2
  <1>6. CASE disk_push
    <2>0. /\ at = "disk" /\ at' = "fs" /\ sample' = sample /\ group' = group
          /\ at \in Pushing /\ at' \notin {"send", "parsed"}
          /\ push_list("DISK", sample.disk, 66)
      BY <1>6 DEF disk_push, Pushing
    <2>1. CASE sample.disk # 0
      <3>1. tlv_put(Tlv("DISK", ListLen(sample.disk, 66), sample.disk, FALSE))
        BY <2>0, <2>1 DEF push_list
      <3>2. Kept /\ Has(tlvs', "DISK") => Present(at', tlvs', sample')
        BY <1>p, <2>0, Zenon DEF Present, Kept
      <3>3. ListLen(sample.disk, 66) \in 1..255
        BY <1>s, OddLength, Zenon
      <3> QED
        BY <1>n, <1>l, <2>0, <3>1, <3>2, <3>3, ListContent, ListStep, ZenonT(60)
    <2>2. CASE sample.disk = 0
      <3>1. UNCHANGED <<len, tlvs>>
        BY <2>0, <2>2 DEF push_list
      <3>2. ThreadsPushed' /\ at' # "parsed"
        BY <1>g, <2>0 DEF ThreadsPushed
      <3>3. Present(at', tlvs, sample)
        BY <1>p, <2>0, <2>2 DEF Present
      <3> QED
        BY <2>0, <3>1, <3>2, <3>3, NoPush, Zenon
    <2> QED
      BY <2>1, <2>2
  <1>7. CASE fs_push
    <2>0. /\ at = "fs" /\ at' = "proc" /\ sample' = sample /\ group' = group
          /\ at \in Pushing /\ at' \notin {"send", "parsed"}
          /\ push_list("FS", sample.fs, 26)
      BY <1>7 DEF fs_push, Pushing
    <2>1. CASE sample.fs # 0
      <3>1. tlv_put(Tlv("FS", ListLen(sample.fs, 26), sample.fs, FALSE))
        BY <2>0, <2>1 DEF push_list
      <3>2. Kept /\ Has(tlvs', "FS") => Present(at', tlvs', sample')
        BY <1>p, <2>0, Zenon DEF Present, Kept
      <3>3. ListLen(sample.fs, 26) \in 1..255
        BY <1>s, OddLength, Zenon
      <3> QED
        BY <1>n, <1>l, <2>0, <3>1, <3>2, <3>3, ListContent, ListStep, ZenonT(60)
    <2>2. CASE sample.fs = 0
      <3>1. UNCHANGED <<len, tlvs>>
        BY <2>0, <2>2 DEF push_list
      <3>2. ThreadsPushed' /\ at' # "parsed"
        BY <1>g, <2>0 DEF ThreadsPushed
      <3>3. Present(at', tlvs, sample)
        BY <1>p, <2>0, <2>2 DEF Present
      <3> QED
        BY <2>0, <3>1, <3>2, <3>3, NoPush, Zenon
    <2> QED
      BY <2>1, <2>2
  <1>8. CASE proc_push
    <2>0. /\ at = "proc" /\ sample' = sample /\ group' = group /\ at \in Pushing
      BY <1>8 DEF proc_push, Pushing
    <2>1. CASE sample.proc # Disabled
      <3>1. tlv_put(Tlv("PROC", ListLen(sample.proc, 24), sample.proc, FALSE))
        BY <1>8, <2>1 DEF proc_push
      <3>2. ListLen(sample.proc, 24) \in 1..255 /\ sample.proc \in Nat
        BY <1>s, <1>n, <2>1, OddLength, Zenon
      <3>3. ListLen(sample.proc, 24) \in 0..255
        BY <3>2
      <3>4. at' = "thread" /\ at' \notin {"send", "parsed"}
        BY <1>8, <2>0, <2>1, <3>3, Room DEF proc_push
      <3>5. Kept /\ Has(tlvs', "PROC") => Present(at', tlvs', sample')
        BY <1>p, <2>0, <3>4, Zenon DEF Present, Kept
      <3> QED
        BY <1>n, <1>l, <2>0, <3>1, <3>2, <3>4, <3>5, ListContent, ListStep, ZenonT(60)
    <2>2. CASE sample.proc = Disabled
      <3>1. at' = "send" /\ UNCHANGED <<len, tlvs>>
        BY <1>8, <2>2 DEF proc_push
      <3>2. sample.threads = <<>>
        BY <1>0, <2>2, SamplesAssumption
      <3>3. ThreadsPushed' /\ at' # "parsed"
        BY <1>g, <2>0, <3>1, <3>2 DEF ThreadsPushed
      <3>4. Present(at', tlvs, sample)
        BY <1>p, <2>0, <2>2, <3>1 DEF Present
      <3> QED
        BY <2>0, <3>1, <3>3, <3>4, NoPush, Zenon
    <2> QED
      BY <2>1, <2>2
  <1>9. CASE thread_push
    <2>1. CASE Fits(ThreadLen(0))
      BY <1>9, <2>1, ThreadStep
    <2>2. CASE ~Fits(ThreadLen(0))
      <3>1. at = "thread" /\ at' = "send" /\ UNCHANGED <<sample, group, len, tlvs>>
        BY <1>9, <2>2 DEF thread_push
      <3>2. ~Fits(ThreadLen(0))'
        BY <2>2, <3>1, Zenon DEF Fits, ThreadLen
      <3>3. ThreadsPushed' /\ at' # "parsed"
        BY <3>1, <3>2, Zenon DEF ThreadsPushed
      <3>4. Present(at', tlvs, sample)
        BY <1>p, <3>1 DEF Present
      <3> QED
        BY <3>1, <3>3, <3>4, NoPush, Zenon
    <2> QED
      BY <2>1, <2>2
  <1>10. CASE thread_push_done
    <2>1. /\ at = "thread" /\ at' = "send" /\ UNCHANGED <<sample, group, len, tlvs>>
          /\ group > Len(sample.threads)
      BY <1>10 DEF thread_push_done
    <2>2. group = Len(sample.threads) + 1
      <3>1. sample.threads \in Seq(ThreadGroup) /\ group \in 1..(Len(sample.threads) + 1)
        BY <1>0, ThreadsType DEF IInv, TypeOK
      <3> QED
        BY <2>1, <3>1
    <2>3. ThreadsPushed' /\ at' # "parsed"
      BY <2>1, <2>2, Zenon DEF ThreadsPushed
    <2>4. Present(at', tlvs, sample)
      BY <1>p, <2>1 DEF Present
    <2> QED
      BY <2>1, <2>3, <2>4, NoPush, Zenon
  <1>11. CASE parse_frame
    <2>1. /\ at = "send" /\ at' = "parsed" /\ UNCHANGED <<sample, group, len, tlvs>>
          /\ parsed' = ParsedFrame
      BY <1>11 DEF parse_frame, ParsedFrame
    <2>2. parsed' = ParsedFrame'
      BY <2>1, Zenon DEF ParsedFrame
    <2>3. Contents' /\ ThreadsLast(tlvs', group', sample'.threads)
      BY <2>1, Zenon DEF LInv, Contents
    <2>4. ThreadsPushed'
      BY <2>1, Zenon DEF LInv, ThreadsPushed, Fits, ThreadLen
    <2>5. Present(at', tlvs', sample')
      <3>1. Present(at', tlvs, sample)
        BY <1>p, <2>1 DEF Present
      <3> QED
        BY <2>1, <3>1, Zenon
    <2> QED
      BY <2>2, <2>3, <2>4, <2>5, Zenon DEF LInv
  <1>12. CASE UNCHANGED vars
    <2>1. UNCHANGED <<at, sample, group, len, tlvs, parsed>>
      BY <1>12 DEF vars
    <2>2. (at' = "parsed" => parsed' = ParsedFrame')
      BY <2>1, Zenon DEF LInv, ParsedFrame
    <2>3. Contents' /\ ThreadsLast(tlvs', group', sample'.threads)
      BY <2>1, Zenon DEF LInv, Contents
    <2>4. ThreadsPushed' /\ Present(at', tlvs', sample')
      BY <2>1, Zenon DEF LInv, ThreadsPushed, Fits, ThreadLen
    <2> QED
      BY <2>2, <2>3, <2>4, Zenon DEF LInv
  <1> QED
    BY <1>1, <1>2, <1>3, <1>4, <1>5, <1>6, <1>7, <1>8, <1>9, <1>10, <1>11, <1>12
    DEF Next, Done

\* Budget and layout hold throughout.
LEMMA Layout == Spec => [](IInv /\ LInv)
  BY InitIInv, NextIInv, InitLInv, NextLInv, PTL DEF Spec

-----------------------------------------------------------------------------
(* The lists on the server.                                                *)

\* The parser keeps every TLV of the frame.
LEMMA ParsedAll ==
    ASSUME IInv, LInv, at = "parsed"
    PROVE  /\ DOMAIN parsed = 1..Len(tlvs)
           /\ \A i \in 1..Len(tlvs) : /\ parsed[i].type = tlvs[i].type
                                      /\ parsed[i].entries = ParseTlv(tlvs[i])
                                      /\ parsed[i].truncated = tlvs[i].truncated
  <1>1. parsed = ParsedFrame /\ Contents
    BY DEF LInv
  <1>2. Len(tlvs) \in Nat
    BY DEF IInv
  <1>3. \A j \in 1..Len(tlvs) : /\ \A k \in 1..j : tlvs[k].off + tlvs[k].length <= len
                                /\ Accepts(tlvs[j])
    <2>1. \A j \in 1..Len(tlvs) : \A k \in 1..j : k \in 1..Len(tlvs)
      BY <1>2
    <2> QED
      BY <1>1, <2>1, Zenon DEF Contents, Whole
  <1>4. {j \in 1..Len(tlvs) : /\ \A k \in 1..j : tlvs[k].off + tlvs[k].length <= len
                              /\ Accepts(tlvs[j])} = 1..Len(tlvs)
    BY <1>3, Zenon
  <1>5. parsed = [i \in 1..Len(tlvs) |->
                    [type |-> tlvs[i].type, entries |-> ParseTlv(tlvs[i]),
                     truncated |-> tlvs[i].truncated]]
    BY <1>1, <1>4, Zenon DEF ParsedFrame
  <1> QED
    BY <1>5, Zenon

\* When all TLVs of a type are read the same way, that is what arrives.
LEMMA Arrives ==
    ASSUME IInv, LInv, at = "parsed", NEW type, Has(tlvs, type), NEW w,
           \A i \in 1..Len(tlvs) : tlvs[i].type = type => ParseTlv(tlvs[i]) = w
    PROVE  {r.entries : r \in Received(type)} = {w}
  <1>1. \A r \in Received(type) : r.entries = w
    BY ParsedAll, Zenon DEF Received
  <1>2. PICK i \in 1..Len(tlvs) : tlvs[i].type = type
    BY Zenon DEF Has
  <1>3. parsed[i] \in Received(type)
    BY <1>2, ParsedAll, Zenon DEF Received
  <1> QED
    BY <1>1, <1>3, Zenon

\* Min, where the parser's two limits agree.
LEMMA MinSame == \A n \in Nat : Min({n, n}) = n
  BY DEF Min

\* Entries read with the size they were written with are the entries written.
LEMMA WindowsWritten ==
    ASSUME NEW t, NEW n \in Nat, NEW size \in Nat, (t.length - 1) \div size = n
    PROVE  Windows(t, n, size) = Written(n, 1, size)
  <1>1. Min({n, (t.length - 1) \div size}) = n
    BY MinSame, Zenon
  <1> QED
    BY <1>1, Zenon DEF Windows, Written

\* Entries read at another size are not the ones written.
LEMMA WindowsDiffer ==
    ASSUME NEW t, NEW n \in Nat \ {0}, NEW size \in Nat, NEW other \in Nat, size # other
    PROVE  Windows(t, n, other) # Written(n, 1, size)
  <1> SUFFICES ASSUME Windows(t, n, other) = Written(n, 1, size) PROVE FALSE
    OBVIOUS
  <1> DEFINE m == Min({n, (t.length - 1) \div other})
  <1>1. DOMAIN Windows(t, n, other) = 1..m /\ DOMAIN Written(n, 1, size) = 1..n
    BY Zenon DEF Windows, Written
  <1>2. 1 \in 1..n
    OBVIOUS
  <1>3. 1 \in 1..m
    BY <1>1, <1>2, Zenon
  <1>4. Windows(t, n, other)[1].size = other
    BY <1>3, Zenon DEF Windows
  <1>5. Written(n, 1, size)[1].size = size
    BY <1>2, Zenon DEF Written
  <1> QED
    BY <1>4, <1>5, Zenon

\* The length byte of a list of 24-byte entries, and what the parser divides it by.
LEMMA ShortLists ==
    ASSUME NEW n \in 0..8
    PROVE  ListLen(n, 24) >= 1 /\ (ListLen(n, 24) - 1) \div 24 = n
  BY DEF ListLen, Byte

\* The length bytes of the disks: right for three disks, wrapped from four on.
LEMMA DiskLengths ==
    ASSUME NEW n \in 1..16
    PROVE  /\ ListLen(n, 66) >= 1
           /\ n <= 3 => /\ (ListLen(n, 66) - 1) \div n >= 66
                        /\ (ListLen(n, 66) - 1) \div 66 = n
           /\ n > 3 => ~((ListLen(n, 66) - 1) \div n >= 66)
  <1>1. n \in {1, 2, 3, 4, 5, 6, 7, 8, 9, 10, 11, 12, 13, 14, 15, 16}
    OBVIOUS
  <1> QED
    BY <1>1 DEF ListLen, Byte

\* The same for the mount points: right for nine, wrapped from ten on.
LEMMA FsLengths ==
    ASSUME NEW n \in 1..16
    PROVE  /\ ListLen(n, 26) >= 1
           /\ n <= 9 => /\ (ListLen(n, 26) - 1) \div n >= 26
                        /\ (ListLen(n, 26) - 1) \div 26 = n
           /\ n > 9 => ~((ListLen(n, 26) - 1) \div n >= 26)
  <1>1. n \in {1, 2, 3, 4, 5, 6, 7, 8, 9, 10, 11, 12, 13, 14, 15, 16}
    OBVIOUS
  <1> QED
    BY <1>1 DEF ListLen, Byte

\* What the parser reads from the TLV of a list.
LEMMA NetRead ==
    ASSUME NEW t, NEW n \in 0..8, t.type \in {"NET", "PROC"}, ListTlv(t, n, 24)
    PROVE  ParseTlv(t) = Written(n, 1, 24)
  <1>1. t.count = n /\ t.length = ListLen(n, 24) /\ n \in Nat /\ 24 \in Nat
    BY DEF ListTlv
  <1>2. t.length >= 1 /\ (t.length - 1) \div 24 = n
    BY <1>1, ShortLists, Zenon
  <1>3. ParseTlv(t) = Windows(t, n, 24)
    BY <1>1, <1>2 DEF ParseTlv
  <1> QED
    BY <1>1, <1>2, <1>3, WindowsWritten, Zenon

\* The parser reads a DISK TLV back exactly when three disks or fewer are in it.
LEMMA DiskRead ==
    ASSUME NEW t, NEW n \in 1..16, t.type = "DISK", ListTlv(t, n, 66)
    PROVE  ParseTlv(t) = Written(n, 1, 66) <=> n <= 3
  <1>1. t.count = n /\ t.length = ListLen(n, 66)
    BY DEF ListTlv
  <1>n. n \in Nat /\ n \in Nat \ {0} /\ n > 0 /\ (n <= 3 \/ n > 3) /\ ~(n <= 3 /\ n > 3)
        /\ 66 \in Nat /\ 42 \in Nat /\ 66 # 42
    OBVIOUS
  <1>2. /\ t.length >= 1
        /\ n <= 3 => (t.length - 1) \div n >= 66 /\ (t.length - 1) \div 66 = n
        /\ n > 3 => ~((t.length - 1) \div n >= 66)
    BY <1>1, DiskLengths, Zenon
  <1>3. ParseTlv(t) = SizedWindows(t, 66, 42)
    BY <1>2 DEF ParseTlv
  <1>4. CASE n <= 3
    <2>1. SizedWindows(t, 66, 42) = Windows(t, n, 66)
      BY <1>1, <1>n, <1>2, <1>4, Zenon DEF SizedWindows
    <2> QED
      BY <1>n, <1>2, <1>3, <1>4, <2>1, WindowsWritten, Zenon
  <1>5. CASE n > 3
    <2>1. SizedWindows(t, 66, 42) = Windows(t, n, 42)
      BY <1>1, <1>n, <1>2, <1>5, Zenon DEF SizedWindows
    <2> QED
      BY <1>n, <1>3, <1>5, <2>1, WindowsDiffer, Zenon
  <1> QED
    BY <1>n, <1>4, <1>5, Zenon

\* The parser reads an FS TLV back exactly when nine mounts or fewer are in it.
LEMMA FsRead ==
    ASSUME NEW t, NEW n \in 1..16, t.type = "FS", ListTlv(t, n, 26)
    PROVE  ParseTlv(t) = Written(n, 1, 26) <=> n <= 9
  <1>1. t.count = n /\ t.length = ListLen(n, 26)
    BY DEF ListTlv
  <1>n. n \in Nat /\ n \in Nat \ {0} /\ n > 0 /\ (n <= 9 \/ n > 9) /\ ~(n <= 9 /\ n > 9)
        /\ 26 \in Nat /\ 22 \in Nat /\ 26 # 22
    OBVIOUS
  <1>2. /\ t.length >= 1
        /\ n <= 9 => (t.length - 1) \div n >= 26 /\ (t.length - 1) \div 26 = n
        /\ n > 9 => ~((t.length - 1) \div n >= 26)
    BY <1>1, FsLengths, Zenon
  <1>3. ParseTlv(t) = SizedWindows(t, 26, 22)
    BY <1>2 DEF ParseTlv
  <1>4. CASE n <= 9
    <2>1. SizedWindows(t, 26, 22) = Windows(t, n, 26)
      BY <1>1, <1>n, <1>2, <1>4, Zenon DEF SizedWindows
    <2> QED
      BY <1>n, <1>2, <1>3, <1>4, <2>1, WindowsWritten, Zenon
  <1>5. CASE n > 9
    <2>1. SizedWindows(t, 26, 22) = Windows(t, n, 22)
      BY <1>1, <1>n, <1>2, <1>5, Zenon DEF SizedWindows
    <2> QED
      BY <1>n, <1>3, <1>5, <2>1, WindowsDiffer, Zenon
  <1> QED
    BY <1>n, <1>4, <1>5, Zenon

\* When a type of TLV is in the frame and is not read as written, it does not arrive.
LEMMA Lost ==
    ASSUME IInv, LInv, at = "parsed", NEW type, Has(tlvs, type), NEW w,
           \A i \in 1..Len(tlvs) : tlvs[i].type = type => ParseTlv(tlvs[i]) # w
    PROVE  {r.entries : r \in Received(type)} # {w}
  <1>1. PICK i \in 1..Len(tlvs) : tlvs[i].type = type
    BY Zenon DEF Has
  <1>2. parsed[i] \in Received(type) /\ parsed[i].entries # w
    BY <1>1, ParsedAll, Zenon DEF Received
  <1>3. parsed[i].entries \in {r.entries : r \in Received(type)}
    BY <1>2, Zenon
  <1> QED
    BY <1>2, <1>3, Zenon

\* The disks of a sample arrive as the agent wrote them if, and only if, there are
\* at most three of them: disk_push casts the length 1 + 66 * count to one byte,
\* and with more disks, of the 16 that TF_MAX_DISKS allows, the parser reads
\* entries at the wrong size or none at all.
THEOREM DisksArriveUpToThree ==
    Spec => [](at = "parsed" => (DisksArrive <=> sample.disk <= 3))
  <1>1. IInv /\ LInv => (at = "parsed" => (DisksArrive <=> sample.disk <= 3))
    <2> SUFFICES ASSUME IInv, LInv, at = "parsed"
                 PROVE  DisksArrive <=> sample.disk <= 3
      OBVIOUS
    <2>1. sample.disk \in 0..16
      BY SampleType DEF IInv, TypeOK
    <2>2. CASE sample.disk = 0
      BY <2>2 DEF DisksArrive
    <2>3. CASE sample.disk \in 1..16
      <3>1. sample.disk > 0
        BY <2>3
      <3>2. Has(tlvs, "DISK")
        BY <3>1 DEF LInv, Present
      <3>3. \A i \in 1..Len(tlvs) :
               tlvs[i].type = "DISK" =>
                   (ParseTlv(tlvs[i]) = Written(sample.disk, 1, 66) <=> sample.disk <= 3)
        BY <2>3, DiskRead, Zenon DEF LInv, Contents, Content
      <3>4. {r.entries : r \in Received("DISK")} = {Written(sample.disk, 1, 66)}
              <=> sample.disk <= 3
        <4>1. CASE sample.disk <= 3
          BY <3>2, <3>3, <4>1, Arrives, Zenon
        <4>2. CASE ~(sample.disk <= 3)
          BY <3>2, <3>3, <4>2, Lost, Zenon
        <4> QED
          BY <4>1, <4>2
      <3> QED
        BY <3>1, <3>4, Zenon DEF DisksArrive
    <2> QED
      BY <2>1, <2>2, <2>3
  <1> QED
    BY Layout, <1>1, PTL

\* The interfaces and process groups of a sample always arrive as net_push and
\* proc_push wrote them.  So do the mount points if, and only if, there are at
\* most nine: fs_push's length 1 + 26 * count wraps in its byte from ten on.
THEOREM ListsArriveUpToNine ==
    Spec => [](at = "parsed" => (ListsArrive <=> sample.fs <= 9))
  <1>1. IInv /\ LInv => (at = "parsed" => (ListsArrive <=> sample.fs <= 9))
    <2> SUFFICES ASSUME IInv, LInv, at = "parsed"
                 PROVE  ListsArrive <=> sample.fs <= 9
      OBVIOUS
    <2>1. /\ sample.fs \in 0..16 /\ sample.net \in 0..8
          /\ sample.proc # Disabled => sample.proc \in 0..8
      BY SampleType DEF IInv, TypeOK
    <2>p. /\ sample.net > 0 => Has(tlvs, "NET")
          /\ sample.proc # Disabled => Has(tlvs, "PROC")
          /\ sample.fs > 0 => Has(tlvs, "FS")
      BY DEF LInv, Present
    <2>2. \A r \in Received("NET") : r.entries = Written(sample.net, 1, 24)
      <3>1. \A i \in 1..Len(tlvs) :
               tlvs[i].type = "NET" => ParseTlv(tlvs[i]) = Written(sample.net, 1, 24)
        BY <2>1, NetRead, Zenon DEF LInv, Contents, Content
      <3> QED
        BY <3>1, ParsedAll, Zenon DEF Received
    <2>3. sample.net > 0 => Received("NET") # {}
      <3>1. Has(tlvs, "NET") => Received("NET") # {}
        BY ParsedAll, Zenon DEF Received, Has
      <3> QED
        BY <2>p, <3>1, Zenon
    <2>4. sample.proc # Disabled =>
            {r.entries : r \in Received("PROC")} = {Written(sample.proc, 1, 24)}
      <3> SUFFICES ASSUME sample.proc # Disabled
                   PROVE  {r.entries : r \in Received("PROC")}
                            = {Written(sample.proc, 1, 24)}
        OBVIOUS
      <3>1. \A i \in 1..Len(tlvs) :
               tlvs[i].type = "PROC" => ParseTlv(tlvs[i]) = Written(sample.proc, 1, 24)
        BY <2>1, NetRead, Zenon DEF LInv, Contents, Content
      <3> QED
        BY <2>p, <3>1, Arrives, Zenon
    <2>5. (sample.fs > 0 =>
             {r.entries : r \in Received("FS")} = {Written(sample.fs, 1, 26)})
            <=> sample.fs <= 9
      <3>1. CASE sample.fs = 0
        BY <3>1
      <3>2. CASE sample.fs \in 1..16
        <4>1. sample.fs > 0
          BY <3>2
        <4>2. \A i \in 1..Len(tlvs) :
                 tlvs[i].type = "FS" =>
                     (ParseTlv(tlvs[i]) = Written(sample.fs, 1, 26) <=> sample.fs <= 9)
          BY <3>2, FsRead, Zenon DEF LInv, Contents, Content
        <4>3. CASE sample.fs <= 9
          BY <2>p, <4>1, <4>2, <4>3, Arrives, Zenon
        <4>4. CASE ~(sample.fs <= 9)
          BY <2>p, <4>1, <4>2, <4>4, Lost, Zenon
        <4> QED
          BY <4>3, <4>4
      <3> QED
        BY <2>1, <3>1, <3>2
    <2> QED
      BY <2>2, <2>3, <2>4, <2>5, Zenon DEF ListsArrive
  <1> QED
    BY Layout, <1>1, PTL

-----------------------------------------------------------------------------
(* The thread groups on the server.                                        *)

\* The length of a THREAD TLV tells the number of its entries.
LEMMA ThreadLengths ==
    ASSUME NEW n \in 0..7
    PROVE  ThreadLen(n) >= 34 /\ (ThreadLen(n) - 34) \div 28 = n
  BY DEF ThreadLen

\* The parser reads as many entries of a group as its count says.
LEMMA GroupRead ==
    ASSUME NEW t, NEW n \in 0..7, t.type = "THREAD", t.count = n, t.length = ThreadLen(n)
    PROVE  Len(ParseTlv(t)) = n
  <1>1. t.length >= 34 /\ (t.length - 34) \div 28 = n /\ n \in Nat
    BY ThreadLengths
  <1>2. Min({t.count, (t.length - 34) \div 28}) = n
    BY <1>1, MinSame, Zenon
  <1>3. ParseTlv(t) = [i \in 1..n |-> [off |-> 34 + (i - 1) * 28, size |-> 28]]
    <2>1. ParseTlv(t) = [i \in 1..Min({t.count, (t.length - 34) \div 28}) |->
                            [off |-> 34 + (i - 1) * 28, size |-> 28]]
      BY <1>1 DEF ParseTlv
    <2> QED
      BY <1>2, <2>1, Zenon
  <1> QED
    BY <1>1, <1>3

\* How many indices lie between two.
LEMMA IntervalSize ==
    ASSUME NEW m \in Int, NEW n \in Int, m <= n
    PROVE  Cardinality((m + 1)..n) = n - m
  <1>1. m + 1 \in Int
    OBVIOUS
  <1>2. Cardinality((m + 1)..n) = IF m + 1 > n THEN 0 ELSE n - (m + 1) + 1
    BY <1>1, FS_Interval, Zenon
  <1>3. m + 1 > n => 0 = n - m
    OBVIOUS
  <1>4. n - (m + 1) + 1 = n - m
    OBVIOUS
  <1> QED
    BY <1>2, <1>3, <1>4, Zenon

\* The place of a group among the groups, counted the way ThreadGroupsWhole does.
LEMMA GroupPlace ==
    ASSUME IInv, LInv, at = "parsed"
    PROVE  LET b == Len(tlvs) - (group - 1)
           IN  /\ \A i \in 1..Len(tlvs) : parsed[i].type = "THREAD" <=> i > b
               /\ \A i \in DOMAIN parsed :
                    i > b => Cardinality({j \in DOMAIN parsed :
                                            j <= i /\ parsed[j].type = "THREAD"}) = i - b
               /\ Cardinality({j \in DOMAIN parsed : parsed[j].type = "THREAD"}) = group - 1
  <1> DEFINE b == Len(tlvs) - (group - 1)
  <1>1. Len(tlvs) \in Nat /\ group \in Nat \ {0} /\ group - 1 <= Len(tlvs)
    <2>1. group \in 1..(Len(sample.threads) + 1) /\ tlvs \in Seq(TlvType)
      BY DEF IInv, TypeOK
    <2> QED
      BY <2>1 DEF LInv, ThreadsLast
  <1>2. b \in Nat /\ b <= Len(tlvs) /\ Len(tlvs) - b = group - 1
    BY <1>1
  <1>3. DOMAIN parsed = 1..Len(tlvs)
        /\ \A i \in 1..Len(tlvs) : parsed[i].type = tlvs[i].type
    BY ParsedAll, Zenon
  <1>4. \A i \in 1..Len(tlvs) : parsed[i].type = "THREAD" <=> i > b
    <2>1. \A i \in 1..Len(tlvs) : tlvs[i].type = "THREAD" <=> ~(i - b <= 0)
      BY Zenon DEF LInv, ThreadsLast
    <2>2. \A i \in 1..Len(tlvs) : ~(i - b <= 0) <=> i > b
      BY <1>2
    <2> QED
      BY <1>3, <2>1, <2>2, Zenon
  <1> HIDE DEF b
  <1>5. ASSUME NEW i \in DOMAIN parsed, i > b
        PROVE  Cardinality({j \in DOMAIN parsed :
                              j <= i /\ parsed[j].type = "THREAD"}) = i - b
    <2>1. i \in 1..Len(tlvs) /\ i \in Int /\ b + 1 \in Int
      BY <1>2, <1>3
    <2>2. {j \in DOMAIN parsed : j <= i /\ parsed[j].type = "THREAD"}
            = {j \in 1..Len(tlvs) : j <= i /\ j > b}
      BY <1>3, <1>4, Zenon
    <2>3. {j \in 1..Len(tlvs) : j <= i /\ j > b} = (b + 1)..i
      BY <1>1, <1>2, <2>1
    <2>4. b \in Int /\ b <= i
      BY <1>2, <1>5, <2>1
    <2> QED
      BY <2>1, <2>2, <2>3, <2>4, IntervalSize, Zenon
  <1>6. Cardinality({j \in DOMAIN parsed : parsed[j].type = "THREAD"}) = group - 1
    <2>1. {j \in DOMAIN parsed : parsed[j].type = "THREAD"} = {j \in 1..Len(tlvs) : j > b}
      BY <1>3, <1>4, Zenon
    <2>2. {j \in 1..Len(tlvs) : j > b} = (b + 1)..Len(tlvs)
      BY <1>1, <1>2
    <2>3. Cardinality((b + 1)..Len(tlvs)) = Len(tlvs) - b
      <3>1. b \in Int /\ Len(tlvs) \in Int
        BY <1>1, <1>2
      <3> QED
        BY <1>2, <3>1, IntervalSize, Zenon
    <2> QED
      BY <1>2, <2>1, <2>2, <2>3, Zenon
  <1> QED
    BY <1>4, <1>5, <1>6, Zenon DEF b

\* Every thread group that thread_push puts into the frame arrives with all its
\* top-N entries or with the TRUNCATED flag, and has lost no more entries than
\* the room left in the buffer made necessary.  No group is left out while a bare
\* header still fits.
THEOREM GroupsWhole == Spec => []ThreadGroupsWhole
  <1>1. IInv /\ LInv => ThreadGroupsWhole
    <2> SUFFICES ASSUME IInv, LInv, at = "parsed" PROVE ThreadGroupsWhole
      BY DEF ThreadGroupsWhole
    <2> DEFINE b == Len(tlvs) - (group - 1)
               G(i) == Cardinality({j \in DOMAIN parsed :
                                      j <= i /\ parsed[j].type = "THREAD"})
    <2>1. /\ \A i \in 1..Len(tlvs) : parsed[i].type = "THREAD" <=> i > b
          /\ \A i \in DOMAIN parsed : i > b => G(i) = i - b
          /\ Cardinality({j \in DOMAIN parsed : parsed[j].type = "THREAD"}) = group - 1
      BY GroupPlace, Zenon
    <2>2. DOMAIN parsed = 1..Len(tlvs)
      BY ParsedAll, Zenon
    <2>3. group = Len(sample.threads) + 1 \/ ~Fits(ThreadLen(0))
      BY DEF LInv, ThreadsPushed
    <2>4. /\ sample.threads \in Seq(ThreadGroup)
          /\ group \in 1..(Len(sample.threads) + 1) /\ Len(tlvs) \in Nat
      BY ThreadsType DEF IInv, TypeOK
    <2>5. ASSUME NEW i \in DOMAIN parsed, parsed[i].type = "THREAD"
          PROVE  LET g == sample.threads[G(i)]
                     n == Len(parsed[i].entries)
                 IN  /\ n = tlvs[i].count
                     /\ g.truncated => parsed[i].truncated
                     /\ n < g.top => /\ parsed[i].truncated
                                     /\ tlvs[i].off + ThreadLen(n + 1) > Cap
      <3> DEFINE g == sample.threads[i - b]
      <3>1. i \in 1..Len(tlvs) /\ i > b /\ G(i) = i - b
        BY <2>1, <2>2, <2>5, Zenon
      <3>2. ~(i - b <= 0) /\ i - b \in 1..Len(sample.threads)
        BY <2>4, <3>1
      <3>3. tlvs[i].type = "THREAD" /\ Group(tlvs[i], g)
        BY <3>1, <3>2, Zenon DEF LInv, ThreadsLast
      <3>4. g.top \in 0..7
        <4>1. g \in ThreadGroup
          BY <2>4, <3>2
        <4> QED
          BY <4>1 DEF ThreadGroup, MaxTopN
      <3>5. tlvs[i].count \in 0..7
        BY <3>3, <3>4 DEF Group
      <3>6. Len(ParseTlv(tlvs[i])) = tlvs[i].count
        BY <3>3, <3>5, GroupRead, Zenon DEF Group
      <3>7. /\ Len(parsed[i].entries) = tlvs[i].count
            /\ parsed[i].truncated = tlvs[i].truncated
        BY <3>1, <3>6, ParsedAll, Zenon
      <3> QED
        BY <3>1, <3>3, <3>7, Zenon DEF Group
    <2>6. Fits(ThreadLen(0)) => ThreadGroupsReceived = Len(sample.threads)
      <3>1. group = Len(sample.threads) + 1 => group - 1 = Len(sample.threads)
        BY <2>4
      <3> QED
        BY <2>1, <2>3, <3>1, Zenon DEF ThreadGroupsReceived
    <2> QED
      BY <2>5, <2>6, Zenon DEF ThreadGroupsWhole
  <1> QED
    BY Layout, <1>1, PTL

=============================================================================
