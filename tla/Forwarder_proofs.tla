--------------------------- MODULE Forwarder_proofs ---------------------------
(***************************************************************************)
(* Proofs about Forwarder for every QueueSize, MaxFrames and MaxErrors.    *)
(*                                                                         *)
(* The inductive invariant rests on one observation: only the receiver     *)
(* appends and everybody removes at the head, so the queue is always the   *)
(* run of consecutive bodies Gone + 1, ..., Gone + Len(q), where Gone is   *)
(* the number of bodies that have left it.                                 *)
(***************************************************************************)
EXTENDS Forwarder, TLAPS, SequenceTheorems, FiniteSetTheorems

\* The bodies that enqueue_latest has put so far, and those that have left.
Put == IF body = None THEN received ELSE received - 1
Gone == Put - Len(q)

\* Where the two threads are, and what their local variables then hold.
Control ==
    /\ rx # "raised"
    /\ body # None <=> rx \in {"put", "evict", "reput"}
    /\ body # None => body = received
    /\ rx = "reput" => ~Full
    /\ rx \in {"evict", "reput"} => QueueSize > 0
    /\ tx \in {"push", "sleep"} => current_body # None
    /\ tx \in {"empty?", "done", "count"} => current_body = None
    /\ tx \in {"empty?", "done"} => ~running
    /\ tx = "done" => Len(q) + (IF rx \in {"recv", "put", "evict", "reput"}
                                THEN 1 ELSE 0) <= 1

\* Where the bodies are.
Placement ==
    /\ Gone >= 0
    /\ \A i \in 1..Len(q) : q[i] = Gone + i
    /\ current_body <= Gone
    /\ acked \subseteq 1..Gone /\ lost \subseteq 1..Gone
    /\ acked \cap lost = {}
    /\ current_body \notin acked \cup lost
    /\ \A b \in 1..Gone : b \in acked \cup lost \cup {current_body}
    /\ \A b \in lost : b < received

\* What VictoriaMetrics has seen.
Delivery ==
    /\ DeliveredInOrder
    /\ \A i \in 1..Len(vm) :
          vm[i] <= IF current_body = None THEN Gone ELSE current_body

IInv == TypeOK /\ Control /\ Placement /\ Delivery

-----------------------------------------------------------------------------

\* Removing the head of the queue, as get and get_nowait do.
LEMMA QueueTail ==
  ASSUME TypeOK, q # <<>>
  PROVE  /\ Head(q) \in Body /\ Head(q) = q[1]
         /\ Tail(q) \in Seq(Body)
         /\ Len(q) \in Nat \ {0}
         /\ Len(Tail(q)) = Len(q) - 1
         /\ \A i \in 1..Len(Tail(q)) : Tail(q)[i] = q[i + 1]
<1>1. q \in Seq(Body)
  BY DEF TypeOK
<1>2. Len(q) \in Nat \ {0}
  BY <1>1, EmptySeq
<1>3. QED
  BY <1>1, <1>2, HeadTailProperties

\* Appending a body to the queue, as put_nowait does.
LEMMA QueueAppend ==
  ASSUME TypeOK, body # None
  PROVE  /\ Append(q, body) \in Seq(Body)
         /\ Len(q) \in Nat
         /\ Len(Append(q, body)) = Len(q) + 1
         /\ \A i \in 1..Len(q) : Append(q, body)[i] = q[i]
         /\ Append(q, body)[Len(q) + 1] = body
<1>1. q \in Seq(Body) /\ body \in Body
  BY DEF TypeOK, None
<1>2. QED
  BY <1>1, AppendProperties, LenProperties

\* VictoriaMetrics taking in the sender's body.
LEMMA VmAppend ==
  ASSUME TypeOK, current_body # None
  PROVE  /\ Append(vm, current_body) \in Seq(Body)
         /\ Len(vm) \in Nat
         /\ Len(Append(vm, current_body)) = Len(vm) + 1
         /\ \A i \in 1..Len(vm) : Append(vm, current_body)[i] = vm[i]
         /\ Append(vm, current_body)[Len(vm) + 1] = current_body
<1>1. vm \in Seq(Body) /\ current_body \in Body
  BY DEF TypeOK, None
<1>2. QED
  BY <1>1, AppendProperties, LenProperties

LEMMA Numbers ==
  ASSUME TypeOK
  PROVE  /\ Len(q) \in Nat /\ Len(vm) \in Nat
         /\ received \in Nat /\ Put \in Int /\ Gone \in Int
         /\ current_body \in Nat /\ body \in Nat
         /\ \A i \in 1..Len(q) : q[i] \in Nat
         /\ \A i \in 1..Len(vm) : vm[i] \in Nat
<1>1. q \in Seq(Body) /\ vm \in Seq(Body) /\ received \in Nat
  BY BoundsAssumption DEF TypeOK
<1>2. Len(q) \in Nat /\ Len(vm) \in Nat
  BY <1>1, LenProperties
<1>3. QED
  BY <1>1, <1>2, BoundsAssumption, ElementOfSeq DEF TypeOK, Put, Gone, Body, None

LEMMA InitIInv == Init => IInv
<1> SUFFICES ASSUME Init PROVE IInv
  OBVIOUS
<1>0. <<>> \in Seq(Body) /\ Len(<<>>) = 0
  BY EmptySeq
<1>b. running \in BOOLEAN /\ evicted \in BOOLEAN
  BY DEF Init
<1>1. TypeOK
  BY <1>0, <1>b, QueueSizeAssumption, BoundsAssumption
     DEF Init, TypeOK, None, MaxBackoff
<1>l. Len(q) = 0 /\ Len(vm) = 0 /\ body = None /\ received = 0
  BY <1>0 DEF Init
<1>2. Len(q) = 0 /\ Len(vm) = 0 /\ Put = 0 /\ Gone = 0
  BY <1>l DEF Put, Gone
<1>3. Control
  BY <1>2 DEF Init, Control, None
<1>4. Placement
  BY <1>2 DEF Init, Placement, None
<1>5. Delivery
  BY <1>2 DEF Init, Delivery, DeliveredInOrder
<1>6. QED
  BY <1>1, <1>3, <1>4, <1>5 DEF IInv

\* The two Boolean variables stay Boolean.
LEMMA BooleanStep ==
  ASSUME TypeOK, Next
  PROVE  running' \in BOOLEAN /\ evicted' \in BOOLEAN
<1>1. running \in BOOLEAN /\ evicted \in BOOLEAN
  BY DEF TypeOK
<1>2. CASE receiver_thread
  BY <1>1, <1>2 DEF receiver_thread, RxLoop, RxFrame, RxNothing, RxSocketError,
     PutNowait, GetNowait, PutAgain, CountDrop
<1>3. CASE sender_thread
  BY <1>1, <1>3 DEF sender_thread, rxVars
<1>4. CASE HandleSignal \/ MainWakes \/ JoinRx \/ JoinTx \/ Terminated
  BY <1>1, <1>4 DEF HandleSignal, MainWakes, JoinRx, JoinTx, Terminated, rxVars, vars
<1>5. QED
  BY <1>2, <1>3, <1>4 DEF Next

\* A step that moves no body keeps the facts about bodies.
LEMMA QuietStep ==
  ASSUME IInv, UNCHANGED <<q, body, received, current_body, vm, lost, acked>>
  PROVE  Placement' /\ Delivery'
<1>1. Put' = Put /\ Gone' = Gone
  BY DEF Put, Gone
<1>2. QED
  BY <1>1 DEF IInv, Placement, Delivery, DeliveredInOrder

\* What receiver_thread does without moving a body.
LEMMA ReceiverQuiet ==
  ASSUME IInv, receiver_thread, running' \in BOOLEAN, evicted' \in BOOLEAN,
         \/ RxLoop \/ RxNothing \/ RxSocketError \/ CountDrop
         \/ PutNowait /\ Full
         \/ GetNowait /\ q = <<>>
  PROVE  IInv'
<1>1. UNCHANGED <<q, body, received, lost>> /\ UNCHANGED <<running, main, txVars>>
  BY DEF receiver_thread, RxLoop, RxNothing, RxSocketError, CountDrop, PutNowait, GetNowait
<1>2. Placement' /\ Delivery'
  BY <1>1, QuietStep DEF txVars
<1>3. TypeOK'
  BY <1>1 DEF IInv, TypeOK, txVars, RxLoop, RxNothing, RxSocketError, CountDrop,
     PutNowait, GetNowait
<1>4. Control'
  BY <1>1, EmptySeq, QueueSizeAssumption DEF IInv, Control, Full, txVars, RxLoop,
     RxNothing, RxSocketError, CountDrop, PutNowait, GetNowait, None
<1>5. QED
  BY <1>2, <1>3, <1>4 DEF IInv

\* A frame arrives: Put and Gone do not change, the frame is in body.
LEMMA FrameStep ==
  ASSUME IInv, receiver_thread, RxFrame, running' \in BOOLEAN, evicted' \in BOOLEAN
  PROVE  IInv'
<1>1. UNCHANGED <<q, lost, drops, evicted>> /\ UNCHANGED <<running, main, txVars>>
  BY DEF receiver_thread, RxFrame
<1>2. Len(q) \in Nat /\ received \in Nat /\ body = None
  BY Numbers DEF IInv, Control, RxFrame
<1>3. Put' = Put /\ Gone' = Gone
  BY <1>1, <1>2 DEF RxFrame, Put, Gone, None
<1>a. \A b \in lost : b < received'
  <2>1. \A b \in lost : b \in Nat /\ b < received
    BY DEF IInv, Placement, TypeOK, Body
  <2>2. QED
    BY <2>1, <1>2 DEF RxFrame
<1>4. Placement' /\ Delivery'
  BY <1>1, <1>3, <1>a DEF IInv, Placement, Delivery, DeliveredInOrder, txVars
<1>5. TypeOK'
  BY <1>1, <1>2, BoundsAssumption DEF IInv, TypeOK, txVars, RxFrame, Body, None
<1>6. Control'
  BY <1>1, <1>2 DEF IInv, Control, txVars, RxFrame, None
<1>7. QED
  BY <1>4, <1>5, <1>6 DEF IInv

\* enqueue_latest appends the body.
LEMMA PutStep ==
  ASSUME IInv, receiver_thread, running' \in BOOLEAN, evicted' \in BOOLEAN,
         PutNowait \/ PutAgain, ~Full
  PROVE  IInv'
<1>1. /\ q' = Append(q, body) /\ body' = None
      /\ UNCHANGED <<lost, drops, evicted, received>>
      /\ UNCHANGED <<running, main, txVars>>
      /\ rx' \in {"loop", "count"} /\ rx \in {"put", "reput"}
  BY DEF receiver_thread, PutNowait, PutAgain
<1>2. body = received /\ body # None
  BY <1>1 DEF IInv, Control
<1>3. /\ q' \in Seq(Body) /\ Len(q) \in Nat /\ Len(q') = Len(q) + 1
      /\ \A i \in 1..Len(q) : q'[i] = q[i]
      /\ q'[Len(q) + 1] = body
  BY <1>1, <1>2, QueueAppend DEF IInv
<1>4. received \in Nat
  BY Numbers DEF IInv
<1>5. Put = received - 1 /\ Put' = received /\ Gone' = Gone
  BY <1>1, <1>2, <1>3, <1>4 DEF Put, Gone, None
<1>6. Placement'
  <2>1. Gone \in Int /\ Gone + Len(q) = received - 1
    BY <1>3, <1>4, <1>5 DEF Gone
  <2>2. ASSUME NEW i \in 1..Len(q') PROVE q'[i] = Gone' + i
    <3>1. CASE i \in 1..Len(q)
      BY <3>1, <1>3, <1>5 DEF IInv, Placement
    <3>2. CASE i = Len(q) + 1
      BY <3>2, <2>1, <1>2, <1>3, <1>4, <1>5
    <3>3. QED
      BY <3>1, <3>2, <1>3
  <2>3. QED
    BY <2>2, <1>1, <1>5 DEF IInv, Placement, txVars
<1>7. Delivery'
  BY <1>1, <1>5 DEF IInv, Delivery, DeliveredInOrder, txVars
<1>8. TypeOK'
  BY <1>1, <1>3, QueueSizeAssumption DEF IInv, TypeOK, txVars, Full, None
<1>9. Control'
  BY <1>1, <1>3, <1>2 DEF IInv, Control, txVars, None
<1>10. QED
  BY <1>6, <1>7, <1>8, <1>9 DEF IInv

\* enqueue_latest evicts the head: Gone grows by one and the head is lost.
LEMMA EvictStep ==
  ASSUME IInv, receiver_thread, running' \in BOOLEAN, evicted' \in BOOLEAN,
         GetNowait, q # <<>>
  PROVE  IInv'
<1>1. /\ q' = Tail(q) /\ lost' = lost \cup {Head(q)}
      /\ UNCHANGED <<body, received, drops>>
      /\ UNCHANGED <<running, main, txVars>>
      /\ rx = "evict" /\ rx' = "reput"
  BY DEF receiver_thread, GetNowait
<1>2. /\ q' \in Seq(Body) /\ Len(q) \in Nat \ {0} /\ Len(q') = Len(q) - 1
      /\ Head(q) \in Body /\ Head(q) = q[1]
      /\ \A i \in 1..Len(q') : q'[i] = q[i + 1]
  BY <1>1, QueueTail DEF IInv
<1>3. Put \in Int /\ Gone \in Int /\ current_body \in Nat
  BY Numbers DEF IInv
<1>4. Gone' = Gone + 1
  BY <1>1, <1>2, <1>3 DEF Put, Gone
<1>5. Head(q) = Gone + 1
  BY <1>2, <1>3 DEF IInv, Placement
<1>6. Placement'
  <2>1. \A i \in 1..Len(q') : q'[i] = Gone' + i
    BY <1>2, <1>3, <1>4 DEF IInv, Placement
  <2>2. current_body' = current_body /\ acked' = acked
    BY <1>1 DEF txVars
  <2>a. /\ Gone >= 0 /\ current_body <= Gone
        /\ acked \subseteq 1..Gone /\ lost \subseteq 1..Gone
        /\ acked \cap lost = {} /\ current_body \notin acked \cup lost
    BY DEF IInv, Placement
  <2>b. lost' = lost \cup {Gone + 1}
    BY <1>1, <1>5
  <2>3. acked \subseteq 1..Gone' /\ lost' \subseteq 1..Gone'
    BY <2>a, <2>b, <1>3, <1>4
  <2>4. acked \cap lost' = {} /\ current_body \notin acked \cup lost'
    BY <2>a, <2>b, <1>3
  <2>5. \A b \in 1..Gone' : b \in acked \cup lost' \cup {current_body}
    BY <1>1, <1>3, <1>4, <1>5 DEF IInv, Placement
  <2>6. Gone' >= 0 /\ current_body <= Gone'
    BY <1>3, <1>4 DEF IInv, Placement
  <2>c. \A b \in lost' : b < received'
    <3>1. body # None /\ received \in Nat
      BY <1>1, Numbers DEF IInv, Control
    <3>2. Gone + 1 < received
      BY <3>1, <1>2, <1>3 DEF Gone, Put
    <3>3. QED
      BY <3>2, <2>b, <1>1 DEF IInv, Placement
  <2>7. QED
    BY <2>1, <2>2, <2>3, <2>4, <2>5, <2>6, <2>c DEF Placement
<1>7. Delivery'
  <2>1. \A i \in 1..Len(vm) : vm[i] \in Nat
    BY Numbers DEF IInv
  <2>2. QED
    BY <2>1, <1>1, <1>3, <1>4 DEF IInv, Delivery, DeliveredInOrder, txVars
<1>8. TypeOK'
  BY <1>1, <1>2, QueueSizeAssumption DEF IInv, TypeOK, txVars
<1>9. Control'
  <2>1. ~Full'
    BY <1>1, <1>2, QueueSizeAssumption DEF IInv, TypeOK, Full
  <2>2. QED
    BY <2>1, <1>1, <1>2 DEF IInv, Control, txVars, None
<1>10. QED
  BY <1>6, <1>7, <1>8, <1>9 DEF IInv

\* The whole of receiver_thread; the second put_nowait finds room.
LEMMA ReceiverStep ==
  ASSUME IInv, receiver_thread, running' \in BOOLEAN, evicted' \in BOOLEAN
  PROVE  IInv'
<1>1. CASE PutAgain
  <2>1. ~Full
    BY <1>1 DEF IInv, Control, PutAgain
  <2>2. QED
    BY <1>1, <2>1, PutStep
<1>2. CASE PutNowait
  BY <1>2, PutStep, ReceiverQuiet
<1>3. CASE GetNowait
  BY <1>3, EvictStep, ReceiverQuiet
<1>4. CASE RxFrame
  BY <1>4, FrameStep
<1>5. CASE RxLoop \/ RxNothing \/ RxSocketError \/ CountDrop
  BY <1>5, ReceiverQuiet
<1>6. QED
  BY <1>1, <1>2, <1>3, <1>4, <1>5 DEF receiver_thread

LEMMA BackoffBound ==
  ASSUME NEW b \in 0..MaxBackoff
  PROVE  NextBackoff(b) \in 0..MaxBackoff
BY DEF NextBackoff, MaxBackoff

\* What sender_thread does without moving a body.
LEMMA SenderQuiet ==
  ASSUME IInv, sender_thread, running' \in BOOLEAN, evicted' \in BOOLEAN,
         \/ TxLoop \/ TxEmpty \/ CountForwarded \/ TxWake
         \/ TxGet /\ ~(current_body = None /\ q # <<>>)
         \/ PushFailed /\ vm' = vm
  PROVE  IInv'
<1>1. UNCHANGED <<q, current_body, acked, vm>> /\ UNCHANGED <<running, main, rxVars>>
  BY DEF sender_thread, TxLoop, TxEmpty, CountForwarded, TxWake, TxGet, PushFailed
<1>2. Placement' /\ Delivery'
  BY <1>1, QuietStep DEF rxVars
<1>3. backoff' \in 0..MaxBackoff
  BY BackoffBound DEF IInv, TypeOK, TxLoop, TxEmpty, CountForwarded, TxWake, TxGet,
     PushFailed
<1>4. TypeOK'
  BY <1>1, <1>3, BoundsAssumption DEF IInv, TypeOK, rxVars, TxLoop, TxEmpty,
     CountForwarded, TxWake, TxGet, PushFailed
<1>5. Full' = Full
  BY <1>1 DEF Full
<1>6. Control'
  <2>1. CASE TxEmpty
    <3>1. q = <<>> => Len(q) = 0
      BY EmptySeq
    <3>2. QED
      BY <2>1, <3>1, <1>1, <1>5 DEF IInv, Control, rxVars, TxEmpty
  <2>2. CASE TxLoop \/ CountForwarded \/ TxWake
    BY <2>2, <1>1, <1>5 DEF IInv, Control, rxVars, TxLoop, CountForwarded, TxWake
  <2>3. CASE TxGet /\ ~(current_body = None /\ q # <<>>)
    BY <2>3, <1>1, <1>5 DEF IInv, Control, rxVars, TxGet
  <2>4. CASE PushFailed
    BY <2>4, <1>1, <1>5 DEF IInv, Control, rxVars, PushFailed
  <2>5. QED
    BY <2>1, <2>2, <2>3, <2>4
<1>7. QED
  BY <1>2, <1>4, <1>6 DEF IInv

\* The sender takes the head: Gone grows by one and the head is current_body.
LEMMA DequeueStep ==
  ASSUME IInv, sender_thread, running' \in BOOLEAN, evicted' \in BOOLEAN,
         TxGet, current_body = None, q # <<>>
  PROVE  IInv'
<1>1. /\ q' = Tail(q) /\ current_body' = Head(q)
      /\ tx = "body" /\ tx' = "push"
      /\ UNCHANGED <<backoff, forwarded, errors, acked, vm>>
      /\ UNCHANGED <<running, main, rxVars>>
  BY DEF sender_thread, TxGet
<1>2. /\ q' \in Seq(Body) /\ Len(q) \in Nat \ {0} /\ Len(q') = Len(q) - 1
      /\ Head(q) \in Body /\ Head(q) = q[1]
      /\ \A i \in 1..Len(q') : q'[i] = q[i + 1]
  BY <1>1, QueueTail DEF IInv
<1>3. Put \in Int /\ Gone \in Int
  BY Numbers DEF IInv
<1>4. Gone' = Gone + 1
  BY <1>1, <1>2, <1>3 DEF Put, Gone, rxVars
<1>5. current_body' = Gone + 1
  BY <1>1, <1>2, <1>3 DEF IInv, Placement
<1>6. Placement'
  <2>1. \A i \in 1..Len(q') : q'[i] = Gone' + i
    BY <1>2, <1>3, <1>4 DEF IInv, Placement
  <2>2. acked' = acked /\ lost' = lost /\ received' = received
    BY <1>1 DEF rxVars
  <2>3. /\ Gone >= 0 /\ \A b \in lost : b < received
        /\ acked \subseteq 1..Gone /\ lost \subseteq 1..Gone
        /\ acked \cap lost = {} /\ current_body = 0
        /\ \A b \in 1..Gone : b \in acked \cup lost \cup {current_body}
    BY DEF IInv, Placement, None
  <2>4. \A b \in 1..Gone' : b \in acked \cup lost \cup {current_body'}
    BY <2>3, <1>3, <1>4, <1>5
  <2>5. acked \subseteq 1..Gone' /\ lost \subseteq 1..Gone'
    BY <2>3, <1>3, <1>4
  <2>6. current_body' \notin acked \cup lost
    BY <2>3, <1>3, <1>5
  <2>7. Gone' >= 0 /\ current_body' <= Gone'
    BY <2>3, <1>3, <1>4, <1>5
  <2>8. QED
    BY <2>1, <2>2, <2>3, <2>4, <2>5, <2>6, <2>7 DEF Placement
<1>7. Delivery'
  <2>1. \A i \in 1..Len(vm) : vm[i] \in Nat
    BY Numbers DEF IInv
  <2>2. Gone + 1 # None
    BY <1>3 DEF IInv, Placement, None
  <2>3. QED
    BY <2>1, <2>2, <1>1, <1>3, <1>4, <1>5 DEF IInv, Delivery, DeliveredInOrder
<1>8. TypeOK'
  BY <1>1, <1>2, QueueSizeAssumption DEF IInv, TypeOK, rxVars
<1>9. Control'
  <2>1. rx = "reput" => ~Full'
    BY <1>2, QueueSizeAssumption DEF IInv, Control, Full
  <2>2. current_body' # None
    BY <1>1, <1>2 DEF Body, None
  <2>3. QED
    BY <2>1, <2>2, <1>1 DEF IInv, Control, rxVars
<1>10. QED
  BY <1>6, <1>7, <1>8, <1>9 DEF IInv

\* VictoriaMetrics takes the body in, and the sender does or does not learn it.
LEMMA PushStep ==
  ASSUME IInv, sender_thread, running' \in BOOLEAN, evicted' \in BOOLEAN,
         \/ PushOk
         \/ PushFailed /\ vm' = Append(vm, current_body)
  PROVE  IInv'
<1>1. /\ vm' = Append(vm, current_body) /\ q' = q
      /\ tx = "push"
      /\ \/ /\ current_body' = None /\ acked' = acked \cup {current_body}
            /\ tx' = "count"
         \/ /\ current_body' = current_body /\ acked' = acked /\ tx' = "sleep"
      /\ UNCHANGED <<running, main, rxVars>>
  BY DEF sender_thread, PushOk, PushFailed
<1>2. current_body # None /\ current_body \in Body
  BY <1>1 DEF IInv, Control, TypeOK
<1>3. /\ vm' \in Seq(Body) /\ Len(vm) \in Nat /\ Len(vm') = Len(vm) + 1
      /\ \A i \in 1..Len(vm) : vm'[i] = vm[i]
      /\ vm'[Len(vm) + 1] = current_body
  BY <1>1, <1>2, VmAppend DEF IInv
<1>4. Put \in Int /\ Gone \in Int /\ current_body \in Nat
  BY Numbers DEF IInv
<1>5. Gone' = Gone
  BY <1>1 DEF Put, Gone, rxVars
<1>6. Placement'
  <2>1. q' = q /\ lost' = lost /\ received' = received
    BY <1>1 DEF rxVars
  <2>2. /\ Gone >= 0 /\ current_body <= Gone /\ \A b \in lost : b < received
        /\ \A i \in 1..Len(q) : q[i] = Gone + i
        /\ acked \subseteq 1..Gone /\ lost \subseteq 1..Gone
        /\ acked \cap lost = {} /\ current_body \notin acked \cup lost
        /\ \A b \in 1..Gone : b \in acked \cup lost \cup {current_body}
    BY DEF IInv, Placement
  <2>3. current_body \in 1..Gone
    BY <1>2, <1>4, <2>2 DEF None
  <2>4. current_body' \in {None, current_body}
    BY <1>1
  <2>5. /\ acked' \subseteq 1..Gone /\ acked' \cap lost = {}
        /\ current_body' \notin acked' \cup lost
        /\ \A b \in 1..Gone : b \in acked' \cup lost \cup {current_body'}
    <3>1. CASE current_body' = current_body /\ acked' = acked
      BY <3>1, <2>2
    <3>2. CASE current_body' = None /\ acked' = acked \cup {current_body}
      <4>1. acked' \subseteq 1..Gone /\ acked' \cap lost = {}
        BY <3>2, <2>2, <2>3
      <4>2. None \notin 1..Gone
        BY <1>4 DEF None
      <4>3. QED
        BY <3>2, <4>1, <4>2, <2>2
    <3>3. QED
      BY <3>1, <3>2, <1>1
  <2>6. current_body' <= Gone
    BY <2>2, <2>4, <1>4 DEF None
  <2>7. QED
    BY <2>1, <2>2, <2>5, <2>6, <1>5 DEF Placement
<1>7. Delivery'
  <2>1. \A i \in 1..Len(vm) : vm[i] \in Nat /\ vm[i] <= current_body
    BY Numbers, <1>2 DEF IInv, Delivery
  <2>2. \A i \in 1..Len(vm') : vm'[i] <= current_body /\ vm'[i] \in Nat
    BY <2>1, <1>3, <1>4
  <2>3. current_body <= Gone
    BY DEF IInv, Placement
  <2>4. ASSUME NEW i \in 1..Len(vm'), NEW j \in 1..Len(vm'), i < j
        PROVE  vm'[i] <= vm'[j]
    <3>1. i \in 1..Len(vm) /\ vm'[i] = vm[i]
      BY <2>4, <1>3
    <3>2. CASE j \in 1..Len(vm)
      BY <2>4, <3>1, <3>2, <1>3 DEF IInv, Delivery, DeliveredInOrder
    <3>3. CASE j = Len(vm) + 1
      BY <3>1, <3>3, <2>1, <1>3
    <3>4. QED
      BY <3>2, <3>3, <1>3
  <2>5. \A i \in 1..Len(vm') :
           vm'[i] <= IF current_body' = None THEN Gone' ELSE current_body'
    BY <2>2, <2>3, <1>1, <1>2, <1>4, <1>5
  <2>6. QED
    BY <2>4, <2>5 DEF Delivery, DeliveredInOrder
<1>8. TypeOK'
  <2>1. backoff' \in 0..MaxBackoff
    <3>1. CASE PushOk
      BY <3>1 DEF PushOk, MaxBackoff
    <3>2. CASE PushFailed
      BY <3>2, BackoffBound DEF IInv, TypeOK, PushFailed
    <3>3. QED
      BY <3>1, <3>2
  <2>2. errors' \in 0..MaxErrors /\ forwarded' \in Nat
    BY BoundsAssumption DEF IInv, TypeOK, PushOk, PushFailed
  <2>3. QED
    BY <2>1, <2>2, <1>1, <1>2, <1>3 DEF IInv, TypeOK, rxVars
<1>9. Control'
  <2>1. Full' = Full
    BY <1>1 DEF Full
  <2>2. QED
    BY <2>1, <1>1, <1>2 DEF IInv, Control, rxVars
<1>10. QED
  BY <1>6, <1>7, <1>8, <1>9 DEF IInv

LEMMA SenderStep ==
  ASSUME IInv, sender_thread, running' \in BOOLEAN, evicted' \in BOOLEAN
  PROVE  IInv'
<1>1. CASE PushOk
  BY <1>1, PushStep
<1>2. CASE PushFailed
  <2>1. vm' \in {vm, Append(vm, current_body)}
    BY <1>2 DEF PushFailed
  <2>2. QED
    BY <2>1, <1>2, PushStep, SenderQuiet
<1>3. CASE TxGet
  BY <1>3, DequeueStep, SenderQuiet
<1>4. CASE TxLoop \/ TxEmpty \/ CountForwarded \/ TxWake
  BY <1>4, SenderQuiet
<1>5. QED
  BY <1>1, <1>2, <1>3, <1>4 DEF sender_thread

\* The main thread only changes _running and its own position.
LEMMA MainStep ==
  ASSUME IInv, HandleSignal \/ MainWakes \/ JoinRx \/ JoinTx \/ UNCHANGED vars,
         running' \in BOOLEAN, evicted' \in BOOLEAN
  PROVE  IInv'
<1>1. UNCHANGED <<q, rxVars, txVars>>
  BY DEF HandleSignal, MainWakes, JoinRx, JoinTx, vars
<1>2. Placement' /\ Delivery'
  BY <1>1, QuietStep DEF rxVars, txVars
<1>3. main' \in {"wait", "joinrx", "jointx", "exited"}
  BY DEF IInv, TypeOK, HandleSignal, MainWakes, JoinRx, JoinTx, vars
<1>4. TypeOK'
  BY <1>1, <1>3 DEF IInv, TypeOK, rxVars, txVars
<1>5. ~running => ~running'
  BY DEF HandleSignal, MainWakes, JoinRx, JoinTx, vars
<1>6. Full' = Full
  BY <1>1 DEF Full
<1>7. Control'
  BY <1>1, <1>5, <1>6 DEF IInv, Control, rxVars, txVars
<1>8. QED
  BY <1>2, <1>4, <1>7 DEF IInv

\* IInv is inductive.
LEMMA NextIInv == IInv /\ [Next]_vars => IInv'
<1> SUFFICES ASSUME IInv, [Next]_vars PROVE IInv'
  OBVIOUS
<1>1. CASE UNCHANGED vars
  <2>1. running' \in BOOLEAN /\ evicted' \in BOOLEAN
    BY <1>1 DEF IInv, TypeOK, vars, rxVars
  <2>2. QED
    BY <1>1, <2>1, MainStep
<1>2. CASE Next
  <2>1. running' \in BOOLEAN /\ evicted' \in BOOLEAN
    BY <1>2, BooleanStep DEF IInv
  <2>2. CASE receiver_thread
    BY <2>1, <2>2, ReceiverStep
  <2>3. CASE sender_thread
    BY <2>1, <2>3, SenderStep
  <2>4. CASE HandleSignal \/ MainWakes \/ JoinRx \/ JoinTx
    BY <2>1, <2>4, MainStep
  <2>5. CASE Terminated
    BY <2>1, <2>5, MainStep DEF Terminated
  <2>6. QED
    BY <1>2, <2>2, <2>3, <2>4, <2>5 DEF Next
<1>3. QED
  BY <1>1, <1>2

LEMMA Invariance == Spec => []IInv
<1>1. QED
  BY InitIInv, NextIInv, PTL DEF Spec

\* Every variable keeps its type, the queue its bound and the backoff its
\* maximum.
THEOREM TypeCorrect == Spec => []TypeOK
<1>1. IInv => TypeOK
  BY DEF IInv
<1>2. QED
  BY <1>1, Invariance, PTL

\* The put_nowait at the end of enqueue_latest never raises queue.Full.
THEOREM NoUncaughtFull == Spec => []NeverRaises
<1>1. IInv => NeverRaises
  BY DEF IInv, Control, NeverRaises
<1>2. QED
  BY <1>1, Invariance, PTL

\* VictoriaMetrics sees the bodies in arrival order.
THEOREM InOrder == Spec => []DeliveredInOrder
<1>1. IInv => DeliveredInOrder
  BY DEF IInv, Delivery
<1>2. QED
  BY <1>1, Invariance, PTL

\* The newest frame is never evicted, and the queue is the unbroken run of the
\* most recent frames.
THEOREM NewestKept == Spec => []KeepsNewest
<1>1. IInv => KeepsNewest
  <2> SUFFICES ASSUME IInv PROVE KeepsNewest
    OBVIOUS
  <2>1. Len(q) \in Nat /\ received \in Nat /\ Put \in Int /\ Gone \in Int
    BY Numbers DEF IInv
  <2>2. Gone = Put - Len(q)
    BY DEF Gone
  <2>3. lost \subseteq 1..Gone /\ \A i \in 1..Len(q) : q[i] = Gone + i
    BY DEF IInv, Placement
  <2>4. CASE body = None
    <3>1. Put = received
      BY <2>4 DEF Put
    <3>2. \A i \in 1..Len(q) : q[i] = received - Len(q) + i - 0
      BY <3>1, <2>1, <2>2, <2>3
    <3>3. received \notin lost
      BY <2>1 DEF IInv, Placement
    <3>4. QED
      BY <3>2, <3>3, <2>4 DEF KeepsNewest
  <2>5. CASE body # None
    <3>1. Put = received - 1
      BY <2>5 DEF Put
    <3>2. \A i \in 1..Len(q) : q[i] = received - Len(q) + i - 1
      BY <3>1, <2>1, <2>2, <2>3
    <3>3. received \notin lost
      BY <3>1, <2>1, <2>2, <2>3
    <3>4. QED
      BY <3>2, <3>3, <2>5 DEF KeepsNewest
  <2>6. QED
    BY <2>4, <2>5
<1>2. QED
  BY <1>1, Invariance, PTL

\* Every frame received is in exactly one place.
THEOREM FramesConserved == Spec => []Conservation
<1>1. IInv => Conservation
  <2> SUFFICES ASSUME IInv PROVE Conservation
    OBVIOUS
  <2>1. /\ Len(q) \in Nat /\ received \in Nat /\ Put \in Int /\ Gone \in Int
        /\ current_body \in Nat /\ body \in Nat /\ DOMAIN q = 1..Len(q)
    BY Numbers, LenProperties DEF IInv, TypeOK
  <2>2. /\ Gone >= 0 /\ current_body <= Gone
        /\ \A i \in 1..Len(q) : q[i] = Gone + i
        /\ acked \subseteq 1..Gone /\ lost \subseteq 1..Gone
        /\ acked \cap lost = {} /\ current_body \notin acked \cup lost
        /\ \A b \in 1..Gone : b \in acked \cup lost \cup {current_body}
    BY DEF IInv, Placement
  <2>3. Gone = Put - Len(q) /\ (body = None => Put = received)
        /\ (body # None => Put = received - 1 /\ body = received)
    BY DEF Gone, Put, IInv, Control
  <2>4. Range(q) = (Gone + 1)..Put
    <3>1. \A x \in Range(q) : x \in (Gone + 1)..Put
      BY <2>1, <2>2, <2>3 DEF Range
    <3>2. ASSUME NEW x \in (Gone + 1)..Put PROVE x \in Range(q)
      <4>1. x - Gone \in 1..Len(q)
        BY <2>1, <2>3
      <4>2. q[x - Gone] = x
        BY <4>1, <2>1, <2>2
      <4>3. QED
        BY <4>1, <4>2, <2>1 DEF Range
    <3>3. QED
      BY <3>1, <3>2
  <2>5. 1..received = acked \cup lost \cup Pending
    <3>1. ASSUME NEW b \in 1..received PROVE b \in acked \cup lost \cup Pending
      <4>1. CASE b \in 1..Gone
        BY <4>1, <2>2 DEF Pending, None
      <4>2. CASE b \in (Gone + 1)..Put
        BY <4>2, <2>4 DEF Pending
      <4>3. CASE b = body
        BY <4>3 DEF Pending, None
      <4>4. QED
        BY <4>1, <4>2, <4>3, <2>1, <2>2, <2>3
    <3>2. ASSUME NEW b \in acked \cup lost \cup Pending PROVE b \in 1..received
      <4>1. Gone <= Put /\ Put <= received
        BY <2>1, <2>3
      <4>2. CASE b \in acked \cup lost
        BY <4>1, <4>2, <2>1, <2>2
      <4>3. CASE b \in Range(q)
        BY <4>1, <4>3, <2>1, <2>2, <2>4
      <4>4. CASE b \in {current_body, body} \ {None}
        BY <4>1, <4>4, <2>1, <2>2, <2>3 DEF None
      <4>5. QED
        BY <4>2, <4>3, <4>4, <3>2 DEF Pending
    <3>3. QED
      BY <3>1, <3>2
  <2>6. Pending \cap (acked \cup lost) = {}
    <3>1. \A b \in Range(q) : b \notin 1..Gone
      BY <2>1, <2>4
    <3>2. body # None => body \notin 1..Gone
      BY <2>1, <2>3
    <3>3. QED
      BY <3>1, <3>2, <2>2 DEF Pending
  <2>7. \A i, j \in 1..Len(q) : i # j => q[i] # q[j]
    BY <2>1, <2>2
  <2>8. Range(q) \cap {current_body, body} = {}
    <3>1. current_body \notin Range(q)
      BY <2>1, <2>2, <2>4
    <3>2. body \notin Range(q)
      BY <2>1, <2>2, <2>3, <2>4 DEF None
    <3>3. QED
      BY <3>1, <3>2
  <2>9. current_body # None => current_body # body
    BY <2>1, <2>2, <2>3
  <2>10. QED
    BY <2>2, <2>5, <2>6, <2>7, <2>8, <2>9 DEF Conservation
<1>2. QED
  BY <1>1, Invariance, PTL

\* A sender that has ended by itself leaves at most one frame behind.
THEOREM ShutdownBound == Spec => []ShutdownLosesAtMostOne
<1>1. IInv => ShutdownLosesAtMostOne
  BY Numbers DEF IInv, Control, ShutdownLosesAtMostOne
<1>2. QED
  BY <1>1, Invariance, PTL

-----------------------------------------------------------------------------
(* The counters.                                                           *)

StatsInv == StatsExact /\ (rx = "count" => evicted)

LEMMA FiniteHistories ==
  ASSUME TypeOK
  PROVE  /\ IsFiniteSet(lost) /\ IsFiniteSet(acked)
         /\ Cardinality(lost) \in Nat /\ Cardinality(acked) \in Nat
<1>1. IsFiniteSet(Body)
  BY BoundsAssumption, FS_Interval DEF Body
<1>2. IsFiniteSet(lost) /\ IsFiniteSet(acked)
  BY <1>1, FS_Subset DEF TypeOK
<1>3. QED
  BY <1>2, FS_CardinalityType

LEMMA StatsStep == IInv /\ StatsInv /\ [Next]_vars => StatsInv'
<1> SUFFICES ASSUME IInv, StatsInv, [Next]_vars PROVE StatsInv'
  OBVIOUS
<1>1. /\ IsFiniteSet(lost) /\ IsFiniteSet(acked)
      /\ Cardinality(lost) \in Nat /\ Cardinality(acked) \in Nat
      /\ drops \in Nat /\ forwarded \in Nat
  BY FiniteHistories DEF IInv, TypeOK
<1>2. CASE receiver_thread
  <2>1. UNCHANGED <<tx, forwarded, acked>>
    BY <1>2 DEF receiver_thread, txVars
  <2>2. CASE RxLoop \/ RxFrame \/ RxNothing \/ RxSocketError \/ PutNowait
    BY <2>1, <2>2, <1>1 DEF StatsInv, StatsExact, RxLoop, RxFrame, RxNothing,
       RxSocketError, PutNowait
  <2>3. CASE CountDrop
    BY <2>1, <2>3, <1>1 DEF StatsInv, StatsExact, CountDrop
  <2>4. CASE PutAgain
    <3>1. rx = "reput" /\ UNCHANGED <<evicted, lost, drops>> /\ ~Full
      BY <2>4 DEF PutAgain, IInv, Control
    <3>2. rx' = IF evicted THEN "count" ELSE "loop"
      BY <2>4, <3>1 DEF PutAgain
    <3>3. QED
      BY <3>1, <3>2, <2>1 DEF StatsInv, StatsExact
  <2>5. CASE GetNowait /\ q = <<>>
    BY <2>1, <2>5, <1>1 DEF StatsInv, StatsExact, GetNowait
  <2>6. CASE GetNowait /\ q # <<>>
    <3>1. lost' = lost \cup {Head(q)} /\ evicted' = TRUE /\ rx' = "reput"
          /\ rx = "evict" /\ drops' = drops
      BY <2>6 DEF GetNowait
    <3>2. Head(q) \notin lost
      <4>1. Head(q) = q[1] /\ Len(q) \in Nat \ {0}
        BY <2>6, QueueTail DEF IInv
      <4>2. Gone \in Int
        BY Numbers DEF IInv
      <4>3. QED
        BY <4>1, <4>2 DEF IInv, Placement
    <3>3. Cardinality(lost') = Cardinality(lost) + 1
      BY <3>1, <3>2, <1>1, FS_AddElement
    <3>4. QED
      BY <3>1, <3>3, <2>1, <1>1 DEF StatsInv, StatsExact
  <2>7. QED
    BY <1>2, <2>2, <2>3, <2>4, <2>5, <2>6 DEF receiver_thread
<1>3. CASE sender_thread
  <2>1. UNCHANGED <<rx, evicted, lost, drops>>
    BY <1>3 DEF sender_thread, rxVars
  <2>2. CASE TxLoop \/ TxEmpty \/ TxGet \/ PushFailed \/ TxWake
    BY <2>1, <2>2 DEF StatsInv, StatsExact, TxLoop, TxEmpty, TxGet, PushFailed, TxWake
  <2>3. CASE CountForwarded
    BY <2>1, <2>3, <1>1 DEF StatsInv, StatsExact, CountForwarded
  <2>4. CASE PushOk
    <3>1. acked' = acked \cup {current_body} /\ tx = "push" /\ tx' = "count"
          /\ forwarded' = forwarded
      BY <2>4 DEF PushOk
    <3>2. current_body \notin acked
      BY DEF IInv, Placement
    <3>3. Cardinality(acked') = Cardinality(acked) + 1
      BY <3>1, <3>2, <1>1, FS_AddElement
    <3>4. QED
      BY <3>1, <3>3, <2>1, <1>1 DEF StatsInv, StatsExact
  <2>5. QED
    BY <1>3, <2>2, <2>3, <2>4 DEF sender_thread
<1>4. CASE HandleSignal \/ MainWakes \/ JoinRx \/ JoinTx \/ Terminated \/ UNCHANGED vars
  <2>1. UNCHANGED <<rx, evicted, lost, drops, tx, forwarded, acked>>
    BY <1>4 DEF HandleSignal, MainWakes, JoinRx, JoinTx, Terminated, vars, rxVars, txVars
  <2>2. QED
    BY <2>1 DEF StatsInv, StatsExact
<1>5. QED
  BY <1>2, <1>3, <1>4 DEF Next

\* _stats["drops"] and _stats["forwarded"] count exactly the evicted and the
\* acknowledged frames.
THEOREM StatsCorrect == Spec => []StatsExact
<1>1. Init => StatsInv
  BY FS_EmptySet DEF Init, StatsInv, StatsExact
<1>2. StatsInv => StatsExact
  BY DEF StatsInv
<1>3. QED
  BY <1>1, <1>2, StatsStep, Invariance, PTL DEF Spec

-----------------------------------------------------------------------------
(* The refinement.                                                         *)

\* The pending bodies, in closed form.
PendingForm ==
    /\ Gone \in Int /\ Put \in Int /\ Gone <= Put
    /\ Range(q) = (Gone + 1)..Put
    /\ Pending = ((Gone + 1)..Put) \cup ({current_body, body} \ {None})

LEMMA PendingIs == IInv => PendingForm
<1> SUFFICES ASSUME IInv PROVE PendingForm
  OBVIOUS
<1>1. /\ Len(q) \in Nat /\ Put \in Int /\ Gone \in Int /\ DOMAIN q = 1..Len(q)
      /\ Gone = Put - Len(q)
  BY Numbers, LenProperties DEF IInv, TypeOK, Gone
<1>2. \A i \in 1..Len(q) : q[i] = Gone + i
  BY DEF IInv, Placement
<1>3. \A x \in Range(q) : x \in (Gone + 1)..Put
  BY <1>1, <1>2 DEF Range
<1>4. ASSUME NEW x \in (Gone + 1)..Put PROVE x \in Range(q)
  <2>1. x - Gone \in 1..Len(q)
    BY <1>1
  <2>2. q[x - Gone] = x
    BY <2>1, <1>1, <1>2
  <2>3. QED
    BY <2>1, <2>2, <1>1 DEF Range
<1>5. Range(q) = (Gone + 1)..Put
  BY <1>3, <1>4
<1>6. QED
  BY <1>1, <1>5 DEF Pending, PendingForm

LEMMA PendingIsNext == IInv' => PendingForm'
<1>1. QED
  BY PendingIs, PTL

\* The sender's body is the oldest pending one.
LEMMA CurrentIsOldest ==
  ASSUME IInv, current_body # None
  PROVE  current_body \in Pending /\ \A p \in Pending : current_body <= p
<1>1. /\ current_body \in Nat /\ body \in Nat /\ received \in Nat
      /\ Gone \in Int /\ Put \in Int /\ Len(q) \in Nat
  BY Numbers DEF IInv
<1>2. current_body <= Gone /\ Gone <= Put
  BY PendingIs DEF IInv, Placement, PendingForm
<1>3. body # None => body = Put + 1
  BY <1>1 DEF IInv, Control, Put
<1>4. QED
  BY <1>1, <1>2, <1>3, PendingIs DEF Pending, PendingForm

\* Dropping the head of the queue is a Drop of the channel.
LEMMA EvictIsDrop ==
  ASSUME IInv, IInv', receiver_thread, GetNowait, q # <<>>
  PROVE  Head(q) \in Pending /\ Channel!Drop(Head(q))
<1>1. /\ current_body \in Nat /\ body \in Nat /\ received \in Nat
      /\ Gone \in Int /\ Put \in Int
  BY Numbers DEF IInv
<1>2. /\ Len(q) \in Nat \ {0} /\ Head(q) = q[1] /\ Len(Tail(q)) = Len(q) - 1
  BY QueueTail DEF IInv
<1>3. Head(q) = Gone + 1 /\ current_body <= Gone /\ Gone + 1 <= Put
  BY <1>1, <1>2 DEF IInv, Placement, Gone
<1>4. body # None /\ body = Put + 1
  BY <1>1 DEF IInv, Control, GetNowait, Put
<1>5. /\ q' = Tail(q)
      /\ UNCHANGED <<body, received, current_body, vm>>
  BY DEF receiver_thread, GetNowait, txVars
<1>6. Gone' = Gone + 1 /\ Put' = Put
  BY <1>1, <1>2, <1>5 DEF Gone, Put
<1>7. Pending' = ((Gone + 2)..Put) \cup ({current_body, body} \ {None})
  <2>1. Pending' = ((Gone' + 1)..Put') \cup ({current_body', body'} \ {None})
    BY PendingIsNext DEF PendingForm
  <2>2. QED
    BY <2>1, <1>1, <1>5, <1>6
<1>8. Pending' = Pending \ {Head(q)}
  <2>1. Pending = ((Gone + 1)..Put) \cup ({current_body, body} \ {None})
    BY PendingIs DEF PendingForm
  <2>2. QED
    BY <2>1, <1>7, <1>1, <1>3, <1>4
<1>9. Head(q) \in Pending
  BY <1>1, <1>3, PendingIs DEF PendingForm
<1>10. \A p \in Pending : p < Head(q) => p = current_body
  BY <1>1, <1>3, <1>4, PendingIs DEF PendingForm
<1>11. body \in Pending /\ body > Head(q)
  BY <1>1, <1>3, <1>4, PendingIs DEF PendingForm
<1>12. QueueSize > 0
  BY DEF IInv, Control, GetNowait
<1>13. QED
  BY <1>5, <1>8, <1>9, <1>10, <1>11, <1>12 DEF Channel!Drop, Channel!Older

\* Every step of the threads is a step of the channel, or changes nothing of it.
LEMMA RefinementStep == IInv /\ IInv' /\ [Next]_vars => [Channel!CNext]_(Channel!cvars)
<1> SUFFICES ASSUME IInv, IInv', [Next]_vars
             PROVE  Channel!CNext \/ UNCHANGED <<received, Pending, vm>>
  BY DEF Channel!cvars
<1>1. /\ current_body \in Nat /\ body \in Nat /\ received \in Nat
      /\ Gone \in Int /\ Put \in Int /\ Len(q) \in Nat
  BY Numbers DEF IInv
<1>2. /\ Pending = ((Gone + 1)..Put) \cup ({current_body, body} \ {None})
      /\ Pending' = ((Gone' + 1)..Put') \cup ({current_body', body'} \ {None})
  BY PendingIs, PendingIsNext DEF PendingForm
<1>3. CASE UNCHANGED <<q, body, received, current_body, vm>>
  BY <1>3 DEF Pending
<1>4. CASE receiver_thread /\ RxFrame
  <2>1. /\ body = None /\ body' = received + 1 /\ received' = received + 1
        /\ UNCHANGED <<q, current_body, vm>>
    BY <1>4 DEF receiver_thread, RxFrame, txVars, IInv, Control
  <2>2. Pending' = Pending \cup {received + 1}
    BY <2>1, <1>1 DEF Pending, None
  <2>3. Channel!Arrive
    BY <2>1, <2>2 DEF Channel!Arrive
  <2>4. QED
    BY <2>3 DEF Channel!CNext
<1>5. CASE receiver_thread /\ (PutNowait \/ PutAgain) /\ ~Full
  <2>1. /\ q' = Append(q, body) /\ body' = None /\ UNCHANGED <<received, current_body, vm>>
        /\ body # None /\ body = received
    BY <1>5 DEF receiver_thread, PutNowait, PutAgain, txVars, IInv, Control
  <2>2. Len(q') = Len(q) + 1
    BY <2>1, QueueAppend DEF IInv
  <2>3. Put = received - 1 /\ Put' = received /\ Gone' = Gone
    BY <2>1, <2>2, <1>1 DEF Put, Gone
  <2>4. Gone <= Put
    BY PendingIs DEF PendingForm
  <2>5. (Gone + 1)..received = ((Gone + 1)..(received - 1)) \cup {received}
    BY <2>3, <2>4, <1>1
  <2>6. Pending' = Pending
    BY <2>1, <2>3, <2>5, <1>1, <1>2
  <2>7. QED
    BY <2>1, <2>6
<1>6. CASE receiver_thread /\ GetNowait /\ q # <<>>
  BY <1>6, EvictIsDrop DEF Channel!CNext
<1>7. CASE sender_thread /\ TxGet /\ current_body = None /\ q # <<>>
  <2>1. /\ q' = Tail(q) /\ current_body' = Head(q) /\ UNCHANGED <<received, body, vm>>
    BY <1>7 DEF sender_thread, TxGet, rxVars
  <2>2. /\ Len(q) \in Nat \ {0} /\ Len(q') = Len(q) - 1 /\ Head(q) = q[1]
        /\ Head(q) \in Body
    BY <1>7, <2>1, QueueTail DEF IInv
  <2>3. Put' = Put /\ Gone' = Gone + 1 /\ Head(q) = Gone + 1 /\ Gone + 1 <= Put
    <3>1. Put' = Put
      BY <2>1 DEF Put
    <3>2. Gone' = Gone + 1 /\ Gone + 1 <= Put
      BY <2>2, <3>1, <1>1 DEF Gone
    <3>3. Head(q) = Gone + 1
      BY <2>2 DEF IInv, Placement
    <3> QED
      BY <3>1, <3>2, <3>3
  <2>4. (Gone + 1)..Put = ((Gone + 2)..Put) \cup {Gone + 1}
    BY <2>3, <1>1
  <2>5. Gone + 1 # None
    BY <2>2, <2>3 DEF Body, None
  <2>6. Pending' = Pending
    BY <1>7, <2>1, <2>3, <2>4, <2>5, <1>1, <1>2
  <2>7. QED
    BY <2>1, <2>6
<1>8. CASE sender_thread /\ PushOk
  <2>1. /\ vm' = Append(vm, current_body) /\ current_body' = None
        /\ UNCHANGED <<q, received, body>> /\ current_body # None
    BY <1>8 DEF sender_thread, PushOk, rxVars, IInv, Control
  <2>2. current_body \in Pending /\ \A p \in Pending : current_body <= p
    BY <2>1, CurrentIsOldest
  <2>3. current_body \notin Range(q) /\ current_body # body
    <3>1. current_body <= Gone /\ Range(q) = (Gone + 1)..Put /\ Gone <= Put
      BY PendingIs DEF IInv, Placement, PendingForm
    <3>2. body # None => body > Put
      BY <1>1 DEF IInv, Control, Put
    <3>3. QED
      BY <3>1, <3>2, <2>1, <1>1
  <2>4. Pending' = Pending \ {current_body}
    BY <2>1, <2>3 DEF Pending
  <2>5. Channel!Deliver(current_body)
    BY <2>1, <2>2, <2>4 DEF Channel!Deliver, Channel!Oldest
  <2>6. QED
    BY <2>2, <2>5 DEF Channel!CNext
<1>9. CASE sender_thread /\ PushFailed /\ vm' = Append(vm, current_body)
  <2>1. UNCHANGED <<q, received, body, current_body>> /\ current_body # None
    BY <1>9 DEF sender_thread, PushFailed, rxVars, IInv, Control
  <2>2. current_body \in Pending /\ \A p \in Pending : current_body <= p
    BY <2>1, CurrentIsOldest
  <2>3. Pending' = Pending
    BY <2>1 DEF Pending
  <2>4. Channel!DeliverUnacknowledged(current_body)
    BY <1>9, <2>1, <2>2, <2>3 DEF Channel!DeliverUnacknowledged, Channel!Oldest
  <2>5. QED
    BY <2>2, <2>4 DEF Channel!CNext
<1>10. QED
  <2>1. CASE receiver_thread
    <3>1. UNCHANGED <<current_body, vm>>
      BY <2>1 DEF receiver_thread, txVars
    <3>2. PutAgain => ~Full
      BY DEF IInv, Control, PutAgain
    <3>3. \/ RxFrame \/ PutAgain
          \/ PutNowait /\ ~Full
          \/ GetNowait /\ q # <<>>
          \/ UNCHANGED <<q, body, received>>
      BY <2>1 DEF receiver_thread, RxLoop, RxNothing, RxSocketError, CountDrop,
         PutNowait, GetNowait
    <3>4. QED
      BY <2>1, <3>1, <3>2, <3>3, <1>3, <1>4, <1>5, <1>6
  <2>2. CASE sender_thread
    <3>1. UNCHANGED <<body, received>>
      BY <2>2 DEF sender_thread, rxVars
    <3>2. \/ TxGet /\ current_body = None /\ q # <<>>
          \/ PushOk
          \/ PushFailed /\ vm' = Append(vm, current_body)
          \/ UNCHANGED <<q, current_body, vm>>
      BY <2>2 DEF sender_thread, TxLoop, TxEmpty, CountForwarded, TxWake, TxGet,
         PushFailed
    <3>3. QED
      BY <2>2, <3>1, <3>2, <1>3, <1>7, <1>8, <1>9
  <2>3. CASE HandleSignal \/ MainWakes \/ JoinRx \/ JoinTx \/ Terminated \/ UNCHANGED vars
    BY <2>3, <1>3 DEF HandleSignal, MainWakes, JoinRx, JoinTx, Terminated, vars,
       rxVars, txVars
  <2>4. QED
    BY <2>1, <2>2, <2>3 DEF Next

\* metrics_forwarder.py implements the abstract telemetry channel.
THEOREM Refinement == Spec => ImplementsChannel
<1>1. Init => Channel!CInit
  <2> SUFFICES ASSUME Init PROVE Channel!CInit
    OBVIOUS
  <2>1. q = <<>> /\ current_body = None /\ body = None /\ received = 0 /\ vm = <<>>
    BY DEF Init
  <2>2. Range(q) = {}
    BY <2>1 DEF Range
  <2>3. Pending = {}
    BY <2>1, <2>2 DEF Pending
  <2>4. QED
    BY <2>1, <2>3 DEF Channel!CInit
<1>2. QED
  BY <1>1, RefinementStep, Invariance, PTL DEF Spec, ImplementsChannel, Channel!CSpec
=============================================================================
