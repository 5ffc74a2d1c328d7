------------------------------ MODULE Forwarder ------------------------------
(***************************************************************************)
(* src/server/metrics_forwarder.py: a receive thread, a bounded queue and  *)
(* a sender thread, with the main thread that shuts them down.             *)
(*                                                                         *)
(* A body (the Prometheus text made from one valid frame) is named by its  *)
(* arrival number 1, 2, 3, ...; None stands for Python's None.  Every      *)
(* operation on the queue.Queue is one step, because the queue's own lock  *)
(* makes it atomic; everything between two such operations may interleave. *)
(***************************************************************************)
EXTENDS Naturals, Integers, Sequences, FiniteSets, Functions

CONSTANTS
    QueueSize,   \* TRACEFOX_QUEUE_SIZE; queue.Queue reads <= 0 as "unbounded"
    MaxFrames,   \* bound: valid frames that arrive
    MaxErrors    \* bound: failed pushes

ASSUME QueueSizeAssumption == QueueSize \in Int
ASSUME BoundsAssumption == MaxFrames \in Nat /\ MaxErrors \in Nat

VARIABLES
    running,       \* _running
    rx,            \* where receiver_thread is
    body,          \* the body receiver_thread is about to enqueue, or None
    evicted,       \* enqueue_latest's local variable
    q,             \* the queue.Queue
    tx,            \* where sender_thread is
    current_body,  \* sender_thread's local variable
    backoff,       \* sender_thread's local variable, in half seconds
    main,          \* where main is
    forwarded, errors, drops,   \* _stats (push_failures always equals errors)
    received,      \* history: number of valid frames received
    acked,         \* history: bodies whose push returned True
    lost,          \* history: bodies evicted from the queue
    vm             \* VictoriaMetrics: the bodies it has taken in, in order

rxVars == <<rx, body, evicted, received, lost, drops>>
txVars == <<tx, current_body, backoff, forwarded, errors, acked, vm>>
vars == <<running, q, main, rxVars, txVars>>

None == 0
Body == 1..MaxFrames
MaxBackoff == 60           \* max_backoff = 30.0 s

Init ==
    /\ running = TRUE
    /\ rx = "loop" /\ body = None /\ evicted = FALSE
    /\ q = <<>>
    /\ tx = "loop" /\ current_body = None /\ backoff = 0
    /\ main = "wait"
    /\ forwarded = 0 /\ errors = 0 /\ drops = 0
    /\ received = 0 /\ acked = {} /\ lost = {} /\ vm = <<>>

-----------------------------------------------------------------------------
(* queue.Queue(maxsize=QUEUE_SIZE), from Python's library.                 *)

\* Mutant: one body too many.
FullOffByOne == QueueSize > 0 /\ Len(q) > QueueSize

Full == QueueSize > 0 /\ Len(q) >= QueueSize

-----------------------------------------------------------------------------
(* receiver_thread                                                         *)

RxLoop ==
    /\ rx = "loop"
    /\ rx' = IF running THEN "recv" ELSE "done"
    /\ UNCHANGED <<body, evicted, received, lost, drops, q>>

\* recvfrom returns a datagram that parse_frame accepts.
RxFrame ==
    /\ rx = "recv"
    /\ received < MaxFrames
    /\ received' = received + 1
    /\ body' = received + 1
    /\ rx' = "put"
    /\ UNCHANGED <<evicted, lost, drops, q>>

\* socket.timeout, or a datagram that parse_frame rejects.
RxNothing ==
    /\ rx = "recv"
    /\ rx' = "loop"
    /\ UNCHANGED <<body, evicted, received, lost, drops, q>>

\* OSError ends the thread, and only the thread.
RxSocketError ==
    /\ rx = "recv"
    /\ rx' = "done"
    /\ UNCHANGED <<body, evicted, received, lost, drops, q>>

\* Mutant: drops the new body when the queue is full.
PutNowaitDropNew ==
    /\ rx = "put"
    /\ rx' = "loop"
    /\ body' = None
    /\ IF Full
         THEN lost' = lost \cup {body} /\ drops' = drops + 1 /\ UNCHANGED q
         ELSE q' = Append(q, body) /\ UNCHANGED <<lost, drops>>
    /\ UNCHANGED <<evicted, received>>

\* enqueue_latest: the first put_nowait.
PutNowait ==
    /\ rx = "put"
    /\ IF Full
         THEN rx' = "evict" /\ UNCHANGED <<q, body>>
         ELSE rx' = "loop" /\ q' = Append(q, body) /\ body' = None
    /\ UNCHANGED <<evicted, received, lost, drops>>

\* Mutant: looks at the oldest body and leaves it in the queue.
GetNowaitPeek ==
    /\ rx = "evict"
    /\ rx' = "reput"
    /\ evicted' = (q # <<>>)
    /\ UNCHANGED <<q, lost, body, received, drops>>

\* Mutant: evicts the newest queued body instead of the oldest.
GetNowaitNewest ==
    /\ rx = "evict"
    /\ rx' = "reput"
    /\ IF q = <<>>
         THEN evicted' = FALSE /\ UNCHANGED <<q, lost>>
         ELSE /\ evicted' = TRUE
              /\ q' = SubSeq(q, 1, Len(q) - 1)
              /\ lost' = lost \cup {q[Len(q)]}
    /\ UNCHANGED <<body, received, drops>>

\* enqueue_latest: get_nowait, which the sender may have beaten to the head.
GetNowait ==
    /\ rx = "evict"
    /\ rx' = "reput"
    /\ IF q = <<>>
         THEN evicted' = FALSE /\ UNCHANGED <<q, lost>>
         ELSE evicted' = TRUE /\ q' = Tail(q) /\ lost' = lost \cup {Head(q)}
    /\ UNCHANGED <<body, received, drops>>

\* Mutant: counts a drop whether or not a body was evicted.
PutAgainAlwaysCount ==
    /\ rx = "reput"
    /\ rx' = "count"
    /\ q' = Append(q, body)
    /\ body' = None
    /\ UNCHANGED <<evicted, received, lost, drops>>

\* enqueue_latest: the second put_nowait, whose queue.Full nobody catches.
PutAgain ==
    /\ rx = "reput"
    /\ IF Full
         THEN rx' = "raised" /\ UNCHANGED <<q, body>>
         ELSE /\ rx' = IF evicted THEN "count" ELSE "loop"
              /\ q' = Append(q, body)
              /\ body' = None
    /\ UNCHANGED <<evicted, received, lost, drops>>

\* enqueue_latest: _stats["drops"] += 1 under _stats_lock.
CountDrop ==
    /\ rx = "count"
    /\ drops' = drops + 1
    /\ rx' = "loop"
    /\ UNCHANGED <<body, evicted, received, lost, q>>

receiver_thread ==
    /\ main # "exited"
    /\ \/ RxLoop \/ RxFrame \/ RxNothing \/ RxSocketError
       \/ PutNowait \/ GetNowait \/ PutAgain \/ CountDrop
    /\ UNCHANGED <<running, main, txVars>>

-----------------------------------------------------------------------------
(* sender_thread                                                           *)

\* while _running or current_body is not None ...
TxLoop ==
    /\ tx = "loop"
    /\ tx' = IF running \/ current_body # None THEN "body" ELSE "empty?"
    /\ UNCHANGED <<current_body, backoff, forwarded, errors, acked, vm, q>>

\* Mutant: stops without looking at the queue.
TxEmptyNoDrain ==
    /\ tx = "empty?"
    /\ tx' = "done"
    /\ UNCHANGED <<current_body, backoff, forwarded, errors, acked, vm, q>>

\* ... or not q.empty(), read after the two other operands.
TxEmpty ==
    /\ tx = "empty?"
    /\ tx' = IF q = <<>> THEN "done" ELSE "body"
    /\ UNCHANGED <<current_body, backoff, forwarded, errors, acked, vm, q>>

\* Mutant: a last-in first-out queue.
TxGetNewest ==
    /\ tx = "body"
    /\ \/ /\ current_body # None
          /\ tx' = "push"
          /\ UNCHANGED <<current_body, q>>
       \/ /\ current_body = None /\ q # <<>>
          /\ tx' = "push"
          /\ current_body' = q[Len(q)]
          /\ q' = SubSeq(q, 1, Len(q) - 1)
       \/ /\ current_body = None /\ q = <<>>
          /\ tx' = "loop"
          /\ UNCHANGED <<current_body, q>>
    /\ UNCHANGED <<backoff, forwarded, errors, acked, vm>>

\* q.get(timeout=1.0), unless a body is being retried; Empty when it times out.
TxGet ==
    /\ tx = "body"
    /\ \/ /\ current_body # None
          /\ tx' = "push"
          /\ UNCHANGED <<current_body, q>>
       \/ /\ current_body = None /\ q # <<>>
          /\ tx' = "push"
          /\ current_body' = Head(q)
          /\ q' = Tail(q)
       \/ /\ current_body = None /\ q = <<>>
          /\ tx' = "loop"
          /\ UNCHANGED <<current_body, q>>
    /\ UNCHANGED <<backoff, forwarded, errors, acked, vm>>

\* push_to_vm returns True.
PushOk ==
    /\ tx = "push"
    /\ vm' = Append(vm, current_body)
    /\ acked' = acked \cup {current_body}
    /\ backoff' = 0
    /\ current_body' = None
    /\ tx' = "count"
    /\ UNCHANGED <<forwarded, errors, q>>

CountForwarded ==
    /\ tx = "count"
    /\ forwarded' = forwarded + 1
    /\ tx' = "loop"
    /\ UNCHANGED <<current_body, backoff, errors, acked, vm, q>>

NextBackoff(b) ==
    IF b = 0 THEN 1 ELSE IF 2 * b < MaxBackoff THEN 2 * b ELSE MaxBackoff

\* Mutant: gives the body up when the push fails.
PushFailedGiveUp ==
    /\ tx = "push"
    /\ errors < MaxErrors
    /\ vm' \in {vm, Append(vm, current_body)}
    /\ errors' = errors + 1
    /\ backoff' = NextBackoff(backoff)
    /\ current_body' = None
    /\ tx' = "sleep"
    /\ UNCHANGED <<forwarded, acked, q>>

\* push_to_vm returns False: an HTTP error, or an answer that got lost after
\* VictoriaMetrics had taken the body in.  The body stays current_body.
PushFailed ==
    /\ tx = "push"
    /\ errors < MaxErrors
    /\ vm' \in {vm, Append(vm, current_body)}
    /\ errors' = errors + 1
    /\ backoff' = NextBackoff(backoff)
    /\ tx' = "sleep"
    /\ UNCHANGED <<current_body, forwarded, acked, q>>

\* time.sleep(backoff) returns.
TxWake ==
    /\ tx = "sleep"
    /\ tx' = "loop"
    /\ UNCHANGED <<current_body, backoff, forwarded, errors, acked, vm, q>>

sender_thread ==
    /\ main # "exited"
    /\ \/ TxLoop \/ TxEmpty \/ TxGet \/ PushOk \/ CountForwarded
       \/ PushFailed \/ TxWake
    /\ UNCHANGED <<running, main, rxVars>>

-----------------------------------------------------------------------------
(* main                                                                    *)

\* SIGINT or SIGTERM: _handle_signal, and main's own except clause.
HandleSignal ==
    /\ main # "exited"
    /\ running' = FALSE
    /\ UNCHANGED <<main, q, rxVars, txVars>>

\* while _running: time.sleep(1.0)
MainWakes ==
    /\ main = "wait"
    /\ ~running
    /\ main' = "joinrx"
    /\ UNCHANGED <<running, q, rxVars, txVars>>

\* rx.join(timeout=3.0): the thread is over, or the timeout passes.
JoinRx ==
    /\ main = "joinrx"
    /\ main' = "jointx"
    /\ UNCHANGED <<running, q, rxVars, txVars>>

\* Mutant: waits for the sender however long it takes.
JoinTxNoTimeout ==
    /\ main = "jointx"
    /\ tx = "done"
    /\ main' = "exited"
    /\ UNCHANGED <<running, q, rxVars, txVars>>

\* tx.join(timeout=5.0), sock.close() and the end of the process, which takes
\* both daemon threads with it.
JoinTx ==
    /\ main = "jointx"
    /\ main' = "exited"
    /\ UNCHANGED <<running, q, rxVars, txVars>>

\* The process is gone.
Terminated == main = "exited" /\ UNCHANGED vars

Next ==
    \/ receiver_thread \/ sender_thread
    \/ HandleSignal \/ MainWakes \/ JoinRx \/ JoinTx
    \/ Terminated

Spec == Init /\ [][Next]_vars

-----------------------------------------------------------------------------
(* Fairness.  No step of the outside world (a frame, a signal) is fair.    *)

\* The main thread runs, whatever becomes of the two others: a push may hang or
\* fail for ever.
FairSpec ==
    /\ Spec
    /\ WF_vars(MainWakes) /\ WF_vars(JoinRx) /\ WF_vars(JoinTx)

\* The two other threads run as well.  Failing pushes are bounded by MaxErrors,
\* which says that VictoriaMetrics is not down for ever.
ThreadsFair == WF_vars(receiver_thread) /\ WF_vars(sender_thread)

-----------------------------------------------------------------------------
(* Properties.                                                             *)

Pending == Range(q) \cup ({current_body, body} \ {None})

\* Every variable has its type; the queue respects its bound and the backoff
\* its maximum.
TypeOK ==
    /\ running \in BOOLEAN /\ evicted \in BOOLEAN
    /\ rx \in {"loop", "recv", "put", "evict", "reput", "count", "done", "raised"}
    /\ tx \in {"loop", "empty?", "body", "push", "count", "sleep", "done"}
    /\ main \in {"wait", "joinrx", "jointx", "exited"}
    /\ body \in Body \cup {None} /\ current_body \in Body \cup {None}
    /\ q \in Seq(Body)
    /\ QueueSize > 0 => Len(q) <= QueueSize
    /\ backoff \in 0..MaxBackoff
    /\ received \in 0..MaxFrames
    /\ forwarded \in Nat /\ errors \in 0..MaxErrors /\ drops \in Nat
    /\ acked \subseteq Body /\ lost \subseteq Body
    /\ vm \in Seq(Body)

\* The second put_nowait of enqueue_latest never raises queue.Full: between
\* the eviction and the put only the sender touches the queue, and it removes.
NeverRaises == rx # "raised"

\* Whatever the interleaving of the eviction, the sender's get and the
\* retries, every frame received is in exactly one place: acknowledged,
\* evicted, queued, with the sender, or with the receiver.
Conservation ==
    /\ 1..received = acked \cup lost \cup Pending
    /\ acked \cap lost = {} /\ Pending \cap (acked \cup lost) = {}
    /\ \A i, j \in 1..Len(q) : i # j => q[i] # q[j]
    /\ Range(q) \cap {current_body, body} = {}
    /\ current_body # None => current_body # body

\* enqueue_latest "keeps the newest telemetry": the newest frame is never the
\* one that is evicted, and what is queued is always the unbroken run of the
\* most recent frames.
KeepsNewest ==
    /\ received > 0 => received \notin lost
    /\ \A i \in 1..Len(q) :
           q[i] = received - Len(q) + i - (IF body = None THEN 0 ELSE 1)

\* VictoriaMetrics sees the bodies in arrival order; only a retry repeats one.
DeliveredInOrder ==
    \A i, j \in 1..Len(vm) : i < j => vm[i] <= vm[j]

\* _stats["drops"] counts the evicted frames and _stats["forwarded"] the
\* acknowledged ones, except for the one whose count is under way.
StatsExact ==
    /\ Cardinality(lost) =
          drops + (IF rx \in {"reput", "count"} /\ evicted THEN 1 ELSE 0)
    /\ Cardinality(acked) = forwarded + (IF tx = "count" THEN 1 ELSE 0)

\* When the sender has ended by itself, it has drained the queue, except for
\* the one frame the receiver may have taken from the socket after _running
\* was cleared.
ShutdownLosesAtMostOne ==
    tx = "done" => Len(q) + (IF body = None THEN 0 ELSE 1) <= 1

\* The threads and the queue implement the abstract channel.
Channel == INSTANCE TelemetryChannel
             WITH Capacity <- QueueSize, arrived <- received,
                  pending <- Pending, delivered <- vm

ImplementsChannel == Channel!CSpec

\* A signal always ends the process: the joins of main have timeouts, so it
\* ends even if the sender retries a push for ever and never drains the queue.
SignalEndsProcess == ~running ~> main = "exited"

\* Unless the process is told to stop, every frame received is acknowledged
\* or evicted, if all threads run: no interleaving strands a body.
EveryFrameSettles ==
    ThreadsFair =>
        \A b \in Body : b <= received ~> (b \in acked \cup lost \/ main = "exited")
=============================================================================
