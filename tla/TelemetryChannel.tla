--------------------------- MODULE TelemetryChannel ---------------------------
(***************************************************************************)
(* What metrics_forwarder.py promises between the UDP socket and           *)
(* VictoriaMetrics, with no threads, queue or retries: bodies arrive one   *)
(* by one, are delivered oldest first and at least once, and a bounded     *)
(* channel may drop a body only near its old end and only while a newer    *)
(* body is waiting.                                                        *)
(***************************************************************************)
EXTENDS Naturals, Integers, Sequences, FiniteSets

CONSTANT Capacity   \* queued bodies the channel holds; <= 0 is "unbounded"

VARIABLES
    arrived,     \* number of bodies that have arrived, named 1..arrived
    pending,     \* the bodies that are neither delivered nor dropped
    delivered    \* what the receiving end has seen, in order

cvars == <<arrived, pending, delivered>>

CInit == arrived = 0 /\ pending = {} /\ delivered = <<>>

Oldest(b) == \A p \in pending : b <= p
Older(b) == {p \in pending : p < b}

Arrive ==
    /\ arrived' = arrived + 1
    /\ pending' = pending \cup {arrived + 1}
    /\ UNCHANGED delivered

\* The sending end learns that b has been taken in.
Deliver(b) ==
    /\ Oldest(b)
    /\ delivered' = Append(delivered, b)
    /\ pending' = pending \ {b}
    /\ UNCHANGED arrived

\* b is taken in, but the sending end does not learn it and will try again.
DeliverUnacknowledged(b) ==
    /\ Oldest(b)
    /\ delivered' = Append(delivered, b)
    /\ UNCHANGED <<arrived, pending>>

\* One older body may be with the sender, which does not give it back.
Drop(b) ==
    /\ Capacity > 0
    /\ \A p, r \in Older(b) : p = r
    /\ \E n \in pending : n > b
    /\ pending' = pending \ {b}
    /\ UNCHANGED <<arrived, delivered>>

CNext ==
    \/ Arrive
    \/ \E b \in pending : Deliver(b) \/ DeliverUnacknowledged(b) \/ Drop(b)

CSpec == CInit /\ [][CNext]_cvars
=============================================================================
