---------------------------- MODULE BoundedFifo -----------------------------
(* What a ring buffer promises: a bounded queue of bytes that may displace *)
(* its oldest byte when it is full.                                        *)
EXTENDS Naturals, Sequences

CONSTANTS Bytes, Capacity

VARIABLES queue, capacity          \* capacity is 0 while there is no buffer

fvars == <<queue, capacity>>

FInit == queue = <<>> /\ capacity = 0

SetUp     == queue' = <<>> /\ capacity' \in {0, Capacity}
Enqueue   == /\ Len(queue) < capacity
             /\ \E b \in Bytes : queue' = Append(queue, b)
             /\ UNCHANGED capacity
Displace  == /\ Len(queue) = capacity /\ capacity > 0
             /\ \E b \in Bytes : queue' = Append(Tail(queue), b)
             /\ UNCHANGED capacity
Dequeue   == queue # <<>> /\ queue' = Tail(queue) /\ UNCHANGED capacity
MakeEmpty == queue' = <<>> /\ UNCHANGED capacity

FSpec == FInit /\ [][SetUp \/ Enqueue \/ Displace \/ Dequeue \/ MakeEmpty]_fvars
=============================================================================
