------------------------------- MODULE YRing --------------------------------
(***************************************************************************)
(* struct YRingBuffer of yringbuffer.h and what one turn of the loops of   *)
(* YRingBufferPutData and YRingBufferGetData does to it. rb->data is a     *)
(* function of the slots 0 .. size-1, with no slots when it is NULL.       *)
(***************************************************************************)
EXTENDS Integers, Sequences

CONSTANT Bytes

Ring(data, size, start, end, current_len) ==
  [data |-> data, size |-> size, start |-> start, end |-> end,
   current_len |-> current_len]

\* YRingBufferInit with a buffer of n bytes, whatever they are.
InitRing(buffer, n) == Ring(buffer, n, 0, 0, 0)

\* YRingBufferDestory: no data, no size.
NoBuffer == Ring([i \in {} |-> 0], 0, 0, 0, 0)

\* YRingBufferClear
ClearRing(rb) == Ring(rb.data, rb.size, 0, 0, 0)

Attached(rb) == rb.size > 0                       \* rb->data != NULL
Full(rb)     == rb.end = rb.start /\ rb.current_len = rb.size
Empty(rb)    == rb.end = rb.start /\ rb.current_len # rb.size

\* Mistake: an index wraps one slot too late.
WrapLate(rb, i) == IF i > rb.size THEN 0 ELSE i

\* The two ifs at the end of the loops.
Wrap(rb, i) == IF i >= rb.size THEN 0 ELSE i

\* Mistake: when the oldest byte is overwritten the start does not move on.
PutByteKeepingStart(rb, b) ==
  Ring([rb.data EXCEPT ![rb.end] = b], rb.size, rb.start, Wrap(rb, rb.end + 1),
       IF Full(rb) THEN rb.current_len ELSE rb.current_len + 1)

\* One byte put; into a full buffer, over the oldest.
PutByte(rb, b) ==
  Ring([rb.data EXCEPT ![rb.end] = b],
       rb.size,
       Wrap(rb, IF Full(rb) THEN rb.start + 1 ELSE rb.start),
       Wrap(rb, rb.end + 1),
       IF Full(rb) THEN rb.current_len ELSE rb.current_len + 1)

\* Mistake: the length is not counted down.
DropByteUncounted(rb) ==
  Ring(rb.data, rb.size, Wrap(rb, rb.start + 1), rb.end, rb.current_len)

\* One byte got, after it has been copied from data[start].
DropByte(rb) ==
  Ring(rb.data, rb.size, Wrap(rb, rb.start + 1), rb.end, rb.current_len - 1)
-----------------------------------------------------------------------------
\* The slot k places after slot s on a circle of n.
Place(n, s, k) == IF s + k < n THEN s + k ELSE s + k - n

\* The slot k places after the start, and the bytes held, oldest first.
Slot(rb, k) == Place(rb.size, rb.start, k)

Contents(rb) == [i \in 1 .. rb.current_len |-> rb.data[Slot(rb, i - 1)]]

\* What the functions keep: the indices are in the buffer and the length is
\* the distance between them, a full buffer told from an empty one by it.
RingOK(rb) ==
  /\ rb.size \in Nat
  /\ rb.data \in [0 .. rb.size - 1 -> Bytes]
  /\ rb.current_len \in 0 .. rb.size
  /\ IF rb.size = 0 THEN rb.start = 0 /\ rb.end = 0
     ELSE rb.start \in 0 .. rb.size - 1 /\ rb.end = Slot(rb, rb.current_len)
=============================================================================
