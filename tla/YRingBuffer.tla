---------------------------- MODULE YRingBuffer -----------------------------
(***************************************************************************)
(* The ring buffer of yringbuffer.c, as one caller at a time uses it. A    *)
(* call of YRingBufferPutData or YRingBufferGetData is its loop, one step  *)
(* per byte, and its return.                                               *)
(***************************************************************************)
EXTENDS YRing

CONSTANTS
  Size,      \* the size YRingBufferInit is given
  MaxLen     \* bound on the length a call is given

ASSUME SizeAssumption == Size \in Nat \ {0}
ASSUME MaxLenAssumption == MaxLen \in Nat

VARIABLES
  rb,        \* the ring buffer
  op,        \* the function called: "put", "get" or "none"
  drop,      \* put: drop_if_full
  todo,      \* put: the bytes of data from data[cnt] on
  len,       \* len
  cnt,       \* cnt
  moved,     \* put: the bytes taken; get: the bytes data has been given
  before     \* history: the contents at the call

callvars == <<op, drop, todo, len, cnt, moved, before>>
rvars    == <<rb, callvars>>

RInit ==
  /\ rb = NoBuffer
  /\ op = "none"
  /\ drop = FALSE
  /\ todo = <<>>
  /\ len = 0
  /\ cnt = 0
  /\ moved = <<>>
  /\ before = <<>>

\* YRingBufferInit, YRingBufferDestory, YRingBufferClear
SetUp ==
  /\ op = "none"
  /\ \/ \E buffer \in [0 .. Size - 1 -> Bytes] : rb' = InitRing(buffer, Size)
     \/ rb' = NoBuffer
     \/ rb' = ClearRing(rb)
  /\ UNCHANGED callvars

Call(name, n) ==
  /\ op = "none"
  /\ op' = name
  /\ len' = n
  /\ cnt' = 0
  /\ moved' = <<>>
  /\ before' = Contents(rb)
  /\ UNCHANGED rb

CallPut(data, d) ==
  /\ Call("put", Len(data))
  /\ todo' = data
  /\ drop' = d

CallGet(n) ==
  /\ Call("get", n)
  /\ UNCHANGED <<todo, drop>>

\* Mistake: drop_if_full is not looked at.
MayPutAlways == Attached(rb) /\ cnt < len

\* Whether the loops go on; otherwise they end or break.
MayPut == Attached(rb) /\ cnt < len /\ (Full(rb) => drop)
MayGet == Attached(rb) /\ cnt < len /\ ~Empty(rb)

PutStep ==
  /\ op = "put"
  /\ MayPut
  /\ rb' = PutByte(rb, Head(todo))
  /\ moved' = Append(moved, Head(todo))
  /\ todo' = Tail(todo)
  /\ cnt' = cnt + 1
  /\ UNCHANGED <<op, drop, len, before>>

GetStep ==
  /\ op = "get"
  /\ MayGet
  /\ rb' = DropByte(rb)
  /\ moved' = Append(moved, rb.data[rb.start])
  /\ cnt' = cnt + 1
  /\ UNCHANGED <<op, drop, todo, len, before>>

\* What was not put stays with the caller.
Return ==
  /\ \/ op = "put" /\ ~MayPut
     \/ op = "get" /\ ~MayGet
  /\ op' = "none"
  /\ todo' = <<>>
  /\ drop' = FALSE
  /\ UNCHANGED <<rb, len, cnt, moved, before>>

Arrays == UNION {[1 .. n -> Bytes] : n \in 0 .. MaxLen}

RNext ==
  \/ SetUp
  \/ \E data \in Arrays, d \in BOOLEAN : CallPut(data, d)
  \/ \E n \in 0 .. MaxLen : CallGet(n)
  \/ PutStep
  \/ GetStep
  \/ Return

RSpec == RInit /\ [][RNext]_rvars
-----------------------------------------------------------------------------
RTypeOK ==
  /\ RingOK(rb)
  /\ rb.size \in {0, Size}
  /\ op \in {"none", "put", "get"}
  /\ drop \in BOOLEAN
  /\ todo \in Seq(Bytes)
  /\ len \in 0 .. MaxLen
  /\ cnt \in 0 .. len
  /\ moved \in Seq(Bytes)
  /\ before \in Seq(Bytes)

(***************************************************************************)
(* A byte comes out once and in the order it went in, however the two      *)
(* indices have wrapped: what a call has taken out and what is left are    *)
(* what was there when it began.                                           *)
(***************************************************************************)
GetTakesTheOldest ==
  op = "get" => moved \o Contents(rb) = before

Lost(all) == IF Len(all) > rb.size THEN Len(all) - rb.size ELSE 0

(***************************************************************************)
(* The bytes held during a put are the last of those that were there and   *)
(* those it has put: nothing is lost but the oldest, and no more of them   *)
(* than the size requires.                                                 *)
(***************************************************************************)
PutKeepsTheNewest ==
  op = "put" =>
    LET all == before \o moved
    IN  Contents(rb) = SubSeq(all, Lost(all) + 1, Len(all))

(***************************************************************************)
(* The returned count is the number of bytes moved, and the call stops     *)
(* short only for want of bytes or of room (a put that may drop never      *)
(* does).                                                                  *)
(***************************************************************************)
ReturnCount ==
  op # "none" /\ op' = "none" =>
    LET room == rb.size - Len(before)
        most == IF op = "get" THEN Len(before)
                ELSE IF drop /\ Attached(rb) THEN len ELSE room
    IN  /\ cnt = Len(moved)
        /\ cnt = IF len < most THEN len ELSE most

ReturnsWhatItMoved == [][ReturnCount]_rvars

\* The ring buffer implements the bounded queue, byte by byte.
Fifo == INSTANCE BoundedFifo
  WITH Capacity <- Size, queue <- Contents(rb), capacity <- rb.size

ImplementsFifo == Fifo!FSpec
-----------------------------------------------------------------------------
(***************************************************************************)
(* The inductive invariant: the two effects, and how far the call has got. *)
(***************************************************************************)
Progress ==
  /\ op # "none" => cnt = Len(moved) /\ Len(before) <= rb.size
  /\ op = "put" => Len(todo) = len - cnt
  /\ op = "put" /\ rb.size = 0 => cnt = 0
  /\ op = "put" /\ ~drop => Len(before) + cnt <= rb.size

RInv == RTypeOK /\ GetTakesTheOldest /\ PutKeepsTheNewest /\ Progress
=============================================================================
