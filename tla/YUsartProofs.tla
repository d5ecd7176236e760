---------------------------- MODULE YUsartProofs ----------------------------
(***************************************************************************)
(* Proofs about YUsart, for every number of tasks and every size of the    *)
(* receive buffer: masking is enough to share the ring buffer with the     *)
(* interrupt and to send a byte, without a lock among the tasks.           *)
(***************************************************************************)
EXTENDS YUsart, YRingProofs

USE BufferAssumption, BoundsAssumption
-----------------------------------------------------------------------------
(***************************************************************************)
(* The ring buffer: one put and one get keep its indices in agreement.     *)
(***************************************************************************)
RingType ==
  [data : [0 .. BufferSize - 1 -> Numbers], size : {BufferSize},
   start : 0 .. BufferSize - 1, end : 0 .. BufferSize - 1,
   current_len : 0 .. BufferSize]

\* A consistent ring buffer of the port's size is of that type.
LEMMA ConsistentIsTyped ==
  ASSUME NEW data, NEW start, NEW end, NEW len,
         RingOK(Ring(data, BufferSize, start, end, len))
  PROVE  Ring(data, BufferSize, start, end, len) \in RingType
<1> DEFINE r == Ring(data, BufferSize, start, end, len)
<1>1. /\ r.data = data /\ r.size = BufferSize /\ r.start = start /\ r.end = end
      /\ r.current_len = len
  BY DEF Ring
<1> HIDE DEF r
<1>2. RingOK(r) /\ Attached(r)
  BY <1>1 DEF Attached, r
<1>3. /\ r.data \in [0 .. r.size - 1 -> Bytes] /\ r.current_len \in 0 .. r.size
      /\ r.start \in 0 .. r.size - 1 /\ r.end \in 0 .. r.size - 1
  BY <1>2, RingFields
<1> QED
  BY <1>1, <1>3, BytesAssumption DEF RingType, Ring

\* Its fields, and that it has a buffer.
LEMMA TypedFields ==
  ASSUME NEW r \in RingType
  PROVE  /\ r.size = BufferSize /\ Attached(r)
         /\ r.data \in [0 .. BufferSize - 1 -> Numbers]
         /\ r.start \in 0 .. BufferSize - 1 /\ r.end \in 0 .. BufferSize - 1
         /\ r.current_len \in 0 .. BufferSize
         /\ r.data[r.start] \in Numbers
BY DEF RingType, Attached

\* Putting a byte, over the oldest one if need be.
LEMMA PutKeepsRing ==
  ASSUME NEW r \in RingType, RingOK(r), NEW b \in Numbers
  PROVE  PutByte(r, b) \in RingType /\ RingOK(PutByte(r, b))
<1>1. r.size = BufferSize /\ Attached(r) /\ b \in Bytes
  BY TypedFields, BytesAssumption
<1>2. RingOK(PutByte(r, b))
  BY <1>1, PutAppends, PutDisplaces
<1> QED
  BY <1>1, <1>2, ConsistentIsTyped DEF PutByte

\* Getting a byte: first the start moves on, then the length follows, and it
\* is as if the byte had been dropped at once.
LEMMA GetKeepsRing ==
  ASSUME NEW r \in RingType, RingOK(r), ~Empty(r)
  PROVE  LET q == [r EXCEPT !.start = Wrap(r, r.start + 1)]
         IN  /\ r.current_len >= 1
             /\ q \in RingType /\ q.current_len = r.current_len
             /\ [q EXCEPT !.current_len = r.current_len - 1] = DropByte(r)
             /\ RingOK(DropByte(r))
<1> DEFINE q == [r EXCEPT !.start = Wrap(r, r.start + 1)]
           p == [q EXCEPT !.current_len = r.current_len - 1]
<1>1. /\ r.size = BufferSize /\ Attached(r) /\ r.start \in 0 .. BufferSize - 1
      /\ r.current_len \in 0 .. BufferSize
  BY TypedFields
<1>2. r.current_len >= 1
  BY <1>1, FullAndEmpty
<1>3. Wrap(r, r.start + 1) \in 0 .. BufferSize - 1
  BY <1>1 DEF Wrap
<1>4. q \in RingType /\ q.current_len = r.current_len
  BY <1>3 DEF RingType
<1>5. p = DropByte(r)
  <2>1. r = Ring(r.data, r.size, r.start, r.end, r.current_len)
    BY DEF RingType, Ring
  <2>2. \A data, size, start, end, len, new :
          /\ [Ring(data, size, start, end, len) EXCEPT !.start = new]
               = Ring(data, size, new, end, len)
          /\ [Ring(data, size, start, end, len) EXCEPT !.current_len = new]
               = Ring(data, size, start, end, new)
    BY DEF Ring
  <2>3. q = Ring(r.data, r.size, Wrap(r, r.start + 1), r.end, r.current_len)
    BY <2>1, <2>2
  <2> HIDE DEF q
  <2>4. p = Ring(r.data, r.size, Wrap(r, r.start + 1), r.end, r.current_len - 1)
    BY <2>2, <2>3
  <2> QED
    BY <2>4 DEF DropByte
<1>6. RingOK(DropByte(r))
  BY <1>1, GetTakesHead
<1> QED
  BY <1>2, <1>4, <1>5, <1>6
-----------------------------------------------------------------------------
(***************************************************************************)
(* The inductive invariant.                                                *)
(***************************************************************************)

\* Between the two updates of a task that gets a byte.
Reading(t) == at[t] = "store" /\ call[t] = "read"

\* The interrupts are masked while one task is in its masked section, and
\* then there is only that one. The interrupt is not under way.
MaskedAlone ==
  /\ ~primask => \A t \in Callers : at[t] \notin Masked
  /\ \A t, u \in Callers : at[t] \in Masked /\ at[u] \in Masked => t = u
  /\ isr # "idle" => ~primask

\* The ring buffer as it is once the task between its updates is done.
Settled ==
  IF BetweenUpdates THEN [rb EXCEPT !.current_len = rb.current_len - 1] ELSE rb

\* The indices agree, or will when that task is done.
RingAgrees ==
  /\ rb \in RingType
  /\ RingOK(Settled)
  /\ \A t \in Callers : Reading(t) => saw[t] = rb.current_len /\ saw[t] >= 1

\* What has left is the beginning of what was written, and what a task is
\* about to send finds room.
Sending ==
  /\ \A t \in Callers : at[t] \in {"look", "store"} /\ call[t] = "write" => written < MaxWrites
  /\ \A t \in Callers : at[t] = "store" /\ call[t] = "write" => txe
  /\ Len(wire) = IF txe THEN written ELSE written - 1
  /\ \A k \in 1 .. Len(wire) : wire[k] = k
  /\ ~txe => tdr = written /\ written >= 1

UInv == UTypeOK /\ MaskedAlone /\ RingAgrees /\ Sending
-----------------------------------------------------------------------------
(***************************************************************************)
(* It holds at first, and every step keeps it.                             *)
(***************************************************************************)
LEMMA InitUInv == UInit => UInv
<1> SUFFICES ASSUME UInit PROVE UInv
  OBVIOUS
<1>1. rb \in RingType /\ RingOK(rb)
  <2>1. rb = Ring([k \in 0 .. BufferSize - 1 |-> 0], BufferSize, 0, 0, 0)
    BY DEF UInit, InitRing
  <2>2. [k \in 0 .. BufferSize - 1 |-> 0] \in [0 .. BufferSize - 1 -> Numbers]
    BY DEF Numbers
  <2>3. RingOK(rb)
    BY <2>1, <2>2, SetUpRing, BytesAssumption DEF InitRing, RingOK, Ring, Slot, Place
  <2> QED
    BY <2>1, <2>3, ConsistentIsTyped
<1>2. UTypeOK
  <2>1. /\ rb.size = BufferSize /\ rb.data \in [0 .. BufferSize - 1 -> Numbers]
        /\ rb.start \in 0 .. BufferSize - 1 /\ rb.end \in 0 .. BufferSize - 1
        /\ rb.current_len \in 0 .. BufferSize
    BY <1>1 DEF RingType
  <2>2. {primask, rxne, ore, txe, sawOre} \subseteq BOOLEAN
    BY DEF UInit
  <2>3. {rdr, d, arrived} \subseteq Numbers /\ tdr \in 0 .. written /\ written \in 0 .. MaxWrites
    BY DEF UInit, Numbers
  <2>4. /\ call \in [Callers -> Calls] /\ at \in [Callers -> Stages]
        /\ saw \in [Callers -> 0 .. BufferSize] /\ said \in [Callers -> BOOLEAN]
    BY DEF UInit, Calls, Stages
  <2>5. taken \in Seq(Numbers) /\ wire \in Seq(1 .. MaxWrites)
    BY DEF UInit
  <2> QED
    BY <2>1, <2>2, <2>3, <2>4, <2>5 DEF UInit, UTypeOK
<1>3. MaskedAlone
  BY DEF UInit, MaskedAlone, Masked
<1>4. Sending
  BY DEF UInit, Sending
<1>5. RingAgrees
  BY <1>1 DEF RingAgrees, Settled, BetweenUpdates, Reading, UInit
<1> QED
  BY <1>2, <1>3, <1>4, <1>5 DEF UInv

\* The peripheral and all of the interrupt but its last step leave the tasks
\* and the ring buffer alone.
LEMMA HardwareKeeps ==
  ASSUME UInv, Arrive \/ Shift \/ EnterIsr \/ TestRxne \/ Receive
  PROVE  UInv'
<1> USE DEF usart, handler, threads, log
<1>1. UNCHANGED <<rb, primask, threads, displaced, taken, written>>
  BY DEF Arrive, Shift, EnterIsr, TestRxne, Receive
<1>2. MaskedAlone'
  BY <1>1 DEF UInv, MaskedAlone, Arrive, Shift, EnterIsr, TestRxne, Receive
<1>3. RingAgrees'
  BY <1>1 DEF UInv, RingAgrees, Settled, BetweenUpdates, Reading
<1>4. UTypeOK'
  <2>1. CASE Arrive
    <3>0. /\ arrived \in Numbers /\ rdr \in Numbers /\ d \in Numbers
          /\ rxne \in BOOLEAN /\ ore \in BOOLEAN /\ overrun \subseteq Numbers
      BY DEF UInv, UTypeOK
    <3>1. arrived' \in Numbers
      BY <2>1, <3>0 DEF Arrive, Numbers
    <3>2. /\ rdr' \in {rdr, arrived'} /\ rxne' = TRUE /\ ore' = (ore \/ rxne)
          /\ overrun' \in {overrun, overrun \cup {arrived'}}
          /\ UNCHANGED <<txe, tdr, isr, d, sawOre, wire>>
      BY <2>1 DEF Arrive
    <3>3. rdr' \in Numbers /\ ore' \in BOOLEAN /\ overrun' \subseteq Numbers
      BY <3>0, <3>1, <3>2
    <3> QED
      BY <1>1, <3>1, <3>2, <3>3 DEF UInv, UTypeOK
  <2>2. CASE Shift
    <3>1. tdr \in 1 .. MaxWrites
      BY <2>2 DEF UInv, UTypeOK, Sending, Shift
    <3> QED
      BY <1>1, <2>2, <3>1 DEF UInv, UTypeOK, Shift
  <2>3. CASE EnterIsr
    BY <1>1, <2>3 DEF UInv, UTypeOK, EnterIsr
  <2>4. CASE TestRxne
    BY <1>1, <2>4 DEF UInv, UTypeOK, TestRxne
  <2>5. CASE Receive
    BY <1>1, <2>5 DEF UInv, UTypeOK, Receive
  <2> QED
    BY <2>1, <2>2, <2>3, <2>4, <2>5
<1>5. Sending'
  <2>1. CASE Shift
    <3>1. /\ tdr = written /\ written \in Nat /\ written >= 1 /\ wire \in Seq(1 .. MaxWrites)
          /\ Len(wire) = written - 1 /\ tdr \in 1 .. MaxWrites
      BY <2>1 DEF UInv, UTypeOK, Sending, Shift
    <3>2. wire' = Append(wire, tdr) /\ txe'
      BY <2>1 DEF Shift
    <3>3. /\ Len(wire') = written
          /\ \A k \in 1 .. written : wire'[k] = IF k = written THEN tdr ELSE wire[k]
      BY <3>1, <3>2
    <3> QED
      BY <1>1, <3>1, <3>2, <3>3 DEF UInv, Sending
  <2>2. CASE UNCHANGED <<txe, tdr, wire>>
    BY <1>1, <2>2 DEF UInv, Sending
  <2> QED
    BY <2>1, <2>2 DEF Arrive, EnterIsr, TestRxne, Receive
<1> QED
  BY <1>2, <1>3, <1>4, <1>5 DEF UInv

\* The interrupt puts its byte while no task is in its masked section.
LEMMA PutKeeps ==
  ASSUME UInv, Put PROVE UInv'
<1> USE DEF usart, handler, threads, log
<1>1. \A t \in Callers : at[t] \notin Masked
  BY DEF UInv, MaskedAlone, Put
<1>2. /\ \A t \in Callers : ~Reading(t) /\ ~Reading(t)'
      /\ Settled = rb /\ Settled' = rb'
  BY <1>1 DEF Reading, Masked, Put, Settled, BetweenUpdates
<1>3. rb \in RingType /\ RingOK(rb) /\ d \in Numbers
  BY <1>2 DEF UInv, RingAgrees, UTypeOK
<1>4. rb' \in RingType /\ RingOK(rb')
  BY <1>3, PutKeepsRing DEF Put
<1>5. rb.data[rb.start] \in Numbers
  BY <1>3 DEF RingType
<1>6. UTypeOK'
  BY <1>4, <1>5 DEF UInv, UTypeOK, Put, RingType
<1>7. MaskedAlone' /\ Sending'
  BY DEF UInv, MaskedAlone, Sending, Put
<1> QED
  BY <1>2, <1>4, <1>6, <1>7 DEF UInv, RingAgrees

\* A task can take a step in its masked section only while the interrupt is
\* not under way, and others are in none.
LEMMA TaskAlone ==
  ASSUME UInv, NEW t \in Callers, Runs(t)
  PROVE  /\ isr = "idle"
         /\ at[t] \in Masked => primask /\ \A u \in Callers \ {t} : at[u] \notin Masked
         /\ at[t] \notin Masked => ~primask /\ \A u \in Callers : at[u] \notin Masked
BY DEF UInv, MaskedAlone, Runs

LEMMA BeginKeeps ==
  ASSUME UInv, NEW t \in Callers, NEW c \in Calls, Begin(t, c)
  PROVE  UInv'
<1> USE DEF usart, handler, threads, log
<1>1. /\ isr = "idle" /\ ~primask /\ \A u \in Callers : at[u] \notin Masked
  BY TaskAlone DEF Begin, Masked
<1>2. UTypeOK'
  BY DEF UInv, UTypeOK, Begin, Masks, Stages, Masked
<1>3. \A u \in Callers \ {t} : at'[u] = at[u] /\ call'[u] = call[u]
  BY DEF Begin, UInv, UTypeOK
<1>4. at'[t] = "look" /\ call'[t] = c /\ primask' /\ isr' = "idle"
  BY <1>1 DEF Begin, UInv, UTypeOK, Masks
<1>5. MaskedAlone'
  BY <1>1, <1>3, <1>4 DEF MaskedAlone
<1>6. \A u \in Callers : ~Reading(u) /\ ~Reading(u)'
  BY <1>1, <1>3, <1>4 DEF Reading, Masked
<1>7. RingAgrees'
  <2>1. Settled = rb /\ Settled' = rb'
    BY <1>6 DEF Settled, BetweenUpdates, Reading
  <2> QED
    BY <1>6, <2>1 DEF UInv, RingAgrees, Begin
<1>8. Sending'
  BY <1>1, <1>3, <1>4 DEF UInv, Sending, Begin, Masked
<1> QED
  BY <1>2, <1>5, <1>7, <1>8 DEF UInv

\* A step of a call, but for the two that get and the one that sends, and what
\* it changes of the task.
LEMMA InCallKeeps ==
  ASSUME UInv, NEW t \in Callers, InCall(t)
  PROVE  UInv'
<1> USE DEF usart, handler, threads, log
<1>0. Runs(t) /\ isr = "idle" /\ isr' = "idle"
  BY TaskAlone DEF InCall, Ask, Get, StoreLen, TestTxe, Send, Leave, Return
<1>1. /\ \A u \in Callers \ {t} : at'[u] = at[u]
      /\ UNCHANGED <<call, rxne, ore, rdr, isr, d, sawOre, arrived, overrun, displaced, wire>>
      /\ at'[t] \in Stages
  BY DEF InCall, Ask, Get, StoreLen, TestTxe, Send, Leave, Return, UInv, UTypeOK, Stages, Masked
<1>2. MaskedAlone'
  <2>1. CASE Leave(t)
    BY <1>0, <1>1, <2>1, TaskAlone DEF Leave, MaskedAlone, Masked, UInv, UTypeOK
  <2>2. CASE Return(t)
    BY <1>0, <1>1, <2>2, TaskAlone DEF Return, MaskedAlone, Masked, UInv, UTypeOK
  <2>3. CASE at[t] \in Masked /\ UNCHANGED primask
    BY <1>0, <1>1, <2>3, TaskAlone DEF MaskedAlone
  <2> QED
    BY <2>1, <2>2, <2>3 DEF InCall, Ask, Get, StoreLen, TestTxe, Send, Masked
<1>3. \A u \in Callers : at[t] \in Masked /\ u # t => ~Reading(u) /\ ~Reading(u)'
  BY <1>0, <1>1, TaskAlone DEF Reading, Masked
<1>4. CASE at[t] \in {"leave", "return"}
  <2>1. /\ UNCHANGED <<rb, txe, tdr, saw, said, taken, written>>
        /\ at'[t] \in {"return", "out"} /\ primask' \in BOOLEAN
    BY <1>4 DEF InCall, Ask, Get, StoreLen, TestTxe, Send, Leave, Return, UInv, UTypeOK
  <2>2. UTypeOK'
    BY <1>1, <1>4, <2>1 DEF UInv, UTypeOK, InCall, Ask, Get, StoreLen, TestTxe, Send, Leave, Return
  <2>3. \A u \in Callers : Reading(u)' <=> Reading(u)
    BY <1>1, <1>4, <2>1 DEF Reading
  <2>5. BetweenUpdates' <=> BetweenUpdates
    BY <2>3 DEF BetweenUpdates, Reading
  <2>6. RingAgrees'
    BY <2>1, <2>3, <2>5 DEF UInv, RingAgrees, Settled
  <2>7. Sending'
    BY <1>1, <1>4, <2>1 DEF UInv, Sending
  <2>4. RingAgrees' /\ Sending'
    BY <2>6, <2>7
  <2> QED
    BY <1>2, <2>2, <2>4 DEF UInv
<1> SUFFICES ASSUME at[t] \in {"look", "store"} PROVE UInv'
  BY <1>4 DEF InCall, Ask, Get, StoreLen, TestTxe, Send, Leave, Return
<1>5. /\ \A u \in Callers \ {t} : ~Reading(u) /\ ~Reading(u)'
      /\ \A u \in Callers \ {t} : at'[u] \notin {"look", "store"}
  BY <1>0, <1>1, <1>3, TaskAlone DEF Masked
<1>6. CASE Get(t) /\ ~Empty(rb)
  <2>1. /\ at[t] = "look" /\ call[t] = "read" /\ at'[t] = "store"
        /\ saw'[t] = rb.current_len
        /\ UNCHANGED <<primask, txe, tdr, said, written>>
    BY <1>6 DEF Get, UInv, UTypeOK
  <2>2. rb \in RingType /\ RingOK(rb)
    BY <1>5, <2>1 DEF UInv, RingAgrees, Reading, Settled, BetweenUpdates
  <2>3. /\ rb' = [rb EXCEPT !.start = Wrap(rb, rb.start + 1)]
        /\ taken' = Append(taken, rb.data[rb.start])
        /\ saw' = [saw EXCEPT ![t] = rb.current_len]
    BY <1>6 DEF Get
  <2>4. /\ rb' \in RingType /\ rb'.current_len = rb.current_len /\ rb.current_len >= 1
        /\ RingOK([rb' EXCEPT !.current_len = rb'.current_len - 1])
    BY <1>6, <2>2, <2>3, GetKeepsRing
  <2>5. rb.data[rb.start] \in Numbers /\ rb.current_len \in 0 .. BufferSize
    BY <2>2 DEF RingType
  <2>6. taken' \in Seq(Numbers) /\ saw' \in [Callers -> 0 .. BufferSize]
    BY <2>3, <2>5 DEF UInv, UTypeOK
  <2>7. UTypeOK'
    <3>1. at' \in [Callers -> Stages]
      BY <1>6 DEF UInv, UTypeOK, Get, Stages, Masked
    <3> QED
      BY <1>1, <2>1, <2>4, <2>6, <3>1, TypedFields DEF UInv, UTypeOK
  <2>8. Reading(t)' /\ RingAgrees'
    <3>1. Reading(t)' /\ BetweenUpdates'
      BY <1>1, <2>1 DEF Reading, BetweenUpdates
    <3> QED
      BY <1>5, <2>1, <2>4, <3>1 DEF RingAgrees, Settled
  <2>9. Sending'
    BY <1>1, <1>5, <2>1 DEF UInv, Sending
  <2> QED
    BY <1>2, <2>7, <2>8, <2>9 DEF UInv
<1>7. CASE StoreLen(t)
  <2>1. /\ Reading(t) /\ at'[t] = "leave"
        /\ rb' = [rb EXCEPT !.current_len = saw[t] - 1]
        /\ UNCHANGED <<primask, txe, tdr, saw, taken, written>>
    BY <1>7 DEF StoreLen, Reading, UInv, UTypeOK
  <2>2. rb \in RingType /\ saw[t] - 1 \in 0 .. BufferSize /\ RingOK(rb')
    <3>1. BetweenUpdates
      BY <2>1 DEF Reading, BetweenUpdates
    <3>2. rb \in RingType /\ RingOK(Settled) /\ saw[t] = rb.current_len /\ saw[t] >= 1
      BY <2>1 DEF UInv, RingAgrees
    <3>3. rb.current_len \in 0 .. BufferSize
      BY <3>2, TypedFields
    <3> QED
      BY <2>1, <3>1, <3>2, <3>3 DEF Settled
  <2>3. rb' \in RingType
    BY <2>1, <2>2 DEF RingType
  <2>4. UTypeOK'
    <3>1. at' \in [Callers -> Stages] /\ said' \in [Callers -> BOOLEAN]
      BY <1>7 DEF UInv, UTypeOK, StoreLen, Stages, Masked
    <3> QED
      BY <1>1, <2>1, <2>3, <3>1, TypedFields DEF UInv, UTypeOK
  <2>5. RingAgrees'
    <3>1. ~BetweenUpdates' /\ \A u \in Callers : ~Reading(u)'
      BY <1>5, <2>1 DEF Reading, BetweenUpdates
    <3> QED
      BY <2>2, <2>3, <3>1 DEF RingAgrees, Settled
  <2>6. Sending'
    BY <1>1, <1>5, <2>1 DEF UInv, Sending
  <2> QED
    BY <1>2, <2>4, <2>5, <2>6 DEF UInv
<1>8. CASE Send(t)
  <2>1. /\ at[t] = "store" /\ call[t] = "write" /\ at'[t] = "leave"
        /\ written' = written + 1 /\ tdr' = written + 1 /\ txe' = FALSE
        /\ UNCHANGED <<primask, rb, saw, taken>>
    BY <1>8 DEF Send, UInv, UTypeOK
  <2>2. txe /\ written < MaxWrites /\ written \in Nat
    BY <2>1 DEF UInv, Sending, UTypeOK
  <2>3. UTypeOK'
    <3>1. written' \in 0 .. MaxWrites /\ tdr' \in 0 .. written'
      BY <2>1, <2>2
    <3> QED
      BY <1>1, <1>8, <2>1, <3>1 DEF UInv, UTypeOK, Send, Stages
  <2>4. RingAgrees'
    <3>1. \A u \in Callers : ~Reading(u) /\ ~Reading(u)'
      BY <1>1, <1>5, <2>1 DEF Reading
    <3>2. Settled = rb /\ Settled' = rb'
      BY <3>1 DEF Settled, BetweenUpdates, Reading
    <3> QED
      BY <2>1, <3>1, <3>2 DEF UInv, RingAgrees
  <2>5. Sending'
    <3>1. Len(wire') = written /\ wire' = wire
      BY <1>1, <2>2 DEF UInv, Sending
    <3> QED
      BY <1>5, <2>1, <2>2, <3>1 DEF UInv, Sending
  <2> QED
    BY <1>2, <2>3, <2>4, <2>5 DEF UInv
<1>9. CASE Ask(t) \/ TestTxe(t) \/ (Get(t) /\ Empty(rb))
  <2>1. /\ UNCHANGED <<rb, saw, taken, primask, txe, tdr, written>>
        /\ at[t] = "look" /\ at'[t] \in {"leave", "store"}
        /\ (at'[t] = "store" => call[t] = "write" /\ txe)
    BY <1>9 DEF Ask, TestTxe, Get, UInv, UTypeOK
  <2> DEFINE answer == IF call[t] = "can_read" THEN rb.size > 0 ELSE txe
  <2>6. answer \in BOOLEAN
    <3>1. txe \in BOOLEAN /\ (rb.size > 0) \in BOOLEAN
      BY DEF UInv, UTypeOK
    <3> QED
      BY <3>1
  <2> HIDE DEF answer
  <2>7. said' = said \/ said' = [said EXCEPT ![t] = answer]
    BY <1>9 DEF Ask, TestTxe, Get, answer
  <2>8. said' \in [Callers -> BOOLEAN]
    BY <2>6, <2>7 DEF UInv, UTypeOK
  <2>2. UTypeOK'
    BY <1>1, <1>9, <2>1, <2>8 DEF UInv, UTypeOK, Ask, TestTxe, Get
  <2>3. ~Reading(t) /\ ~Reading(t)'
    BY <1>1, <2>1 DEF Reading
  <2>4. RingAgrees'
    <3>1. \A u \in Callers : ~Reading(u) /\ ~Reading(u)'
      BY <1>5, <2>3
    <3>2. Settled = rb /\ Settled' = rb'
      BY <3>1 DEF Settled, BetweenUpdates, Reading
    <3> QED
      BY <2>1, <3>1, <3>2 DEF UInv, RingAgrees
  <2>5. Sending'
    BY <1>1, <1>5, <2>1 DEF UInv, Sending
  <2> QED
    BY <1>2, <2>2, <2>4, <2>5 DEF UInv
<1> QED
  BY <1>4, <1>6, <1>7, <1>8, <1>9 DEF InCall, Leave, Return
-----------------------------------------------------------------------------
(***************************************************************************)
(* The theorems.                                                           *)
(***************************************************************************)
LEMMA UInvariant == USpec => []UInv
<1>1. UInv /\ [UNext]_uvars => UInv'
  <2> SUFFICES ASSUME UInv, [UNext]_uvars PROVE UInv'
    OBVIOUS
  <2>1. CASE UNCHANGED uvars
    BY <2>1 DEF uvars, usart, handler, threads, log, UInv, UTypeOK, MaskedAlone, RingAgrees,
      Settled, BetweenUpdates, Reading, Sending
  <2> QED
    BY <2>1, HardwareKeeps, PutKeeps, InCallKeeps, BeginKeeps DEF UNext, Isr
<1> QED
  BY <1>1, InitUInv, PTL DEF USpec

\* Every variable stays within its type: the index and the length of the ring
\* buffer within the buffer, whoever was in the middle of updating them.
THEOREM PortTypesHold == USpec => []UTypeOK
<1>1. UInv => UTypeOK
  BY DEF UInv
<1> QED
  BY <1>1, UInvariant, PTL

\* Whoever looks at the ring buffer, the interrupt or a task, finds its
\* indices and its length in agreement.
THEOREM RingIsShared == USpec => []RingSharedSafely
<1>1. UInv => RingSharedSafely
  <2> SUFFICES ASSUME UInv, isr = "put" \/ (\E t \in Callers : at[t] = "look")
               PROVE  ~BetweenUpdates
    BY DEF UInv, RingAgrees, RingSharedSafely, Settled
  <2> QED
    BY DEF UInv, MaskedAlone, BetweenUpdates, Masked
<1> QED
  BY <1>1, UInvariant, PTL

\* A byte accepted for sending leaves the port once and in order.
THEOREM AcceptedLeave == USpec => []AcceptedBytesLeave
<1>1. UInv => AcceptedBytesLeave
  <2> SUFFICES ASSUME UInv PROVE AcceptedBytesLeave
    OBVIOUS
  <2> DEFINE rest == IF txe THEN <<>> ELSE <<tdr>>
             all == wire \o rest
             numbers == [k \in 1 .. written |-> k]
  <2>1. wire \in Seq(Int) /\ rest \in Seq(Int) /\ written \in Nat
    BY DEF UInv, UTypeOK
  <2>2. Len(rest) = IF txe THEN 0 ELSE 1
    OBVIOUS
  <2>3. all \in Seq(Int) /\ Len(all) = written
    BY <2>1, <2>2 DEF UInv, Sending
  <2>4. numbers \in Seq(Int) /\ Len(numbers) = written
    BY <2>1
  <2>5. ASSUME NEW k \in 1 .. written PROVE all[k] = numbers[k]
    <3>1. CASE k <= Len(wire)
      BY <2>1, <3>1 DEF UInv, Sending
    <3>2. CASE k > Len(wire)
      <4>1. ~txe /\ k = written /\ k = Len(wire) + 1 /\ tdr = written
        BY <2>1, <3>2 DEF UInv, Sending
      <4>2. all[k] = tdr
        <5>1. rest = <<tdr>> /\ rest[1] = tdr /\ Len(rest) = 1
          BY <4>1
        <5>2. all[k] = rest[k - Len(wire)]
          BY <2>1, <4>1, <5>1, ConcatProperties
        <5> QED
          BY <2>1, <4>1, <5>1, <5>2
      <4>3. numbers[k] = k
        OBVIOUS
      <4> HIDE DEF all, numbers
      <4> QED
        BY <4>1, <4>2, <4>3
    <3>3. Len(wire) \in Nat /\ k \in Nat
      BY <2>1
    <3> HIDE DEF all, numbers
    <3> QED
      BY <3>1, <3>2, <3>3
  <2> HIDE DEF all, numbers
  <2>6. all = numbers
    BY <2>3, <2>4, <2>5, SeqEqual
  <2> QED
    BY <2>6 DEF all, numbers, AcceptedBytesLeave
<1> QED
  BY <1>1, UInvariant, PTL
-----------------------------------------------------------------------------
(***************************************************************************)
(* Every byte that came in is accounted for.                               *)
(***************************************************************************)

\* A byte that arrives is the last of those accounted for, or is gone itself.
LEMMA OneMoreArrived ==
  ASSUME NEW s \in Seq(Numbers), NEW n \in Nat, n + 1 \in Numbers,
         NEW gone, gone \subseteq 1 .. n, AccountsFor(s, n, gone)
  PROVE  /\ AccountsFor(s \o <<n + 1>>, n + 1, gone)
         /\ AccountsFor(s, n + 1, gone \cup {n + 1})
<1> DEFINE z == s \o <<n + 1>>
           m == Len(s)
<1>1. m \in Nat /\ \A j \in 1 .. m : s[j] \in Int
  BY DEF Numbers
<1>2. \A j \in 1 .. m : s[j] \in (1 .. n) \ gone
  BY DEF AccountsFor
<1>3. /\ Len(z) = m + 1 /\ z[m + 1] = n + 1
      /\ \A j \in 1 .. m : z[j] = s[j]
  OBVIOUS
<1> HIDE DEF z, m
<1>4. \A j, k \in 1 .. m + 1 : j < k => z[j] < z[k]
  <2> SUFFICES ASSUME NEW j \in 1 .. m + 1, NEW k \in 1 .. m + 1, j < k
               PROVE  z[j] < z[k]
    OBVIOUS
  <2>1. j \in 1 .. m /\ z[j] = s[j]
    BY <1>1, <1>3
  <2>2. CASE k = m + 1
    BY <1>1, <1>2, <1>3, <2>1, <2>2
  <2>3. CASE k # m + 1
    <3>1. k \in 1 .. m /\ z[k] = s[k]
      BY <1>1, <1>3, <2>3
    <3> QED
      BY <2>1, <3>1 DEF AccountsFor, m
  <2> QED
    BY <2>2, <2>3
<1>5. {z[k] : k \in 1 .. m + 1} = {s[k] : k \in 1 .. m} \cup {n + 1}
  BY <1>1, <1>3
<1>6. {s[k] : k \in 1 .. m} = (1 .. n) \ gone
  BY DEF AccountsFor, m
<1>7. /\ ((1 .. n) \ gone) \cup {n + 1} = (1 .. n + 1) \ gone
      /\ (1 .. n) \ gone = (1 .. n + 1) \ (gone \cup {n + 1})
  OBVIOUS
<1>8. AccountsFor(z, n + 1, gone)
  BY <1>3, <1>4, <1>5, <1>6, <1>7 DEF AccountsFor
<1>9. AccountsFor(s, n + 1, gone \cup {n + 1})
  BY <1>7 DEF AccountsFor
<1> QED
  BY <1>8, <1>9 DEF z

\* A byte taken out of the middle is gone, and the others still account for
\* the rest.
LEMMA OneTakenOut ==
  ASSUME NEW a \in Seq(Numbers), NEW h \in Numbers, NEW x \in Seq(Numbers),
         NEW n \in Nat, NEW gone, AccountsFor(a \o (<<h>> \o x), n, gone)
  PROVE  /\ h \in 1 .. n
         /\ AccountsFor(a \o x, n, gone \cup {h})
<1> DEFINE hx == <<h>> \o x
           s == a \o hx
           z == a \o x
           m == Len(a)
           At(k) == IF k <= m THEN k ELSE k + 1
<1>1. /\ m \in Nat /\ Len(x) \in Nat
      /\ hx \in Seq(Numbers) /\ Len(hx) = Len(x) + 1 /\ hx[1] = h
      /\ \A k \in 1 .. Len(x) : hx[k + 1] = x[k]
  OBVIOUS
<1> HIDE DEF hx
<1>2. /\ s \in Seq(Numbers) /\ Len(s) = m + Len(x) + 1 /\ s[m + 1] = h
      /\ \A k \in 1 .. m : s[k] = a[k]
      /\ \A k \in 1 .. Len(x) : s[m + k + 1] = x[k]
  <2>1. /\ s \in Seq(Numbers) /\ Len(s) = m + Len(hx)
        /\ \A k \in 1 .. m + Len(hx) : s[k] = IF k <= m THEN a[k] ELSE hx[k - m]
    BY <1>1, ConcatProperties
  <2> HIDE DEF s, m
  <2>2. s[m + 1] = h
    <3>1. m + 1 \in 1 .. m + Len(hx) /\ ~(m + 1 <= m) /\ (m + 1) - m = 1
      BY <1>1
    <3> QED
      BY <1>1, <2>1, <3>1
  <2>3. \A k \in 1 .. m : s[k] = a[k]
    BY <1>1, <2>1
  <2>4. ASSUME NEW k \in 1 .. Len(x) PROVE s[m + k + 1] = x[k]
    <3>1. /\ m + k + 1 \in 1 .. m + Len(hx) /\ ~(m + k + 1 <= m)
          /\ (m + k + 1) - m = k + 1
      BY <1>1
    <3> QED
      BY <1>1, <2>1, <3>1
  <2> QED
    BY <1>1, <2>1, <2>2, <2>3, <2>4
<1>3. /\ Len(z) = m + Len(x)
      /\ \A k \in 1 .. m + Len(x) : z[k] = IF k <= m THEN a[k] ELSE x[k - m]
  BY ConcatProperties
<1>4. AccountsFor(s, n, gone)
  BY DEF hx
<1> HIDE DEF s, z, m
<1>5. ASSUME NEW k \in 1 .. Len(z)
      PROVE  At(k) \in 1 .. Len(s) /\ At(k) # m + 1 /\ z[k] = s[At(k)]
  <2>1. CASE k <= m
    <3>1. At(k) = k /\ k \in 1 .. m /\ k \in 1 .. m + Len(x)
      BY <1>1, <1>3, <2>1
    <3>2. z[k] = a[k] /\ s[k] = a[k]
      BY <1>2, <1>3, <2>1, <3>1
    <3>3. k \in 1 .. Len(s) /\ k # m + 1
      BY <1>1, <1>2, <3>1
    <3> QED
      BY <3>1, <3>2, <3>3
  <2>2. CASE k > m
    <3>1. k - m \in 1 .. Len(x) /\ At(k) = m + (k - m) + 1
      BY <1>1, <1>3, <2>2
    <3>2. s[m + (k - m) + 1] = x[k - m]
      BY <1>2, <3>1
    <3> QED
      BY <1>1, <1>2, <1>3, <2>2, <3>1, <3>2
  <2> QED
    BY <1>1, <1>3, <2>1, <2>2
<1>6. \A j, k \in 1 .. Len(z) : j < k => At(j) < At(k)
  BY <1>1, <1>3
<1>7. ASSUME NEW k \in 1 .. Len(s), k # m + 1
      PROVE  \E j \in 1 .. Len(z) : At(j) = k
  <2>1. CASE k <= m
    BY <1>1, <1>2, <1>3, <2>1
  <2>2. CASE k > m
    <3>1. k - 1 \in 1 .. Len(z) /\ At(k - 1) = k
      BY <1>1, <1>2, <1>3, <1>7, <2>2
    <3> QED
      BY <3>1
  <2> QED
    BY <1>1, <1>2, <2>1, <2>2
<1> HIDE DEF At
<1>8. \A k \in 1 .. Len(s) : k # m + 1 => s[k] # h
  <2>1. m + 1 \in 1 .. Len(s) /\ s[m + 1] \in Int
    BY <1>1, <1>2 DEF Numbers
  <2> SUFFICES ASSUME NEW k \in 1 .. Len(s), k # m + 1 PROVE s[k] # s[m + 1]
    BY <1>2
  <2>2. s[k] \in Numbers
    BY <1>2
  <2>3. s[k] \in Int /\ (k < m + 1 \/ m + 1 < k)
    BY <1>1, <2>2 DEF Numbers
  <2>4. (k < m + 1 => s[k] < s[m + 1]) /\ (m + 1 < k => s[m + 1] < s[k])
    BY <1>4, <2>1 DEF AccountsFor
  <2> QED
    BY <2>1, <2>3, <2>4
<1>9. {z[k] : k \in 1 .. Len(z)} = {s[k] : k \in 1 .. Len(s)} \ {h}
  <2>1. ASSUME NEW k \in 1 .. Len(z) PROVE z[k] \in {s[j] : j \in 1 .. Len(s)} \ {h}
    BY <1>5, <1>8
  <2>2. ASSUME NEW k \in 1 .. Len(s), s[k] # h PROVE s[k] \in {z[j] : j \in 1 .. Len(z)}
    <3>1. PICK j \in 1 .. Len(z) : At(j) = k
      BY <1>2, <1>7, <2>2
    <3> QED
      BY <1>5, <3>1
  <2> QED
    BY <2>1, <2>2
<1>10. \A j, k \in 1 .. Len(z) : j < k => z[j] < z[k]
  BY <1>4, <1>5, <1>6 DEF AccountsFor
<1>11. h \in 1 .. n
  <2>1. m + 1 \in 1 .. Len(s)
    BY <1>1, <1>2
  <2> QED
    BY <1>2, <1>4, <2>1 DEF AccountsFor
<1>12. AccountsFor(z, n, gone \cup {h})
  BY <1>4, <1>9, <1>10 DEF AccountsFor
<1> QED
  BY <1>11, <1>12 DEF z

\* The bytes on their way to the tasks, from the moment one is copied.
Held     == Contents(Settled)
WithIsr  == IF isr = "put" THEN <<d>> ELSE <<>>
InUsart  == IF rxne THEN <<rdr>> ELSE <<>>
Coming   == Held \o WithIsr \o InUsart
Gone     == overrun \cup displaced

Accounted ==
  /\ isr = "recv" => rxne
  /\ Gone \subseteq 1 .. arrived
  /\ AccountsFor(taken \o Coming, arrived, Gone)

\* What is on its way are sequences of bytes.
LEMMA ComingTypes ==
  ASSUME UInv
  PROVE  /\ Held \in Seq(Numbers) /\ WithIsr \in Seq(Numbers)
         /\ InUsart \in Seq(Numbers) /\ taken \in Seq(Numbers)
         /\ d \in Numbers /\ rdr \in Numbers /\ arrived \in Numbers
<1>1. RingOK(Settled) /\ d \in Numbers /\ rdr \in Numbers /\ taken \in Seq(Numbers)
      /\ arrived \in Numbers
  BY DEF UInv, RingAgrees, UTypeOK
<1>2. Held \in Seq(Numbers)
  BY <1>1, ContentsType, BytesAssumption DEF Held
<1> QED
  BY <1>1, <1>2 DEF WithIsr, InUsart

LEMMA ArriveAccounted ==
  ASSUME UInv, Accounted, Arrive
  PROVE  Accounted'
<1> USE DEF usart, handler, threads, log
<1>1. UNCHANGED <<Held, WithIsr, taken, isr, displaced>> /\ rxne' /\ arrived' = arrived + 1
  BY DEF Arrive, Held, WithIsr, Settled, BetweenUpdates
<1>2. arrived \in Nat /\ arrived + 1 \in Numbers
  BY ComingTypes DEF Arrive, Numbers
<1> DEFINE s == taken \o Coming
<1>3. s \in Seq(Numbers) /\ AccountsFor(s, arrived, Gone) /\ Gone \subseteq 1 .. arrived
  BY ComingTypes, ConcatProperties DEF Accounted, Coming
<1>4. Gone \cup {arrived + 1} \subseteq 1 .. arrived + 1 /\ Gone \subseteq 1 .. arrived + 1
  BY <1>2, <1>3
<1>5. CASE rxne
  <2>1. UNCHANGED <<rdr, rxne>> /\ overrun' = overrun \cup {arrived + 1}
    BY <1>1, <1>5 DEF Arrive
  <2>2. Gone' = Gone \cup {arrived + 1} /\ UNCHANGED Coming
    BY <1>1, <1>5, <2>1 DEF Gone, Coming, InUsart
  <2>3. AccountsFor(s, arrived + 1, Gone \cup {arrived + 1})
    BY <1>2, <1>3, OneMoreArrived
  <2> QED
    BY <1>1, <1>4, <2>2, <2>3 DEF Accounted
<1>6. CASE ~rxne
  <2>1. rdr' = arrived + 1 /\ overrun' = overrun
    BY <1>1, <1>6 DEF Arrive
  <2>2. Gone' = Gone /\ Coming = Held \o WithIsr
    BY <1>1, <1>6, <2>1, ComingTypes, ConcatProperties, ConcatEmptySeq
      DEF Gone, Coming, InUsart
  <2>3. Coming' = Coming \o <<arrived + 1>>
    BY <1>1, <1>6, <2>1, <2>2 DEF Coming, InUsart
  <2>4. taken' \o Coming' = s \o <<arrived + 1>>
    <3>1. /\ taken \in Seq(Numbers) /\ Coming \in Seq(Numbers)
          /\ <<arrived + 1>> \in Seq(Numbers)
      BY <1>2, <2>2, ComingTypes, ConcatProperties
    <3>2. taken \o (Coming \o <<arrived + 1>>) = s \o <<arrived + 1>>
      BY <3>1, ConcatAssociative
    <3> QED
      BY <1>1, <2>3, <3>2
  <2>5. AccountsFor(s \o <<arrived + 1>>, arrived + 1, Gone)
    BY <1>2, <1>3, OneMoreArrived
  <2> QED
    BY <1>1, <1>4, <2>2, <2>4, <2>5 DEF Accounted
<1> QED
  BY <1>5, <1>6

\* The byte goes from the data register to d, and from d into the buffer.
LEMMA ReceiveAccounted ==
  ASSUME UInv, Accounted, Receive
  PROVE  Accounted'
<1> USE DEF usart, handler, threads, log
<1>1. /\ UNCHANGED <<Held, taken, arrived, overrun, displaced>>
      /\ isr = "recv" /\ isr' = "put" /\ d' = rdr /\ ~rxne'
  BY DEF Receive, Held, Settled, BetweenUpdates
<1>2. rxne
  BY <1>1 DEF Accounted
<1>3. Coming = (Held \o <<>>) \o <<rdr>> /\ Coming' = (Held \o <<rdr>>) \o <<>>
  BY <1>1, <1>2 DEF Coming, WithIsr, InUsart
<1>4. Coming' = Coming
  <2>1. Held \in Seq(Numbers) /\ <<rdr>> \in Seq(Numbers)
    BY ComingTypes
  <2>2. Held \o <<>> = Held /\ (Held \o <<rdr>>) \o <<>> = Held \o <<rdr>>
    BY <2>1, ConcatProperties, ConcatEmptySeq
  <2> QED
    BY <1>3, <2>2
<1> QED
  BY <1>1, <1>4 DEF Accounted, Gone

LEMMA PutAccounted ==
  ASSUME UInv, Accounted, Put
  PROVE  Accounted'
<1> USE DEF usart, handler, threads, log
<1>1. /\ UNCHANGED <<InUsart, taken, arrived, overrun>>
      /\ isr = "put" /\ isr' = "idle" /\ rb' = PutByte(rb, d)
      /\ displaced' = IF Full(rb) THEN displaced \cup {rb.data[rb.start]} ELSE displaced
  BY DEF Put, InUsart
<1>2. Settled = rb /\ Settled' = rb'
  BY DEF UInv, MaskedAlone, Put, Settled, BetweenUpdates, Masked
<1>3. rb \in RingType /\ RingOK(rb) /\ Attached(rb) /\ d \in Bytes
  BY <1>2, TypedFields, BytesAssumption DEF UInv, RingAgrees, UTypeOK
<1>4. /\ Held \in Seq(Numbers) /\ InUsart \in Seq(Numbers) /\ taken \in Seq(Numbers)
      /\ <<d>> \in Seq(Numbers) /\ <<>> \in Seq(Numbers) /\ arrived \in Nat
  BY ComingTypes DEF Numbers
<1>5. Coming = (Held \o <<d>>) \o InUsart
  BY <1>1 DEF Coming, WithIsr
<1>6. CASE ~Full(rb)
  <2>1. Held' = Append(Held, d)
    BY <1>1, <1>2, <1>3, <1>6, PutAppends DEF Held
  <2>2. Held' = Held \o <<d>>
    BY <1>3, <1>4, <2>1, AppendIsConcat, BytesAssumption
  <2>3. Coming' = ((Held \o <<d>>) \o <<>>) \o InUsart
    BY <1>1, <2>2 DEF Coming, WithIsr
  <2>4. (Held \o <<d>>) \o <<>> = Held \o <<d>>
    BY <1>4, ConcatProperties, ConcatEmptySeq
  <2>5. Coming' = Coming /\ Gone' = Gone
    BY <1>1, <1>5, <1>6, <2>3, <2>4 DEF Gone
  <2> QED
    BY <1>1, <2>5 DEF Accounted
<1>7. CASE Full(rb)
  <2> DEFINE h == Head(Held)
             rest == Tail(Held)
             later == (rest \o <<d>>) \o InUsart
  <2>1. ~Empty(rb)
    BY <1>7 DEF Full, Empty
  <2>2. Held # <<>> /\ rb.data[rb.start] = h
    BY <1>2, <1>3, <2>1, GetTakesHead DEF Held
  <2>3. Held' = Append(rest, d)
    BY <1>1, <1>2, <1>3, <1>7, PutDisplaces DEF Held
  <2>4. h \in Numbers /\ rest \in Seq(Numbers) /\ Held = <<h>> \o rest
    BY <1>4, <2>2, HeadTailProperties
  <2> HIDE DEF h, rest
  <2>5. Held' = rest \o <<d>> /\ rest \o <<d>> \in Seq(Numbers) /\ later \in Seq(Numbers)
    BY <1>3, <1>4, <2>3, <2>4, AppendIsConcat, ConcatProperties, BytesAssumption
  <2>6. Coming' = later
    <3>1. (rest \o <<d>>) \o <<>> = rest \o <<d>>
      BY <2>5, ConcatEmptySeq
    <3> QED
      BY <1>1, <2>5, <3>1 DEF Coming, WithIsr
  <2>7. Coming = <<h>> \o later
    <3>1. <<h>> \in Seq(Numbers)
      BY <2>4
    <3>2. Held \o <<d>> = <<h>> \o (rest \o <<d>>)
      BY <1>4, <2>4, <3>1, ConcatAssociative
    <3>3. (<<h>> \o (rest \o <<d>>)) \o InUsart = <<h>> \o later
      BY <1>4, <2>5, <3>1, ConcatAssociative
    <3> QED
      BY <1>5, <3>2, <3>3
  <2>8. Gone' = Gone \cup {h}
    BY <1>1, <1>7, <2>2 DEF Gone
  <2> HIDE DEF later
  <2>9. AccountsFor(taken \o (<<h>> \o later), arrived, Gone)
    BY <2>7 DEF Accounted
  <2>10. h \in 1 .. arrived /\ AccountsFor(taken \o later, arrived, Gone \cup {h})
    BY <1>4, <2>4, <2>5, <2>9, OneTakenOut
  <2> QED
    BY <1>1, <2>6, <2>8, <2>10 DEF Accounted
<1> QED
  BY <1>6, <1>7

\* A task takes the oldest byte.
LEMMA GetAccounted ==
  ASSUME UInv, Accounted, NEW t \in Callers, Get(t), ~Empty(rb)
  PROVE  Accounted'
<1> USE DEF usart, handler, threads, log
<1>1. /\ UNCHANGED <<WithIsr, InUsart, isr, rxne, arrived, overrun, displaced>>
      /\ at[t] = "look" /\ call[t] = "read" /\ at'[t] = "store" /\ call' = call
      /\ taken' = Append(taken, rb.data[rb.start])
      /\ rb' = [rb EXCEPT !.start = Wrap(rb, rb.start + 1)]
  BY DEF Get, WithIsr, InUsart, UInv, UTypeOK
<1>2. ~BetweenUpdates /\ BetweenUpdates'
  <2>1. BetweenUpdates'
    BY <1>1 DEF BetweenUpdates
  <2> QED
    BY <1>1, <2>1 DEF UInv, MaskedAlone, BetweenUpdates, Masked
<1>3. rb \in RingType /\ RingOK(rb) /\ Attached(rb)
  BY <1>2, TypedFields DEF UInv, RingAgrees, Settled
<1>4. Settled = rb /\ Settled' = DropByte(rb)
  BY <1>1, <1>2, <1>3, GetKeepsRing DEF Settled
<1> DEFINE h == Head(Held)
           later == Held' \o WithIsr \o InUsart
<1>5. Held # <<>> /\ rb.data[rb.start] = h /\ Held' = Tail(Held)
  BY <1>3, <1>4, GetTakesHead DEF Held
<1>6. h \in Numbers /\ Held' \in Seq(Numbers) /\ Held = <<h>> \o Held'
  BY <1>5, ComingTypes, HeadTailProperties
<1> HIDE DEF h
<1>7. /\ <<h>> \in Seq(Numbers) /\ Held' \o WithIsr \in Seq(Numbers)
      /\ later \in Seq(Numbers)
  BY <1>6, ComingTypes, ConcatProperties
<1>8. Coming' = later /\ Gone' = Gone
  BY <1>1 DEF Coming, Gone
<1>9. Coming = <<h>> \o later
  <2>1. Held \o WithIsr = <<h>> \o (Held' \o WithIsr)
    BY <1>6, <1>7, ComingTypes, ConcatAssociative
  <2>2. (<<h>> \o (Held' \o WithIsr)) \o InUsart = <<h>> \o later
    BY <1>7, ComingTypes, ConcatAssociative
  <2> QED
    BY <2>1, <2>2 DEF Coming
<1> HIDE DEF later
<1>10. taken' \o Coming' = taken \o Coming
  <2>1. taken' = taken \o <<h>>
    BY <1>1, <1>5, <1>6, ComingTypes, AppendIsConcat
  <2>2. (taken \o <<h>>) \o later = taken \o (<<h>> \o later)
    <3>1. taken \in Seq(Numbers)
      BY ComingTypes
    <3> QED
      BY <1>7, <3>1, ConcatAssociative
  <2> QED
    BY <1>8, <1>9, <2>1, <2>2
<1> QED
  BY <1>1, <1>8, <1>10 DEF Accounted

LEMMA NextAccounted ==
  ASSUME UInv, Accounted, [UNext]_uvars
  PROVE  Accounted'
<1> USE DEF usart, handler, threads, log
<1>1. ASSUME UNCHANGED <<Settled, WithIsr, rxne, rdr, taken, arrived, overrun, displaced>>,
             isr' = "recv" => rxne'
      PROVE  Accounted'
  BY <1>1 DEF Accounted, Coming, Held, InUsart, Gone
<1>2. CASE Shift \/ EnterIsr \/ TestRxne \/ UNCHANGED uvars
  BY <1>1, <1>2 DEF Shift, EnterIsr, TestRxne, uvars, Settled, BetweenUpdates, WithIsr, Accounted
<1>3. ASSUME NEW t \in Callers, NEW c \in Calls, Begin(t, c)
      PROVE  Accounted'
  <2>1. /\ UNCHANGED <<rb, isr, d, rxne, rdr, taken, arrived, overrun, displaced>>
        /\ at'[t] = "look" /\ \A u \in Callers \ {t} : at'[u] = at[u] /\ call'[u] = call[u]
        /\ at[t] = "out"
    BY <1>3 DEF Begin, UInv, UTypeOK
  <2>2. BetweenUpdates' <=> BetweenUpdates
    BY <2>1 DEF BetweenUpdates
  <2> QED
    BY <1>1, <2>1, <2>2 DEF Settled, WithIsr, Accounted
<1>4. ASSUME NEW t \in Callers, StoreLen(t)
      PROVE  Accounted'
  <2>1. /\ UNCHANGED <<isr, d, rxne, rdr, taken, arrived, overrun, displaced, call>>
        /\ at[t] = "store" /\ call[t] = "read" /\ at'[t] = "leave"
        /\ \A u \in Callers \ {t} : at'[u] = at[u]
        /\ rb' = [rb EXCEPT !.current_len = saw[t] - 1]
    BY <1>4 DEF StoreLen, UInv, UTypeOK
  <2>2. BetweenUpdates /\ ~BetweenUpdates' /\ saw[t] = rb.current_len
    BY <2>1 DEF UInv, MaskedAlone, RingAgrees, Reading, BetweenUpdates, Masked
  <2> QED
    BY <1>1, <2>1, <2>2 DEF Settled, WithIsr, Accounted
<1>5. ASSUME NEW t \in Callers,
             Ask(t) \/ TestTxe(t) \/ Send(t) \/ Leave(t) \/ Return(t) \/ (Get(t) /\ Empty(rb))
      PROVE  Accounted'
  <2>1. /\ UNCHANGED <<rb, isr, d, rxne, rdr, taken, arrived, overrun, displaced, call>>
        /\ \A u \in Callers \ {t} : at'[u] = at[u]
    BY <1>5 DEF Ask, TestTxe, Send, Leave, Return, Get, UInv, UTypeOK
  <2>2. /\ ~(at[t] = "store" /\ call[t] = "read")
        /\ ~(at'[t] = "store" /\ call[t] = "read")
    <3>1. CASE TestTxe(t) \/ Send(t)
      BY <2>1, <3>1 DEF TestTxe, Send
    <3>2. CASE ~TestTxe(t) /\ ~Send(t)
      <4>1. at[t] # "store"
        BY <1>5, <3>2 DEF Ask, Leave, Return, Get
      <4>2. at \in [Callers -> Stages] /\ \E p \in {"leave", "return", "out"} :
              at' = [at EXCEPT ![t] = p]
        BY <1>5, <3>2 DEF Ask, Leave, Return, Get, UInv, UTypeOK
      <4>3. at'[t] # "store"
        BY <4>2
      <4> QED
        BY <4>1, <4>3
    <3> QED
      BY <3>1, <3>2
  <2>3. BetweenUpdates' <=> BetweenUpdates
    BY <2>1, <2>2 DEF BetweenUpdates
  <2> QED
    BY <1>1, <2>1, <2>3 DEF Settled, WithIsr, Accounted
<1> QED
  BY <1>2, <1>3, <1>4, <1>5, ArriveAccounted, ReceiveAccounted, PutAccounted, GetAccounted
  DEF UNext, Isr, InCall

\* Every byte that came in reaches a task once and in order, unless the USART
\* or a full ring buffer has taken it away.
THEOREM NothingIsLost == USpec => []NothingElseIsLost
<1>1. UInit => Accounted
  <2> SUFFICES ASSUME UInit PROVE Accounted
    OBVIOUS
  <2>1. Settled = rb /\ rb = InitRing([k \in 0 .. BufferSize - 1 |-> 0], BufferSize)
    BY DEF UInit, Settled, BetweenUpdates
  <2>2. [k \in 0 .. BufferSize - 1 |-> 0] \in [0 .. BufferSize - 1 -> Bytes]
    BY BytesAssumption DEF Numbers
  <2>3. Held = <<>>
    BY <2>1, <2>2, InitUInv, SetUpRing DEF Held, UInv, RingAgrees
  <2>4. taken \o Coming = <<>>
    BY <2>3 DEF UInit, Coming, WithIsr, InUsart
  <2>5. AccountsFor(<<>>, 0, {})
    BY DEF AccountsFor
  <2> QED
    BY <2>4, <2>5 DEF UInit, Accounted, Gone
<1>2. Accounted => NothingElseIsLost
  BY DEF Accounted, NothingElseIsLost, Coming, Underway, Held, Settled, WithIsr, InUsart, Gone
<1> QED
  BY <1>1, <1>2, NextAccounted, UInvariant, PTL DEF USpec
=============================================================================
