------------------------ MODULE YosApplicationProofs ------------------------
(***************************************************************************)
(* Proofs about YIic as the tasks of YosApplication use it, for every      *)
(* length of the transactions and whatever is measured: the bytes of a     *)
(* transaction are its own, although nothing but the mutex keeps the tasks *)
(* apart and the peripheral may still be at the end of the last one, and   *)
(* no loop waits for a flag that nothing is going to set. And about the    *)
(* readings, for every number of them: wrong bits of a frame are noticed,  *)
(* what a whole one stands for is computed from it, what is shown was      *)
(* measured, and the humidity is not far behind the temperature.           *)
(***************************************************************************)
EXTENDS YosApplication, SequenceTheorems, TLAPS

USE UsersAssumption, SlavesAssumption, LenAssumption, LengthsAssumption
-----------------------------------------------------------------------------
(***************************************************************************)
(* The inductive invariant of the bus.                                     *)
(***************************************************************************)
CountTo(n) == [k \in 1 .. n |-> k]

\* The frame on the bus is that of t's transaction, with n bytes so far.
Framed(t, n) ==
  frame = [by |-> t, slave |-> job[t].slave, type |-> job[t].type, bytes |-> CountTo(n)]

\* Who has the mutex is in a transaction, and nobody else is.
OneOnTheBus ==
  /\ \A t \in Users : at[t] \in Holding <=> t \in inside
  /\ \A t, u \in inside : t = u

\* A transaction and how far it has got.
InTransaction ==
  /\ job \in [Users -> Jobs \cup {NoJob}] /\ count \in [Users -> Nat]
  /\ \A t \in Users :
       /\ at[t] # "out" => job[t] \in Jobs
       /\ at[t] \in {"lock", "type", "idle", "start", "ack", "select", "addr"} => count[t] = 0
       /\ at[t] \in {"btf", "rxne"} => count[t] < job[t].len
       /\ at[t] \in Holding \ {"type"} => current_tran_type = job[t].type

\* No condition is under way but perhaps the stop of the last transaction,
\* before which more bytes may still be received.
NothingStarted == ~bus.start /\ ~bus.sb
NothingSent    == ~bus.addr /\ bus.wire = "nothing"
Leftover       == bus.more => bus.stop /\ (~bus.rxne => bus.dr <= MaxLen)

Before == inside = {} => NothingStarted /\ NothingSent /\ Leftover

\* The peripheral and the frame, at each place of the task that has the bus.
Starting(t) ==
  /\ at[t] \in {"type", "idle", "start"} => NothingStarted /\ NothingSent /\ Leftover
  /\ at[t] \in {"ack", "select"} =>
       /\ NothingSent /\ Leftover
       /\ bus.start \/ bus.sb
       /\ bus.sb => ~bus.start /\ ~bus.stop

Addressing(t) ==
  at[t] = "addr" =>
    /\ NothingStarted /\ ~bus.stop /\ ~bus.rxne /\ ~bus.shift /\ Framed(t, 0)
    /\ IF bus.addr
       THEN bus.wire = "nothing" /\ bus.dr = 0 /\ (bus.more => job[t].type = "receive")
       ELSE bus.wire = "address" /\ ~bus.more

Moving(t) ==
  at[t] \in {"data", "btf", "rxne"} =>
    /\ NothingStarted /\ ~bus.stop /\ ~bus.addr
    /\ at[t] # "btf" => bus.wire = "nothing" /\ Framed(t, count[t])
    /\ at[t] = "btf" => /\ IF bus.btf THEN bus.wire = "nothing" ELSE bus.wire = "byte"
                        /\ Framed(t, count[t] + 1)
    /\ IF job[t].type = "transmit"
       THEN at[t] # "rxne" /\ ~bus.more
       ELSE /\ at[t] # "btf" /\ bus.dr = count[t] + (IF bus.rxne THEN 1 ELSE 0)
            /\ bus.shift => bus.rxne

Stopping(t) ==
  at[t] = "unlock" =>
    NothingStarted /\ NothingSent /\ Leftover /\ Framed(t, job[t].len)

Phase(t) == Starting(t) /\ Addressing(t) /\ Moving(t) /\ Stopping(t)

IicInv ==
  /\ IicTypeOK /\ OneOnTheBus /\ InTransaction /\ Before
  /\ \A t \in Users : Phase(t)
-----------------------------------------------------------------------------
(***************************************************************************)
(* It holds at first, and every access to the bus keeps it.                *)
(***************************************************************************)
Bus ==
  [start : BOOLEAN, stop : BOOLEAN, busy : BOOLEAN, sb : BOOLEAN,
   addr : BOOLEAN, btf : BOOLEAN, rxne : BOOLEAN, ack : BOOLEAN,
   wire : {"nothing", "address", "byte"}, more : BOOLEAN, dr : 0 .. MaxLen + 1,
   shift : BOOLEAN]

\* What a transaction may do to the variables of YIic.
IicStep ==
  \/ Hardware
  \/ \E t \in Users : \/ \E j \in Jobs : TransStart(t, j)
                      \/ BusStep(t) \/ GetData(t) \/ Unlock(t)

\* The bytes counted to n and one more.
LEMMA CountOneMore ==
  ASSUME NEW n \in Nat
  PROVE  Append(CountTo(n), n + 1) = CountTo(n + 1)
<1>1. CountTo(n) \in Seq(Nat) /\ Len(CountTo(n)) = n
  BY DEF CountTo
<1>2. CountTo(n + 1) \in Seq(Nat) /\ Len(CountTo(n + 1)) = n + 1
  BY DEF CountTo
<1>3. Append(CountTo(n), n + 1) \in Seq(Nat) /\ Len(Append(CountTo(n), n + 1)) = n + 1
  BY <1>1
<1>4. \A k \in 1 .. n + 1 : Append(CountTo(n), n + 1)[k] = CountTo(n + 1)[k]
  BY <1>1 DEF CountTo
<1> QED
  BY <1>2, <1>3, <1>4, SeqEqual

LEMMA InitIicInv == IicInit => IicInv
<1> SUFFICES ASSUME IicInit PROVE IicInv
  OBVIOUS
<1>1. \A t \in Users : at[t] = "out" /\ job[t] = NoJob /\ count[t] = 0
  BY DEF IicInit
<1>2. bus \in Bus /\ bus = IdleBus
  BY DEF IicInit, IdleBus, Bus
<1>3. IicTypeOK
  BY <1>1, <1>2 DEF IicInit, IicTypeOK, M!MInit, Types, NoJob, Bus
<1>4. OneOnTheBus /\ InTransaction
  BY <1>1 DEF OneOnTheBus, InTransaction, IicInit, M!MInit, Holding
<1>5. Before
  BY <1>2 DEF Before, NothingStarted, NothingSent, Leftover, IdleBus
<1>6. \A t \in Users : Phase(t)
  BY <1>1 DEF Phase, Starting, Addressing, Moving, Stopping
<1> QED
  BY <1>3, <1>4, <1>5, <1>6 DEF IicInv

\* Only the places of a task that has the bus say anything of it.
LEMMA NotHolding ==
  ASSUME NEW t \in Users, at[t] \notin Holding
  PROVE  Phase(t)
BY DEF Phase, Starting, Addressing, Moving, Stopping, Holding

LEMMA NotHoldingNext ==
  ASSUME NEW t \in Users, at'[t] \notin Holding
  PROVE  Phase(t)'
BY DEF Phase, Starting, Addressing, Moving, Stopping, Holding

\* The peripheral changes only its flags.
LEMMA HardwareTypes ==
  ASSUME IicInv, Hardware
  PROVE  bus' \in Bus
<1>1. bus \in Bus
  BY DEF IicInv, IicTypeOK, Bus
<1>2. CASE ByteReceived
  <2>1. ~bus.rxne => bus.dr <= MaxLen
    <3> SUFFICES ASSUME ~bus.rxne PROVE bus.dr <= MaxLen
      OBVIOUS
    <3>1. CASE inside = {}
      BY <1>2, <3>1 DEF IicInv, Before, Leftover, ByteReceived
    <3>2. CASE inside # {}
      <4>1. PICK t \in Users : t \in inside /\ at[t] \in Holding
        BY <3>2 DEF IicInv, IicTypeOK, OneOnTheBus
      <4>2. job[t] \in Jobs /\ count[t] \in 0 .. job[t].len
        BY <4>1 DEF IicInv, IicTypeOK, InTransaction, Holding
      <4>3. Phase(t)
        BY DEF IicInv
      <4>4. bus.more /\ ~bus.addr /\ ~bus.rxne
        BY <1>2 DEF ByteReceived
      <4>5. CASE at[t] \in {"type", "idle", "start", "ack", "select", "unlock"}
        BY <4>3, <4>4, <4>5 DEF Phase, Starting, Stopping, Leftover
      <4>6. at[t] # "addr"
        BY <4>3, <4>4 DEF Phase, Addressing
      <4>7. CASE at[t] \in {"data", "btf", "rxne"}
        <5>1. job[t].type # "transmit" /\ bus.dr = count[t] + (IF bus.rxne THEN 1 ELSE 0)
          BY <4>3, <4>4, <4>7 DEF Phase, Moving
        <5>2. bus.dr = count[t]
          BY <4>2, <4>4, <5>1 DEF IicInv, IicTypeOK
        <5>3. job[t].len \in 1 .. MaxLen
          BY <4>2 DEF Jobs
        <5> QED
          BY <4>2, <5>2, <5>3
      <4> QED
        BY <4>1, <4>5, <4>6, <4>7 DEF Holding
    <3> QED
      BY <3>1, <3>2
  <2> DEFINE d == IF bus.rxne THEN bus.dr ELSE bus.dr + 1
  <2>2. d \in 0 .. MaxLen + 1 /\ bus.ack \in BOOLEAN /\ bus.rxne \in BOOLEAN
    BY <1>1, <2>1 DEF Bus
  <2>3. bus' = [bus EXCEPT !.rxne = TRUE, !.more = bus.ack, !.shift = bus.rxne, !.dr = d]
    BY <1>1, <1>2 DEF ByteReceived, Bus
  <2> HIDE DEF d
  <2> QED
    BY <1>1, <2>2, <2>3 DEF Bus
<1>3. CASE StartDone
  BY <1>1, <1>3 DEF StartDone, Bus
<1>5. CASE StopDone
  BY <1>1, <1>5 DEF StopDone, Bus
<1>6. CASE ByteSent
  BY <1>1, <1>6 DEF ByteSent, Bus
<1>4. CASE AddressDone
  <2> DEFINE b == frame.type = "receive"
  <2>1. b \in BOOLEAN
    OBVIOUS
  <2> HIDE DEF b
  <2>2. bus' = [bus EXCEPT !.wire = "nothing", !.addr = TRUE, !.more = b, !.dr = 0]
    BY <1>4 DEF AddressDone, b
  <2>3. 0 \in 0 .. MaxLen + 1
    OBVIOUS
  <2> QED
    BY <1>1, <2>1, <2>2, <2>3 DEF Bus
<1> QED
  BY <1>2, <1>3, <1>4, <1>5, <1>6 DEF Hardware

\* What it changes, flag by flag.
FlagsKept(flags) == \A f \in flags : bus'[f] = bus[f]

LEMMA HardwareFlags ==
  ASSUME bus \in Bus, Hardware
  PROVE  \/ /\ bus.start /\ ~bus.stop /\ ~bus'.start /\ bus'.sb
            /\ FlagsKept({"stop", "addr", "btf", "rxne", "wire", "more", "dr", "shift"})
         \/ /\ bus.wire = "address" /\ bus'.wire = "nothing" /\ bus'.addr /\ bus'.dr = 0
            /\ (bus'.more => frame.type = "receive")
            /\ FlagsKept({"start", "stop", "sb", "btf", "rxne", "shift"})
         \/ /\ bus.wire = "byte" /\ bus'.wire = "nothing" /\ bus'.btf
            /\ FlagsKept({"start", "stop", "sb", "addr", "rxne", "more", "dr", "shift"})
         \/ /\ bus.more /\ ~bus.addr /\ bus'.rxne /\ bus'.shift = bus.rxne
            /\ bus'.dr = IF bus.rxne THEN bus.dr ELSE bus.dr + 1
            /\ FlagsKept({"start", "stop", "sb", "addr", "btf", "wire"})
         \/ /\ bus.stop /\ ~bus'.stop /\ ~bus'.more
            /\ FlagsKept({"start", "sb", "addr", "btf", "rxne", "wire", "dr", "shift"})
<1>1. CASE StartDone
  BY <1>1 DEF StartDone, Bus, FlagsKept
<1>2. CASE AddressDone
  BY <1>2 DEF AddressDone, Bus, FlagsKept
<1>3. CASE ByteSent
  BY <1>3 DEF ByteSent, Bus, FlagsKept
<1>4. CASE ByteReceived
  BY <1>4 DEF ByteReceived, Bus, FlagsKept
<1>5. CASE StopDone
  BY <1>5 DEF StopDone, Bus, FlagsKept
<1> QED
  BY <1>1, <1>2, <1>3, <1>4, <1>5 DEF Hardware

LEMMA HardwareKeepsBus ==
  ASSUME IicInv, Hardware
  PROVE  IicInv'
<1>1. bus \in Bus /\ bus' \in Bus
  BY HardwareTypes DEF IicInv, IicTypeOK, Bus
<1>2. UNCHANGED <<inside, current_tran_type, at, job, count, frame>>
  BY DEF Hardware
<1>3. IicTypeOK' /\ OneOnTheBus' /\ InTransaction'
  BY <1>1, <1>2 DEF IicInv, IicTypeOK, OneOnTheBus, InTransaction, Bus
<1>4. Before'
  BY <1>1, <1>2, HardwareFlags DEF IicInv, Before, NothingStarted, NothingSent, Leftover,
    FlagsKept
<1>5. ASSUME NEW t \in Users PROVE Phase(t)'
  <2> USE DEF NothingStarted, NothingSent, Leftover
  <2>1. Phase(t)
    BY DEF IicInv
  <2>2. Starting(t)'
    BY <1>1, <1>2, <2>1, HardwareFlags DEF Phase, Starting, FlagsKept
  <2>3. Addressing(t)'
    <3> SUFFICES ASSUME at[t] = "addr" PROVE Addressing(t)'
      BY <1>2 DEF Addressing
    <3>1. Addressing(t) /\ Framed(t, 0) /\ Framed(t, 0)'
      BY <1>2, <2>1 DEF Phase, Addressing, Framed
    <3>2. CASE AddressDone
      <4>1. frame.type = job[t].type
        BY <3>1 DEF Framed
      <4>2. /\ bus'.addr /\ bus'.wire = "nothing" /\ bus'.dr = 0 /\ bus'.start = bus.start
            /\ bus'.sb = bus.sb /\ bus'.stop = bus.stop /\ bus'.rxne = bus.rxne
            /\ bus'.shift = bus.shift
            /\ bus'.more => frame.type = "receive"
        BY <1>1, <3>2 DEF AddressDone, Bus
      <4> QED
        BY <1>2, <3>1, <4>1, <4>2 DEF Addressing
    <3>3. ~StartDone /\ ~StopDone /\ ~ByteSent /\ ~ByteReceived
      BY <3>1 DEF Addressing, StartDone, StopDone, ByteSent, ByteReceived
    <3> QED
      BY <3>2, <3>3 DEF Hardware
  <2>4. Moving(t)'
    <3> SUFFICES ASSUME at[t] \in {"data", "btf", "rxne"} PROVE Moving(t)'
      BY <1>2 DEF Moving
    <3>1. Moving(t)
      BY <2>1 DEF Phase
    <3>2. ~StartDone /\ ~StopDone /\ ~AddressDone
      BY <3>1 DEF Moving, StartDone, StopDone, AddressDone
    <3>3. \A n : Framed(t, n)' = Framed(t, n)
      BY <1>2 DEF Framed
    <3>4. CASE ByteSent
      BY <1>1, <1>2, <3>1, <3>3, <3>4 DEF Moving, ByteSent, Framed, Bus, NothingStarted
    <3>5. CASE ByteReceived
      <4>1. count[t] \in Int
        BY DEF IicInv, IicTypeOK
      <4>2. /\ bus'.rxne /\ bus'.dr = (IF bus.rxne THEN bus.dr ELSE bus.dr + 1) /\ bus.more
            /\ UNCHANGED <<bus.start, bus.sb, bus.stop, bus.addr, bus.wire, bus.btf>>
        BY <1>1, <3>5 DEF ByteReceived, Bus
      <4>3. /\ job[t].type # "transmit" /\ at[t] # "btf"
            /\ bus.dr = count[t] + (IF bus.rxne THEN 1 ELSE 0)
        BY <3>1, <4>1, <4>2 DEF Moving
      <4>4. bus'.dr = count[t] + (IF bus'.rxne THEN 1 ELSE 0)
        BY <4>1, <4>2, <4>3
      <4>5. Framed(t, count[t])' /\ bus.wire = "nothing" /\ NothingStarted
        BY <1>2, <3>1, <3>3, <4>3 DEF Moving, Framed
      <4> QED
        BY <1>2, <3>1, <4>2, <4>3, <4>4, <4>5 DEF Moving
    <3> QED
      BY <3>2, <3>4, <3>5 DEF Hardware
  <2>5. Stopping(t)'
    BY <1>1, <1>2, <2>1, HardwareFlags DEF Phase, Stopping, Framed, FlagsKept
  <2> QED
    BY <2>2, <2>3, <2>4, <2>5 DEF Phase
<1> QED
  BY <1>3, <1>4, <1>5 DEF IicInv

\* A task that has the bus is alone on it.
LEMMA Alone ==
  ASSUME IicInv, NEW t \in Users, at[t] \in Holding
  PROVE  inside = {t} /\ \A u \in Users \ {t} : at[u] \notin Holding
BY DEF IicInv, IicTypeOK, OneOnTheBus

\* What is left to show of a step that the task on the bus takes on it.
LEMMA OnTheBusKeeps ==
  ASSUME IicInv, NEW t \in Users, at[t] \in Holding, NEW p \in Holding,
         Goto(t, p), UNCHANGED <<inside, job>>,
         bus' \in Bus, current_tran_type' \in Types, count'[t] \in 0 .. job[t].len,
         \E n \in Nat : count' = [count EXCEPT ![t] = n],
         p \in {"type", "idle", "start", "ack", "select", "addr"} => count'[t] = 0,
         p \in {"btf", "rxne"} => count'[t] < job[t].len,
         p # "type" => current_tran_type' = job[t].type,
         Phase(t)'
  PROVE  IicInv'
<1>1. inside = {t} /\ \A u \in Users \ {t} : at[u] \notin Holding
  BY Alone
<1>2. at'[t] = p /\ \A u \in Users \ {t} : at'[u] = at[u] /\ count'[u] = count[u]
  BY DEF IicInv, IicTypeOK, Goto
<1>3. at' \in [Users -> Holding \cup {"out", "lock"}]
  BY DEF IicInv, IicTypeOK, Goto
<1>4. IicTypeOK'
  BY <1>2, <1>3 DEF IicInv, IicTypeOK, Bus
<1>5. OneOnTheBus' /\ Before'
  BY <1>1, <1>2 DEF OneOnTheBus, Before
<1>6. job[t] \in Jobs
  BY DEF IicInv, InTransaction, Holding
<1>7. InTransaction'
  BY <1>1, <1>2, <1>6 DEF IicInv, InTransaction, Holding
<1>8. \A u \in Users \ {t} : Phase(u)'
  BY <1>1, <1>2, NotHoldingNext
<1> QED
  BY <1>4, <1>5, <1>7, <1>8 DEF IicInv

LEMMA TransStartKeeps ==
  ASSUME IicInv, NEW t \in Users, NEW j \in Jobs, TransStart(t, j)
  PROVE  IicInv'
<1>1. /\ at[t] = "out" /\ at' = [at EXCEPT ![t] = "lock"] /\ job' = [job EXCEPT ![t] = j]
      /\ count' = [count EXCEPT ![t] = 0]
      /\ UNCHANGED <<inside, current_tran_type, bus, frame>>
  BY DEF TransStart, Goto
<1>2. /\ at'[t] = "lock" /\ job'[t] = j /\ count'[t] = 0
      /\ \A u \in Users \ {t} : at'[u] = at[u] /\ job'[u] = job[u] /\ count'[u] = count[u]
      /\ at' \in [Users -> Holding \cup {"out", "lock"}]
  BY <1>1 DEF IicInv, IicTypeOK, InTransaction
<1>3. IicTypeOK'
  BY <1>1, <1>2 DEF IicInv, IicTypeOK, Jobs
<1>4. OneOnTheBus' /\ InTransaction' /\ Before'
  BY <1>1, <1>2 DEF IicInv, OneOnTheBus, InTransaction, Before, NothingStarted, NothingSent,
    Leftover, Holding
<1>5. ASSUME NEW u \in Users PROVE Phase(u)'
  <2>1. CASE u = t
    BY <1>2, <2>1, NotHoldingNext DEF Holding
  <2>2. CASE u # t
    BY <1>1, <1>2, <2>2 DEF IicInv, Phase, Starting, Addressing, Moving, Stopping, Framed,
      NothingStarted, NothingSent, Leftover
  <2> QED
    BY <2>1, <2>2
<1> QED
  BY <1>3, <1>4, <1>5 DEF IicInv

LEMMA LockKeeps ==
  ASSUME IicInv, NEW t \in Users, Lock(t)
  PROVE  IicInv'
<1>1. /\ at[t] = "lock" /\ at' = [at EXCEPT ![t] = "type"] /\ inside = {} /\ inside' = {t}
      /\ UNCHANGED <<current_tran_type, bus, job, count, frame>>
  BY DEF Lock, M!Acquire, Goto
<1>2. /\ at'[t] = "type" /\ \A u \in Users \ {t} : at'[u] = at[u]
      /\ at' \in [Users -> Holding \cup {"out", "lock"}]
  BY <1>1 DEF IicInv, IicTypeOK, Holding
<1>3. \A u \in Users : at[u] \notin Holding
  BY <1>1 DEF IicInv, OneOnTheBus
<1>4. IicTypeOK' /\ InTransaction' /\ OneOnTheBus' /\ Before'
  BY <1>1, <1>2, <1>3 DEF IicInv, IicTypeOK, InTransaction, OneOnTheBus, Before, Holding
<1>5. Phase(t)'
  BY <1>1, <1>2 DEF IicInv, Before, Phase, Starting, Addressing, Moving, Stopping,
    NothingStarted, NothingSent, Leftover
<1>6. \A u \in Users \ {t} : Phase(u)'
  BY <1>2, <1>3, NotHoldingNext
<1> QED
  BY <1>4, <1>5, <1>6 DEF IicInv

LEMMA UnlockKeeps ==
  ASSUME IicInv, NEW t \in Users, Unlock(t)
  PROVE  IicInv'
<1>1. /\ at[t] = "unlock" /\ at' = [at EXCEPT ![t] = "out"] /\ inside' = {}
      /\ UNCHANGED <<current_tran_type, bus, job, count, frame>>
  BY DEF Unlock, M!Release, Goto
<1>2. /\ at'[t] = "out" /\ \A u \in Users \ {t} : at'[u] = at[u]
      /\ at' \in [Users -> Holding \cup {"out", "lock"}]
  BY <1>1 DEF IicInv, IicTypeOK
<1>3. \A u \in Users : at'[u] \notin Holding
  BY <1>1, <1>2, Alone DEF Holding
<1>4. IicTypeOK' /\ InTransaction' /\ OneOnTheBus'
  BY <1>1, <1>2, <1>3 DEF IicInv, IicTypeOK, InTransaction, OneOnTheBus
<1>5. Before'
  BY <1>1 DEF IicInv, Before, Phase, Stopping, NothingStarted, NothingSent, Leftover
<1>6. \A u \in Users : Phase(u)'
  BY <1>3, NotHoldingNext
<1> QED
  BY <1>4, <1>5, <1>6 DEF IicInv

\* The facts about the task on the bus that each of its steps starts from.
LEMMA OnTheBusFacts ==
  ASSUME IicInv, NEW t \in Users, at[t] \in Holding
  PROVE  /\ bus \in Bus /\ current_tran_type \in Types /\ Phase(t)
         /\ job[t] \in Jobs /\ count[t] \in Nat /\ count[t] <= job[t].len
         /\ job[t].len \in 1 .. MaxLen /\ job[t].type \in Types
         /\ at[t] # "type" => current_tran_type = job[t].type
         /\ at[t] \in {"type", "idle", "start", "ack", "select", "addr"} => count[t] = 0
         /\ at[t] \in {"btf", "rxne"} => count[t] < job[t].len
         /\ count = [count EXCEPT ![t] = count[t]]
<1>1. job[t] \in Jobs /\ count[t] \in 0 .. job[t].len
  BY DEF IicInv, IicTypeOK, InTransaction, Holding
<1>2. job[t].len \in 1 .. MaxLen /\ job[t].type \in Types
  BY <1>1 DEF Jobs
<1> QED
  BY <1>1, <1>2 DEF IicInv, IicTypeOK, InTransaction, Holding, Bus

LEMMA StartingKeeps ==
  ASSUME IicInv, NEW t \in Users,
         SetType(t) \/ WaitIdle(t) \/ SendStart(t) \/ EnableAck(t) \/ SendAddress(t)
  PROVE  IicInv'
<1>1. at[t] \in {"type", "idle", "start", "ack", "select"} /\ at[t] \in Holding
  BY DEF SetType, WaitIdle, SendStart, EnableAck, SendAddress, Holding
<1>2. /\ bus \in Bus /\ current_tran_type \in Types /\ Phase(t) /\ count[t] = 0
      /\ job[t].len \in 1 .. MaxLen /\ job[t].type \in Types
      /\ at[t] # "type" => current_tran_type = job[t].type
      /\ count = [count EXCEPT ![t] = 0]
  BY <1>1, OnTheBusFacts
<1>3. at \in [Users -> Holding \cup {"out", "lock"}] /\ UNCHANGED <<inside, job, count>>
  BY DEF IicInv, IicTypeOK, SetType, WaitIdle, SendStart, EnableAck, SendAddress
<1>4. CASE SetType(t) \/ WaitIdle(t)
  <2>1. PICK p \in {"idle", "start"} :
          /\ Goto(t, p) /\ UNCHANGED bus /\ current_tran_type' = job[t].type
    BY <1>2, <1>4 DEF SetType, WaitIdle
  <2>2. at'[t] = p
    BY <1>3, <2>1 DEF Goto
  <2>3. Phase(t)'
    BY <1>1, <1>2, <1>4, <2>1, <2>2 DEF Phase, Starting, Addressing, Moving, Stopping,
      NothingStarted, NothingSent, Leftover, SetType, WaitIdle
  <2> QED
    BY <1>1, <1>2, <1>3, <2>1, <2>3, OnTheBusKeeps DEF Holding
<1>5. CASE SendStart(t)
  <2>1. /\ Goto(t, "ack") /\ bus' = [bus EXCEPT !.start = TRUE] /\ at[t] = "start"
        /\ UNCHANGED current_tran_type
    BY <1>5 DEF SendStart
  <2>2. at'[t] = "ack" /\ bus' \in Bus
    BY <1>2, <1>3, <2>1 DEF Goto, Bus
  <2>3. Phase(t)'
    BY <1>2, <2>1, <2>2 DEF Phase, Starting, Addressing, Moving, Stopping,
      NothingStarted, NothingSent, Leftover, Bus
  <2> QED
    BY <1>1, <1>2, <1>3, <2>1, <2>2, <2>3, OnTheBusKeeps DEF Holding
<1>6. CASE EnableAck(t)
  <2> DEFINE b == bus.ack \/ current_tran_type = "receive"
  <2>1. b \in BOOLEAN
    BY <1>2 DEF Bus
  <2>2. /\ Goto(t, "select") /\ bus' = [bus EXCEPT !.ack = b] /\ at[t] = "ack"
        /\ UNCHANGED current_tran_type
    BY <1>6 DEF EnableAck
  <2> HIDE DEF b
  <2>3. at'[t] = "select" /\ bus' \in Bus
    BY <1>2, <1>3, <2>1, <2>2 DEF Goto, Bus
  <2>4. Phase(t)'
    BY <1>2, <2>2, <2>3 DEF Phase, Starting, Addressing, Moving, Stopping,
      NothingStarted, NothingSent, Leftover, Bus
  <2> QED
    BY <1>1, <1>2, <1>3, <2>2, <2>3, <2>4, OnTheBusKeeps DEF Holding
<1>7. CASE SendAddress(t)
  <2>1. /\ Goto(t, "addr") /\ at[t] = "select" /\ bus.sb /\ UNCHANGED current_tran_type
        /\ bus' = [bus EXCEPT !.sb = FALSE, !.rxne = FALSE, !.shift = FALSE,
                              !.wire = "address"]
        /\ frame' = [by |-> t, slave |-> job[t].slave, type |-> current_tran_type,
                     bytes |-> <<>>]
    BY <1>7 DEF SendAddress
  <2>2. at'[t] = "addr" /\ bus' \in Bus
    BY <1>2, <1>3, <2>1 DEF Goto, Bus
  <2>3. Framed(t, 0)'
    <3>1. CountTo(0) = <<>>
      BY DEF CountTo
    <3> QED
      BY <1>2, <1>3, <2>1, <3>1 DEF Framed
  <2>4. ~bus.addr /\ ~bus.start /\ ~bus.stop /\ ~bus.more
    BY <1>2, <2>1 DEF Phase, Starting, NothingSent, Leftover
  <2>5. /\ ~bus'.addr /\ ~bus'.start /\ ~bus'.sb /\ ~bus'.stop /\ ~bus'.more
        /\ ~bus'.rxne /\ ~bus'.shift /\ bus'.wire = "address"
    BY <1>2, <2>1, <2>4 DEF Bus
  <2>6. Phase(t)'
    BY <2>2, <2>3, <2>5 DEF Phase, Starting, Addressing, Moving, Stopping, NothingStarted
  <2> QED
    BY <1>1, <1>2, <1>3, <2>1, <2>2, <2>6, OnTheBusKeeps DEF Holding
<1> QED
  BY <1>4, <1>5, <1>6, <1>7

LEMMA MovingKeeps ==
  ASSUME IicInv, NEW t \in Users,
         \/ WaitAddr(t) \/ SendData(t) \/ WaitBtf(t) \/ DisableAck(t) \/ GetData(t)
         \/ SendStop(t)
  PROVE  IicInv'
<1>1. at[t] \in {"addr", "data", "btf", "rxne"} /\ at[t] \in Holding
  BY DEF WaitAddr, SendData, WaitBtf, DisableAck, GetData, SendStop, Moves, Holding
<1>2. /\ bus \in Bus /\ current_tran_type \in Types /\ Phase(t)
      /\ count[t] \in Nat /\ count[t] <= job[t].len
      /\ job[t].len \in 1 .. MaxLen /\ job[t].type \in Types
      /\ current_tran_type = job[t].type
      /\ at[t] = "addr" => count[t] = 0
      /\ at[t] \in {"btf", "rxne"} => count[t] < job[t].len
      /\ count = [count EXCEPT ![t] = count[t]]
  BY <1>1, OnTheBusFacts
<1>3. /\ at \in [Users -> Holding \cup {"out", "lock"}] /\ count \in [Users -> Nat]
      /\ UNCHANGED <<inside, job, current_tran_type>>
  BY DEF IicInv, IicTypeOK, InTransaction, WaitAddr, SendData, WaitBtf, DisableAck, GetData, SendStop
<1>4. CASE WaitAddr(t)
  <2>1. /\ Goto(t, "data") /\ at[t] = "addr" /\ bus.addr /\ UNCHANGED <<count, frame>>
        /\ bus' = [bus EXCEPT !.addr = FALSE]
    BY <1>4 DEF WaitAddr
  <2>2. at'[t] = "data" /\ bus' \in Bus
    BY <1>2, <1>3, <2>1 DEF Goto, Bus
  <2>3. /\ NothingStarted /\ ~bus.stop /\ ~bus.rxne /\ ~bus.shift /\ Framed(t, 0)
        /\ bus.wire = "nothing" /\ bus.dr = 0 /\ (bus.more => job[t].type = "receive")
    BY <1>2, <2>1 DEF Phase, Addressing
  <2>4. /\ ~bus'.addr /\ ~bus'.start /\ ~bus'.sb /\ ~bus'.stop /\ ~bus'.rxne
        /\ ~bus'.shift /\ bus'.wire = "nothing" /\ bus'.dr = 0 /\ bus'.more = bus.more
    BY <1>2, <2>1, <2>3 DEF Bus, NothingStarted
  <2>5. Framed(t, count[t])'
    BY <1>2, <1>3, <2>1, <2>3 DEF Framed
  <2>6. Phase(t)'
    BY <1>2, <1>3, <2>1, <2>2, <2>3, <2>4, <2>5 DEF Phase, Starting, Addressing, Moving, Stopping,
      NothingStarted, Types
  <2> QED
    BY <1>1, <1>2, <1>3, <2>1, <2>2, <2>6, OnTheBusKeeps DEF Holding
<1>5. CASE SendData(t)
  <2>1. /\ Goto(t, "btf") /\ at[t] = "data" /\ UNCHANGED count /\ job[t].type = "transmit"
        /\ count[t] < job[t].len
        /\ bus' = [bus EXCEPT !.wire = "byte", !.btf = FALSE]
        /\ frame' = [frame EXCEPT !.bytes = Append(@, count[t] + 1)]
    BY <1>5 DEF SendData, Moves, BytesLeft
  <2>2. at'[t] = "btf" /\ bus' \in Bus
    BY <1>2, <1>3, <2>1 DEF Goto, Bus
  <2>3. /\ NothingStarted /\ ~bus.stop /\ ~bus.addr /\ Framed(t, count[t]) /\ ~bus.more
    BY <1>2, <2>1 DEF Phase, Moving
  <2>4. /\ ~bus'.addr /\ ~bus'.start /\ ~bus'.sb /\ ~bus'.stop /\ ~bus'.more
        /\ bus'.wire = "byte" /\ ~bus'.btf
    BY <1>2, <2>1, <2>3 DEF Bus, NothingStarted
  <2>5. Framed(t, count[t] + 1)'
    BY <1>2, <1>3, <2>1, <2>3, CountOneMore DEF Framed
  <2>6. Phase(t)'
    BY <1>3, <2>1, <2>2, <2>4, <2>5 DEF Phase, Starting, Addressing, Moving, Stopping, NothingStarted
  <2> QED
    BY <1>1, <1>2, <1>3, <2>1, <2>2, <2>6, OnTheBusKeeps DEF Holding
<1>6. CASE WaitBtf(t)
  <2>1. /\ Goto(t, "data") /\ at[t] = "btf" /\ bus.btf /\ UNCHANGED <<bus, frame>>
        /\ count' = [count EXCEPT ![t] = count[t] + 1]
    BY <1>6 DEF WaitBtf
  <2>2. at'[t] = "data" /\ count'[t] = count[t] + 1
    BY <1>2, <1>3, <2>1 DEF Goto
  <2>3. /\ NothingStarted /\ ~bus.stop /\ ~bus.addr /\ bus.wire = "nothing"
        /\ Framed(t, count[t] + 1) /\ job[t].type = "transmit" /\ ~bus.more
    BY <1>2, <2>1 DEF Phase, Moving
  <2>4. Framed(t, count[t])'
    BY <1>3, <2>1, <2>2, <2>3 DEF Framed
  <2>5. Phase(t)'
    BY <1>3, <2>1, <2>2, <2>3, <2>4 DEF Phase, Starting, Addressing, Moving, Stopping, NothingStarted
  <2>6. count'[t] \in 0 .. job[t].len /\ \E n \in Nat : count' = [count EXCEPT ![t] = n]
    <3>1. count[t] < job[t].len
      BY <1>2, <2>1
    <3>2. count[t] + 1 \in 0 .. job[t].len /\ count[t] + 1 \in Nat
      BY <1>2, <3>1
    <3> QED
      BY <2>1, <2>2, <3>2
  <2> QED
    BY <1>1, <1>2, <1>3, <2>1, <2>2, <2>5, <2>6, OnTheBusKeeps DEF Holding
<1>7. CASE DisableAck(t)
  <2> DEFINE b == bus.ack /\ count[t] # job[t].len - 1
  <2>1. /\ Goto(t, "rxne") /\ at[t] = "data" /\ UNCHANGED <<count, frame>>
        /\ job[t].type = "receive" /\ count[t] < job[t].len
        /\ bus' = [bus EXCEPT !.ack = b]
    BY <1>7 DEF DisableAck, Moves, BytesLeft
  <2>2. b \in BOOLEAN
    BY <1>2 DEF Bus
  <2> HIDE DEF b
  <2>3. at'[t] = "rxne" /\ bus' \in Bus
    BY <1>2, <1>3, <2>1, <2>2 DEF Goto, Bus
  <2>4. /\ NothingStarted /\ ~bus.stop /\ ~bus.addr /\ bus.wire = "nothing"
        /\ Framed(t, count[t]) /\ bus.dr = count[t] + (IF bus.rxne THEN 1 ELSE 0)
        /\ bus.shift => bus.rxne
    BY <1>2, <2>1 DEF Phase, Moving
  <2>5. UNCHANGED <<bus.start, bus.sb, bus.stop, bus.addr, bus.wire, bus.dr, bus.rxne, bus.shift>>
    BY <1>2, <2>1 DEF Bus
  <2>6. Framed(t, count[t])'
    BY <1>3, <2>1, <2>4 DEF Framed
  <2>7. Phase(t)'
    BY <1>3, <2>1, <2>3, <2>4, <2>5, <2>6 DEF Phase, Starting, Addressing, Moving, Stopping,
      NothingStarted
  <2> QED
    BY <1>1, <1>2, <1>3, <2>1, <2>3, <2>7, OnTheBusKeeps DEF Holding
<1>8. CASE GetData(t)
  <2> DEFINE d == IF bus.shift THEN bus.dr + 1 ELSE bus.dr
  <2>1. /\ Goto(t, "data") /\ at[t] = "rxne" /\ bus.rxne
        /\ bus' = [bus EXCEPT !.rxne = bus.shift, !.shift = FALSE, !.dr = d]
        /\ frame' = [frame EXCEPT !.bytes = Append(@, bus.dr)]
        /\ count' = [count EXCEPT ![t] = count[t] + 1]
    BY <1>2, <1>8 DEF GetData, Bus
  <2>2. /\ NothingStarted /\ ~bus.stop /\ ~bus.addr /\ bus.wire = "nothing"
        /\ Framed(t, count[t]) /\ bus.dr = count[t] + 1 /\ job[t].type = "receive"
    BY <1>2, <2>1 DEF Phase, Moving, Types
  <2>3. d = count[t] + 1 + (IF bus.shift THEN 1 ELSE 0) /\ d \in 0 .. MaxLen + 1
    <3>1. count[t] + 1 \in 0 .. MaxLen /\ count[t] + 1 + 1 \in 0 .. MaxLen + 1
      BY <1>2, <2>1
    <3>2. CASE bus.shift
      BY <2>2, <3>1, <3>2
    <3>3. CASE ~bus.shift
      BY <1>2, <2>2, <3>1, <3>3
    <3> QED
      BY <3>2, <3>3
  <2> HIDE DEF d
  <2>4. at'[t] = "data" /\ bus' \in Bus /\ count'[t] = count[t] + 1
    <3>1. bus \in Bus /\ bus.shift \in BOOLEAN /\ d \in 0 .. MaxLen + 1
      BY <1>2, <2>3 DEF Bus
    <3>2. bus' = [bus EXCEPT !.rxne = bus.shift, !.shift = FALSE, !.dr = d]
      BY <2>1
    <3>3. bus' \in Bus
      BY <3>1, <3>2 DEF Bus
    <3> QED
      BY <1>2, <1>3, <2>1, <3>3 DEF Goto
  <2>5. /\ UNCHANGED <<bus.start, bus.sb, bus.stop, bus.addr, bus.wire>>
        /\ bus'.rxne = bus.shift /\ ~bus'.shift /\ bus'.dr = d
    BY <1>2, <2>1 DEF Bus
  <2>6. Framed(t, count[t])'
    BY <1>2, <1>3, <2>1, <2>4, <2>2, CountOneMore DEF Framed
  <2>7. Phase(t)'
    BY <1>2, <1>3, <2>1, <2>2, <2>3, <2>4, <2>5, <2>6
    DEF Phase, Starting, Addressing, Moving, Stopping, NothingStarted
  <2>8. count'[t] \in 0 .. job[t].len /\ \E n \in Nat : count' = [count EXCEPT ![t] = n]
    <3>1. count[t] < job[t].len
      BY <1>2, <2>1
    <3>2. count[t] + 1 \in 0 .. job[t].len /\ count[t] + 1 \in Nat
      BY <1>2, <3>1
    <3> QED
      BY <2>1, <2>4, <3>2
  <2> QED
    BY <1>1, <1>2, <1>3, <2>1, <2>4, <2>7, <2>8, OnTheBusKeeps DEF Holding
<1>9. CASE SendStop(t)
  <2>1. /\ Goto(t, "unlock") /\ at[t] = "data" /\ UNCHANGED <<count, frame>>
        /\ count[t] = job[t].len /\ bus' = [bus EXCEPT !.stop = TRUE]
    BY <1>2, <1>9 DEF SendStop, BytesLeft
  <2>2. at'[t] = "unlock" /\ bus' \in Bus
    BY <1>2, <1>3, <2>1 DEF Goto, Bus
  <2>3. /\ NothingStarted /\ ~bus.addr /\ bus.wire = "nothing" /\ Framed(t, job[t].len)
        /\ bus.more => bus.dr = count[t] + (IF bus.rxne THEN 1 ELSE 0)
    BY <1>2, <2>1 DEF Phase, Moving
  <2>4. /\ UNCHANGED <<bus.start, bus.sb, bus.addr, bus.wire, bus.dr, bus.rxne, bus.more>>
        /\ bus'.stop
    BY <1>2, <2>1 DEF Bus
  <2>5. Leftover'
    BY <1>2, <2>1, <2>3, <2>4 DEF Leftover
  <2>6. Framed(t, job[t].len)' /\ NothingStarted' /\ NothingSent'
    BY <1>3, <2>1, <2>3, <2>4 DEF Framed, NothingStarted, NothingSent
  <2>7. Phase(t)'
    BY <2>2, <2>5, <2>6 DEF Phase, Starting, Addressing, Moving, Stopping
  <2> QED
    BY <1>1, <1>2, <1>3, <2>1, <2>2, <2>7, OnTheBusKeeps DEF Holding
<1> QED
  BY <1>4, <1>5, <1>6, <1>7, <1>8, <1>9
-----------------------------------------------------------------------------
(***************************************************************************)
(* The theorem about transactions.                                         *)
(***************************************************************************)
LEMMA IicStepKeeps == IicInv /\ [IicStep]_iicvars => IicInv'
<1> SUFFICES ASSUME IicInv, [IicStep]_iicvars PROVE IicInv'
  OBVIOUS
<1>1. CASE UNCHANGED iicvars
  BY <1>1 DEF iicvars, IicInv, IicTypeOK, OneOnTheBus, InTransaction, Before, Phase, Starting,
    Addressing, Moving, Stopping, Framed, NothingStarted, NothingSent, Leftover
<1> QED
  BY <1>1, HardwareKeepsBus, TransStartKeeps, LockKeeps, StartingKeeps, MovingKeeps, UnlockKeeps
  DEF IicStep, BusStep

\* What the two tasks do to the bus are such steps.
LEMMA AppStepsAreBusSteps == [YosNext]_yosvars => [IicStep]_iicvars
<1>1. \A p \in DOMAIN AhtJob : AhtJob[p] \in Jobs
  BY DEF AhtJob, Jobs, Transmit, Receive, Types
<1>2. Transmit("ssd1306", DrawLen) \in Jobs
  BY DEF Jobs, Transmit, Types
<1>3. ahttsk \in Users /\ oledtak \in Users
  OBVIOUS
<1>4. OnTheBus => [IicStep]_iicvars
  BY DEF OnTheBus, IicStep, Spin, iicvars
<1>5. AhtTask => [IicStep]_iicvars
  BY <1>1, <1>3 DEF AhtTask, AhtBegin, AhtGetData, AhtReturn, StoreTemperature, StoreHumidity,
    IicStep
<1>6. OledTask => [IicStep]_iicvars
  BY <1>2, <1>3 DEF OledTask, Load, OledBegin, OledReturn, IicStep
<1>7. Measured => [IicStep]_iicvars
  BY DEF Measured
<1>8. UNCHANGED yosvars => UNCHANGED iicvars
  BY DEF yosvars
<1> QED
  BY <1>4, <1>5, <1>6, <1>7, <1>8 DEF YosNext

LEMMA IicInvariant == YosSpec => []IicInv
<1>1. YosInit => IicInv
  BY InitIicInv DEF YosInit
<1>2. IicInv /\ [YosNext]_yosvars => IicInv'
  BY IicStepKeeps, AppStepsAreBusSteps
<1> QED
  BY <1>1, <1>2, PTL DEF YosSpec

\* A transaction that has been stopped went over the bus as it was asked for,
\* whichever task comes next and whatever was left over of the one before.
THEOREM TransactionsAreWhole == YosSpec => []TransactionIsWhole
<1>1. IicInv => TransactionIsWhole
  BY DEF IicInv, Phase, Stopping, Framed, CountTo, TransactionIsWhole
<1> QED
  BY <1>1, IicInvariant, PTL
-----------------------------------------------------------------------------
(***************************************************************************)
(* The loops of yiic.c that wait for a flag have no timeout. None of them  *)
(* waits for a flag that is neither set nor about to be: while a task is   *)
(* in one, the peripheral has still to do what sets it.                    *)
(***************************************************************************)
\* A busy bus of nobody's is about to be stopped.
ToBeStopped == bus.busy => bus.stop

\* A device that is read from goes on sending until the last byte, because it
\* is acknowledged until then.
Sends(t) ==
  IF count[t] < job[t].len - 1
  THEN bus.ack /\ bus.more
  ELSE count[t] < job[t].len => bus.more \/ bus.rxne

Answering(t) ==
  /\ at[t] \in {"type", "idle", "start", "unlock"} => ToBeStopped
  /\ at[t] \in {"ack", "select"} => (bus.sb => bus.busy)
  /\ job[t].type = "receive" =>
       /\ at[t] \in {"select", "addr"} => bus.ack
       /\ at[t] = "addr" /\ bus.addr => bus.more
       /\ at[t] \in {"data", "rxne"} => Sends(t)

AnswerInv ==
  /\ inside = {} => ToBeStopped
  /\ \A t \in Users : Answering(t)

\* A task looks for a flag that is not set. What sets the flag is under way.
WaitsAreAnswered ==
  \A t \in Users :
    /\ at[t] = "idle" /\ job[t].type = "transmit" /\ bus.busy => bus.stop
    /\ at[t] = "select" /\ ~(bus.sb /\ bus.busy) => bus.start
    /\ at[t] = "addr" /\ ~bus.addr =>
         bus.wire = "address" /\ frame.slave = job[t].slave
    /\ at[t] = "btf" /\ ~bus.btf => bus.wire = "byte"
    /\ at[t] = "rxne" /\ ~bus.rxne => bus.more /\ ~bus.addr

\* It holds at first.
LEMMA InitAnswers == IicInit => AnswerInv
<1> SUFFICES ASSUME IicInit PROVE AnswerInv
  OBVIOUS
<1>1. \A t \in Users : at[t] = "out"
  BY DEF IicInit
<1>2. ~bus.busy
  BY DEF IicInit, IdleBus
<1> QED
  BY <1>1, <1>2 DEF AnswerInv, Answering, ToBeStopped

\* Only the place of the task that has the bus says anything of it.
LEMMA OthersAnswer ==
  ASSUME NEW t \in Users, at'[t] \notin Holding
  PROVE  Answering(t)'
BY DEF Answering, Holding

\* What is left to show of a step that this task takes on it.
LEMMA AnswerKeeps ==
  ASSUME IicInv, NEW t \in Users, at[t] \in Holding, NEW p, Goto(t, p), UNCHANGED inside,
         Answering(t)'
  PROVE  AnswerInv'
<1>1. inside = {t} /\ \A u \in Users \ {t} : at[u] \notin Holding
  BY Alone
<1>2. \A u \in Users \ {t} : at'[u] \notin Holding
  BY <1>1 DEF IicInv, IicTypeOK, Goto
<1>3. inside' # {}
  BY <1>1
<1> QED
  BY <1>2, <1>3, OthersAnswer DEF AnswerInv

\* The peripheral answers, and does not take back what it has answered.
LEMMA HardwareAnswers ==
  ASSUME IicInv, AnswerInv, Hardware
  PROVE  AnswerInv'
<1>1. bus \in Bus /\ UNCHANGED <<inside, current_tran_type, at, job, count, frame>>
  BY DEF IicInv, IicTypeOK, Bus, Hardware
<1>2. ASSUME ToBeStopped, ~bus.start
      PROVE  ToBeStopped'
  <2>1. ~StartDone
    BY <1>2 DEF StartDone
  <2>2. AddressDone \/ ByteSent \/ ByteReceived => UNCHANGED <<bus.busy, bus.stop>>
    BY <1>1 DEF AddressDone, ByteSent, ByteReceived, Bus
  <2>3. StopDone => ~bus'.busy
    BY <1>1 DEF StopDone, Bus
  <2> QED
    BY <1>2, <2>1, <2>2, <2>3 DEF ToBeStopped, Hardware
<1>3. inside' = {} => ToBeStopped'
  BY <1>1, <1>2 DEF AnswerInv, IicInv, Before, NothingStarted
<1>4. ASSUME NEW t \in Users
      PROVE  Answering(t)'
  <2>1. Answering(t) /\ Phase(t)
    BY DEF AnswerInv, IicInv
  <2>2. at[t] \in {"type", "idle", "start", "unlock"} => ToBeStopped'
    BY <1>2, <2>1 DEF Answering, Phase, Starting, Stopping, NothingStarted
  <2>3. at[t] \in {"ack", "select"} => (bus'.sb => bus'.busy)
    <3> SUFFICES ASSUME at[t] \in {"ack", "select"} PROVE bus'.sb => bus'.busy
      OBVIOUS
    <3>1. bus.sb => bus.busy /\ ~bus.stop
      BY <2>1 DEF Answering, Phase, Starting
    <3>2. StartDone => bus'.busy
      BY <1>1 DEF StartDone, Bus
    <3>3. AddressDone \/ ByteSent \/ ByteReceived => UNCHANGED <<bus.busy, bus.sb>>
      BY <1>1 DEF AddressDone, ByteSent, ByteReceived, Bus
    <3>4. StopDone => bus.stop /\ bus'.sb = bus.sb
      BY <1>1 DEF StopDone, Bus
    <3> QED
      BY <3>1, <3>2, <3>3, <3>4 DEF Hardware
  <2>4. bus'.ack = bus.ack
    BY <1>1 DEF Hardware, StartDone, AddressDone, ByteSent, ByteReceived, StopDone, Bus
  <2>5. ASSUME at[t] = "addr", job[t].type = "receive", bus'.addr
        PROVE  bus'.more
    <3>1. ~bus.stop /\ ~bus.start /\ bus.wire # "byte" /\ Framed(t, 0)
      BY <2>1, <2>5 DEF Phase, Addressing, NothingStarted
    <3>2. bus.addr => bus.more
      BY <2>1, <2>5 DEF Answering
    <3>3. AddressDone => bus'.more
      BY <1>1, <2>5, <3>1 DEF AddressDone, Bus, Framed
    <3>4. ByteReceived => bus.addr # bus'.addr
      BY <1>1, <2>5 DEF ByteReceived, Bus
    <3>5. ByteReceived => bus.addr = bus'.addr
      BY <1>1 DEF ByteReceived, Bus
    <3> QED
      BY <3>1, <3>3, <3>4, <3>5 DEF Hardware, StartDone, ByteSent, StopDone
  <2>6. ASSUME at[t] \in {"data", "rxne"}, job[t].type = "receive"
        PROVE  Sends(t)'
    <3>1. ~bus.stop /\ ~bus.start /\ bus.wire = "nothing"
      BY <2>1, <2>6 DEF Phase, Moving, NothingStarted
    <3>2. ByteReceived
      BY <3>1 DEF Hardware, StartDone, AddressDone, ByteSent, StopDone
    <3>3. bus'.rxne /\ bus'.more = bus.ack
      BY <1>1, <3>2 DEF ByteReceived, Bus
    <3>4. Sends(t)
      BY <2>1, <2>6 DEF Answering
    <3> QED
      BY <1>1, <2>4, <3>3, <3>4 DEF Sends
  <2> QED
    BY <1>1, <2>1, <2>2, <2>3, <2>4, <2>5, <2>6 DEF Answering
<1> QED
  BY <1>3, <1>4 DEF AnswerInv

\* A transaction is begun, or the mutex is taken or given back.
LEMMA LockAnswers ==
  ASSUME IicInv, AnswerInv, NEW t \in Users,
         (\E j \in Jobs : TransStart(t, j)) \/ Lock(t) \/ Unlock(t)
  PROVE  AnswerInv'
<1>1. at \in [Users -> Holding \cup {"out", "lock"}]
  BY DEF IicInv, IicTypeOK
<1>2. CASE \E j \in Jobs : TransStart(t, j)
  <2>1. /\ at' = [at EXCEPT ![t] = "lock"] /\ UNCHANGED <<inside, bus>>
        /\ \E j : job' = [job EXCEPT ![t] = j] /\ count' = [count EXCEPT ![t] = 0]
    BY <1>2 DEF TransStart, Goto
  <2>2. job \in [Users -> Jobs \cup {NoJob}] /\ count \in [Users -> Nat]
    BY DEF IicInv, InTransaction
  <2>3. \A u \in Users \ {t} : at'[u] = at[u] /\ job'[u] = job[u] /\ count'[u] = count[u]
    BY <1>1, <2>1, <2>2
  <2>4. \A u \in Users \ {t} : Answering(u)'
    BY <2>1, <2>3 DEF AnswerInv, Answering, ToBeStopped, Sends
  <2>5. Answering(t)'
    BY <1>1, <2>1, OthersAnswer DEF Holding
  <2>6. inside' = {} => ToBeStopped'
    BY <2>1 DEF AnswerInv, ToBeStopped
  <2> QED
    BY <2>4, <2>5, <2>6 DEF AnswerInv
<1>3. CASE Lock(t)
  <2>1. /\ at' = [at EXCEPT ![t] = "type"] /\ inside = {} /\ inside' = {t} /\ UNCHANGED bus
    BY <1>3 DEF Lock, M!Acquire, Goto
  <2>2. at'[t] = "type" /\ \A u \in Users \ {t} : at'[u] \notin Holding
    BY <1>1, <2>1 DEF IicInv, OneOnTheBus, Holding
  <2>3. Answering(t)'
    BY <2>1, <2>2 DEF AnswerInv, Answering, ToBeStopped
  <2> QED
    BY <2>1, <2>2, <2>3, OthersAnswer DEF AnswerInv
<1>4. CASE Unlock(t)
  <2>1. /\ at[t] = "unlock" /\ at' = [at EXCEPT ![t] = "out"] /\ UNCHANGED bus
    BY <1>4 DEF Unlock, Goto
  <2>2. \A u \in Users \ {t} : at[u] \notin Holding
    BY <2>1, Alone DEF Holding
  <2>3. \A u \in Users : at'[u] \notin Holding
    BY <1>1, <2>1, <2>2 DEF Holding
  <2>4. ToBeStopped'
    BY <2>1 DEF AnswerInv, Answering, ToBeStopped
  <2> QED
    BY <2>3, <2>4, OthersAnswer DEF AnswerInv
<1> QED
  BY <1>2, <1>3, <1>4

\* The task that has the bus goes on.
LEMMA HolderAnswers ==
  ASSUME IicInv, AnswerInv, NEW t \in Users,
         \/ SetType(t) \/ WaitIdle(t) \/ SendStart(t) \/ EnableAck(t) \/ SendAddress(t)
         \/ WaitAddr(t) \/ SendData(t) \/ WaitBtf(t) \/ DisableAck(t) \/ GetData(t)
         \/ SendStop(t)
  PROVE  AnswerInv'
<1>1. /\ at[t] \in Holding
      /\ UNCHANGED <<inside, job>>
  BY DEF SetType, WaitIdle, SendStart, EnableAck, SendAddress, WaitAddr, SendData, WaitBtf,
    DisableAck, GetData, SendStop, Moves, Holding
<1>2. /\ bus \in Bus /\ Phase(t) /\ Answering(t)
      /\ job[t].len \in 1 .. MaxLen /\ count[t] \in Nat /\ count[t] <= job[t].len
      /\ at[t] # "type" => current_tran_type = job[t].type
      /\ at[t] \in {"type", "idle", "start", "ack", "select", "addr"} => count[t] = 0
      /\ at[t] \in {"btf", "rxne"} => count[t] < job[t].len
  BY <1>1, OnTheBusFacts DEF AnswerInv
<1>3. at \in [Users -> Holding \cup {"out", "lock"}] /\ count \in [Users -> Nat]
  BY DEF IicInv, IicTypeOK, InTransaction
<1>4. ASSUME NEW p, Goto(t, p)
      PROVE  at'[t] = p
  BY <1>3, <1>4 DEF Goto
<1>5. CASE SetType(t) \/ WaitIdle(t)
  <2>1. PICK p \in {"idle", "start"} : Goto(t, p) /\ UNCHANGED bus
    BY <1>5 DEF SetType, WaitIdle
  <2>2. at[t] \in {"type", "idle"} /\ at'[t] = p
    BY <1>4, <1>5, <2>1 DEF SetType, WaitIdle
  <2>3. Answering(t)'
    BY <1>2, <2>1, <2>2 DEF Answering, ToBeStopped
  <2> QED
    BY <1>1, <2>1, <2>3, AnswerKeeps
<1>6. CASE SendStart(t)
  <2>1. Goto(t, "ack") /\ bus'.sb = bus.sb /\ at[t] = "start" /\ at'[t] = "ack"
    BY <1>2, <1>4, <1>6 DEF SendStart, Bus
  <2>2. ~bus.sb
    BY <1>2, <2>1 DEF Phase, Starting, NothingStarted
  <2>3. Answering(t)'
    BY <2>1, <2>2 DEF Answering
  <2> QED
    BY <1>1, <2>1, <2>3, AnswerKeeps
<1>7. CASE EnableAck(t)
  <2>1. /\ Goto(t, "select") /\ UNCHANGED <<bus.sb, bus.busy>> /\ at[t] = "ack"
        /\ at'[t] = "select" /\ bus'.ack = (bus.ack \/ current_tran_type = "receive")
    BY <1>2, <1>4, <1>7 DEF EnableAck, Bus
  <2>2. Answering(t)'
    BY <1>1, <1>2, <2>1 DEF Answering
  <2> QED
    BY <1>1, <2>1, <2>2, AnswerKeeps
<1>8. CASE SendAddress(t)
  <2>1. /\ Goto(t, "addr") /\ UNCHANGED <<bus.ack, bus.addr>> /\ at[t] = "select"
        /\ at'[t] = "addr"
    BY <1>2, <1>4, <1>8 DEF SendAddress, Bus
  <2>2. ~bus.addr
    BY <1>2, <2>1 DEF Phase, Starting, NothingSent
  <2>3. Answering(t)'
    BY <1>1, <1>2, <2>1, <2>2 DEF Answering
  <2> QED
    BY <1>1, <2>1, <2>3, AnswerKeeps
<1>9. CASE WaitAddr(t)
  <2>1. /\ Goto(t, "data") /\ UNCHANGED <<bus.ack, bus.more, bus.rxne, count>> /\ at[t] = "addr"
        /\ bus.addr /\ at'[t] = "data"
    BY <1>2, <1>4, <1>9 DEF WaitAddr, Bus
  <2>2. job[t].type = "receive" => bus.ack /\ bus.more
    BY <1>2, <2>1 DEF Answering
  <2>3. Answering(t)'
    BY <1>1, <2>1, <2>2 DEF Answering, Sends
  <2> QED
    BY <1>1, <2>1, <2>3, AnswerKeeps
<1>10. CASE SendData(t) \/ WaitBtf(t)
  <2>1. PICK p \in {"btf", "data"} : Goto(t, p) /\ at'[t] = p
    BY <1>4, <1>10 DEF SendData, WaitBtf
  <2>2. job[t].type = "transmit"
    BY <1>2, <1>10 DEF SendData, WaitBtf, Moves, Phase, Moving
  <2>3. Answering(t)'
    BY <1>1, <2>1, <2>2 DEF Answering
  <2> QED
    BY <1>1, <2>1, <2>3, AnswerKeeps
<1>11. CASE DisableAck(t)
  <2>1. /\ Goto(t, "rxne") /\ UNCHANGED <<bus.more, bus.rxne, count>> /\ at[t] = "data"
        /\ at'[t] = "rxne" /\ job[t].type = "receive"
        /\ bus'.ack = (bus.ack /\ count[t] # job[t].len - 1)
    BY <1>2, <1>4, <1>11 DEF DisableAck, Moves, Bus
  <2>2. Sends(t)
    BY <1>2, <2>1 DEF Answering
  <2>3. count[t] < job[t].len - 1 => count[t] # job[t].len - 1
    BY <1>2
  <2>4. Sends(t)'
    BY <1>1, <2>1, <2>2, <2>3, Zenon DEF Sends
  <2>5. Answering(t)'
    BY <2>1, <2>4 DEF Answering
  <2> QED
    BY <1>1, <2>1, <2>5, AnswerKeeps
<1>12. CASE GetData(t)
  <2>1. /\ Goto(t, "data") /\ UNCHANGED <<bus.more, bus.ack>> /\ at[t] = "rxne"
        /\ at'[t] = "data" /\ bus.rxne /\ count'[t] = count[t] + 1
    BY <1>2, <1>3, <1>4, <1>12 DEF GetData, Bus
  <2>2. job[t].type = "receive" => Sends(t)
    BY <1>2, <2>1 DEF Answering
  <2>3. job[t].type = "receive" => Sends(t)'
    BY <1>1, <1>2, <2>1, <2>2 DEF Sends
  <2>4. Answering(t)'
    BY <1>1, <2>1, <2>3 DEF Answering
  <2> QED
    BY <1>1, <2>1, <2>4, AnswerKeeps
<1>13. CASE SendStop(t)
  <2>1. Goto(t, "unlock") /\ bus'.stop /\ at'[t] = "unlock"
    BY <1>2, <1>4, <1>13 DEF SendStop, Bus
  <2>2. Answering(t)'
    BY <2>1 DEF Answering, ToBeStopped
  <2> QED
    BY <1>1, <2>1, <2>2, AnswerKeeps
<1> QED
  BY <1>5, <1>6, <1>7, <1>8, <1>9, <1>10, <1>11, <1>12, <1>13

\* Every access to the bus keeps it.
LEMMA AnswerStep == IicInv /\ AnswerInv /\ [IicStep]_iicvars => AnswerInv'
<1> SUFFICES ASSUME IicInv, AnswerInv, [IicStep]_iicvars PROVE AnswerInv'
  OBVIOUS
<1>1. CASE UNCHANGED iicvars
  BY <1>1 DEF iicvars, AnswerInv, Answering, ToBeStopped, Sends
<1> QED
  BY <1>1, HardwareAnswers, LockAnswers, HolderAnswers DEF IicStep, BusStep

\* The loops that wait have no timeout and need none, as long as devices
\* answer to their addresses: whatever a task waits for, for itself or after
\* the transaction of another, the peripheral is about to set.
THEOREM NoWaitIsInVain == YosSpec => []WaitsAreAnswered
<1>1. YosInit => IicInv /\ AnswerInv
  BY InitIicInv, InitAnswers DEF YosInit
<1>2. IicInv /\ AnswerInv /\ [YosNext]_yosvars => AnswerInv'
  BY AnswerStep, AppStepsAreBusSteps
<1>3. IicInv /\ AnswerInv => WaitsAreAnswered
  <2> SUFFICES ASSUME IicInv, AnswerInv, NEW t \in Users
               PROVE  /\ at[t] = "idle" /\ job[t].type = "transmit" /\ bus.busy => bus.stop
                      /\ at[t] = "select" /\ ~(bus.sb /\ bus.busy) => bus.start
                      /\ at[t] = "addr" /\ ~bus.addr =>
                           bus.wire = "address" /\ frame.slave = job[t].slave
                      /\ at[t] = "btf" /\ ~bus.btf => bus.wire = "byte"
                      /\ at[t] = "rxne" /\ ~bus.rxne => bus.more /\ ~bus.addr
    BY DEF WaitsAreAnswered
  <2>1. Phase(t) /\ Answering(t)
    BY DEF IicInv, AnswerInv
  <2>2. at[t] = "rxne" => job[t].type = "receive" /\ count[t] < job[t].len
    <3> SUFFICES ASSUME at[t] = "rxne" PROVE job[t].type = "receive" /\ count[t] < job[t].len
      OBVIOUS
    <3>1. job[t].type \in Types /\ job[t].type # "transmit"
      BY <2>1, OnTheBusFacts DEF Holding, Phase, Moving
    <3> QED
      BY <3>1, OnTheBusFacts DEF Types, Holding
  <2>3. at[t] = "rxne" /\ ~bus.rxne => bus.more
    BY <2>1, <2>2 DEF Answering, Sends
  <2> QED
    BY <2>1, <2>3 DEF Answering, ToBeStopped, Phase, Starting, Addressing, Moving, Framed
<1> QED
  BY <1>1, <1>2, <1>3, IicInvariant, PTL DEF YosSpec
-----------------------------------------------------------------------------
(***************************************************************************)
(* What aht20.c computes, for all bytes and all raw values.                *)
(***************************************************************************)

\* A byte and a byte make a byte, and a byte and no bits the same byte.
LEMMA XorOfBytes ==
  ASSUME NEW x \in Byte, NEW y \in Byte
  PROVE  Xor(x, y) \in Byte /\ Xor(x, 0) = x
<1>1. Xor(x, y) \in Byte
  BY DEF Byte, Xor
<1>2. Xor(x, 0) = x
  BY DEF Byte, Xor
<1> QED
  BY <1>1, <1>2

\* The bits of a byte, and what Xor makes of them.
BitAt(x, k) == (x \div 2 ^ k) % 2

\* A byte is its bits.
LEMMA BitsOfByte ==
  ASSUME NEW x \in Byte
  PROVE  /\ \A k \in 0 .. 7 : BitAt(x, k) \in {0, 1}
         /\ x = BitAt(x, 0) + 2 * BitAt(x, 1) + 4 * BitAt(x, 2) + 8 * BitAt(x, 3)
                + 16 * BitAt(x, 4) + 32 * BitAt(x, 5) + 64 * BitAt(x, 6) + 128 * BitAt(x, 7)
<1>1. \A k \in 0 .. 7 : BitAt(x, k) \in {0, 1}
  BY DEF BitAt, Byte
<1>2. x = BitAt(x, 0) + 2 * BitAt(x, 1) + 4 * BitAt(x, 2) + 8 * BitAt(x, 3)
                + 16 * BitAt(x, 4) + 32 * BitAt(x, 5) + 64 * BitAt(x, 6) + 128 * BitAt(x, 7)
  BY DEF BitAt, Byte
<1> QED BY <1>1, <1>2

\* x ^ y, bit by bit.
LEMMA BitsOfXor ==
  ASSUME NEW x \in Byte, NEW y \in Byte
  PROVE  Xor(x, y) = ((BitAt(x, 0) + BitAt(y, 0)) % 2) + 2 * ((BitAt(x, 1) + BitAt(y, 1)) % 2)
          + 4 * ((BitAt(x, 2) + BitAt(y, 2)) % 2) + 8 * ((BitAt(x, 3) + BitAt(y, 3)) % 2)
          + 16 * ((BitAt(x, 4) + BitAt(y, 4)) % 2) + 32 * ((BitAt(x, 5) + BitAt(y, 5)) % 2)
          + 64 * ((BitAt(x, 6) + BitAt(y, 6)) % 2) + 128 * ((BitAt(x, 7) + BitAt(y, 7)) % 2)
BY DEF BitAt, Byte, Xor

\* Turning over the same bit keeps bits apart.
LEMMA BitsApart ==
  ASSUME NEW a \in {0, 1}, NEW b \in {0, 1}, NEW c \in {0, 1}
  PROVE  /\ (a + c) % 2 \in {0, 1} /\ ((a + c) % 2 = (b + c) % 2 => a = b)
         /\ (a + c) % 2 = (c + a) % 2
OBVIOUS

\* Turning over the same bits keeps bytes apart.
LEMMA XorApart ==
  ASSUME NEW x \in Byte, NEW y \in Byte, NEW z \in Byte
  PROVE  /\ Xor(x, z) = Xor(z, x)
         /\ Xor(x, z) = Xor(y, z) => x = y
<1>1. \A k \in 0 .. 7 : {BitAt(x, k), BitAt(y, k), BitAt(z, k)} \subseteq {0, 1}
  BY BitsOfByte
<1>2. Xor(x, z) = Xor(z, x)
  <2>1. \A k \in 0 .. 7 : (BitAt(x, k) + BitAt(z, k)) % 2 = (BitAt(z, k) + BitAt(x, k)) % 2
    BY <1>1
  <2> QED
    BY <2>1, BitsOfXor
<1>3. ASSUME Xor(x, z) = Xor(y, z)
      PROVE  x = y
  <2> DEFINE u(k) == (BitAt(x, k) + BitAt(z, k)) % 2
             v(k) == (BitAt(y, k) + BitAt(z, k)) % 2
  <2>1. \A k \in 0 .. 7 : /\ u(k) \in {0, 1} /\ v(k) \in {0, 1}
                          /\ u(k) = v(k) => BitAt(x, k) = BitAt(y, k)
    BY <1>1, BitsApart
  <2>2. u(0) + 2 * u(1) + 4 * u(2) + 8 * u(3) + 16 * u(4) + 32 * u(5) + 64 * u(6) + 128 * u(7)
         = v(0) + 2 * v(1) + 4 * v(2) + 8 * v(3) + 16 * v(4) + 32 * v(5) + 64 * v(6) + 128 * v(7)
    BY <1>3, BitsOfXor
  <2> HIDE DEF u, v
  <2>3. \A k \in 0 .. 7 : u(k) = v(k)
    <3>1. /\ u(0) = v(0) /\ u(1) = v(1) /\ u(2) = v(2) /\ u(3) = v(3)
          /\ u(4) = v(4) /\ u(5) = v(5) /\ u(6) = v(6) /\ u(7) = v(7)
      <4>1. /\ u(0) \in {0, 1} /\ u(1) \in {0, 1} /\ u(2) \in {0, 1} /\ u(3) \in {0, 1}
            /\ u(4) \in {0, 1} /\ u(5) \in {0, 1} /\ u(6) \in {0, 1} /\ u(7) \in {0, 1}
            /\ v(0) \in {0, 1} /\ v(1) \in {0, 1} /\ v(2) \in {0, 1} /\ v(3) \in {0, 1}
            /\ v(4) \in {0, 1} /\ v(5) \in {0, 1} /\ v(6) \in {0, 1} /\ v(7) \in {0, 1}
        BY <2>1
      <4>2. u(7) = v(7)
        BY <2>2, <4>1
      <4>3. u(6) = v(6)
        BY <2>2, <4>1, <4>2
      <4>4. u(5) = v(5)
        BY <2>2, <4>1, <4>2, <4>3
      <4>5. u(4) = v(4)
        BY <2>2, <4>1, <4>2, <4>3, <4>4
      <4> QED
        BY <2>2, <4>1, <4>2, <4>3, <4>4, <4>5
    <3> QED
      BY <3>1
  <2>4. \A k \in 0 .. 7 : BitAt(x, k) = BitAt(y, k)
    BY <2>1, <2>3
  <2> QED
    BY <2>4, BitsOfByte
<1> QED
  BY <1>2, <1>3

\* Eight turns of the inner loop keep bytes apart, because one does: the last
\* bit tells whether the polynomial was taken, and shifting loses no other bit.
LEMMA CrcBitsApart ==
  /\ CrcBits \in [Byte -> Byte]
  /\ \A x, y \in Byte : CrcBits[x] = CrcBits[y] => x = y
<1> DEFINE Apart(f) == f \in [Byte -> Byte] /\ \A x, y \in Byte : f[x] = f[y] => x = y
<1>1. Apart(CrcBit)
  <2>1. \A c \in Byte : CrcBit[c] = IF c >= 128 THEN Xor((2 * c) % 256, 49) ELSE 2 * c
    BY DEF CrcBit
  <2>2. \A c \in Byte : (2 * c) % 256 \in Byte /\ (c < 128 => 2 * c \in Byte)
    BY DEF Byte
  <2>3. 49 \in Byte
    BY DEF Byte
  <2>4. \A c \in Byte : c >= 128 => Xor((2 * c) % 256, 49) % 2 = 1
    <3> SUFFICES ASSUME NEW c \in Byte, c >= 128 PROVE Xor((2 * c) % 256, 49) % 2 = 1
      OBVIOUS
    <3>1. Xor((2 * c) % 256, 49) % 2 = (((2 * c) % 256) + 49) % 2
      BY <2>2, <2>3 DEF Xor, Byte
    <3> QED
      BY <3>1 DEF Byte
  <2>5. CrcBit \in [Byte -> Byte]
    <3>1. \A c \in Byte : (IF c >= 128 THEN Xor((2 * c) % 256, 49) ELSE 2 * c) \in Byte
      <4> SUFFICES ASSUME NEW c \in Byte
                   PROVE  (IF c >= 128 THEN Xor((2 * c) % 256, 49) ELSE 2 * c) \in Byte
        OBVIOUS
      <4>1. c < 128 \/ c >= 128
        BY DEF Byte
      <4> QED
        BY <2>2, <2>3, <4>1, XorOfBytes
    <3> QED
      BY <3>1 DEF CrcBit
  <2>6. \A c \in Byte : ~(c < 128 /\ c >= 128)
    BY DEF Byte
  <2>7. ASSUME NEW x \in Byte, NEW y \in Byte, CrcBit[x] = CrcBit[y]
        PROVE  x = y
    <3>1. CASE x >= 128 /\ y >= 128
      <4>1. (2 * x) % 256 = (2 * y) % 256
        BY <2>1, <2>2, <2>3, <2>7, <3>1, XorApart
      <4> QED
        BY <3>1, <4>1 DEF Byte
    <3>2. CASE x < 128 /\ y < 128
      <4>1. CrcBit[x] = 2 * x /\ CrcBit[y] = 2 * y
        BY <2>1, <2>6, <3>2
      <4> QED
        <5>1. 2 * x = 2 * y
          BY <2>7, <4>1
        <5> QED
          BY <5>1 DEF Byte
    <3>3. CASE x < 128 /\ y >= 128
      <4>1. 2 * x = Xor((2 * y) % 256, 49)
        BY <2>1, <2>7, <2>6, <3>3
      <4>2. (2 * x) % 2 = 0
        BY DEF Byte
      <4> QED
        BY <2>4, <3>3, <4>1, <4>2
    <3>4. CASE x >= 128 /\ y < 128
      <4>1. 2 * y = Xor((2 * x) % 256, 49)
        BY <2>1, <2>7, <2>6, <3>4
      <4>2. (2 * y) % 2 = 0
        BY DEF Byte
      <4> QED
        BY <2>4, <3>4, <4>1, <4>2
    <3> QED
      BY <3>1, <3>2, <3>3, <3>4 DEF Byte
  <2> QED
    BY <2>5, <2>7
<1>2. ASSUME NEW f, Apart(f)
      PROVE  Apart(Twice(f))
  BY <1>2 DEF Twice
<1> HIDE DEF Apart
<1>3. Apart(CrcBits)
  BY <1>1, <1>2 DEF CrcBits
<1> QED
  BY <1>3 DEF Apart

\* A byte more keeps the CRC a byte.
LEMMA CrcByteIsByte ==
  ASSUME NEW c \in Byte, NEW x \in Byte
  PROVE  CrcByte(c, x) \in Byte
<1>1. Xor(c, x) \in Byte
  BY XorOfBytes
<1> QED
  BY <1>1, CrcBitsApart DEF CrcByte

\* Of bytes the CRC is a byte.
LEMMA CrcOfBytes ==
  ASSUME NEW bytes, \A k \in 1 .. 6 : bytes[k] \in Byte
  PROVE  Crc(bytes) \in Byte
<1>1. ASSUME NEW crc \in Byte, NEW data \in Byte
      PROVE  CrcByte(crc, data) \in Byte
  BY CrcByteIsByte
<1>2. 255 \in Byte
  BY DEF Byte
<1> QED
  BY <1>1, <1>2 DEF Crc

\* Eight bits make a byte that has them.
LEMMA ByteOfBits ==
  ASSUME NEW a \in {0, 1}, NEW b \in {0, 1}, NEW c \in {0, 1}, NEW d \in {0, 1},
         NEW e \in {0, 1}, NEW f \in {0, 1}, NEW g \in {0, 1}, NEW h \in {0, 1}, NEW x,
         x = a + 2 * b + 4 * c + 8 * d + 16 * e + 32 * f + 64 * g + 128 * h
  PROVE  /\ x \in Byte
         /\ BitAt(x, 0) = a /\ BitAt(x, 1) = b /\ BitAt(x, 2) = c /\ BitAt(x, 3) = d
         /\ BitAt(x, 4) = e /\ BitAt(x, 5) = f /\ BitAt(x, 6) = g /\ BitAt(x, 7) = h
<1>1. x \in Byte
  BY DEF Byte
<1>2. BitAt(x, 0) = a /\ BitAt(x, 1) = b
  BY DEF BitAt
<1>3. BitAt(x, 2) = c /\ BitAt(x, 3) = d
  BY DEF BitAt
<1>4. BitAt(x, 4) = e /\ BitAt(x, 5) = f
  BY DEF BitAt
<1>5. BitAt(x, 6) = g /\ BitAt(x, 7) = h
  BY DEF BitAt
<1> QED
  BY <1>1, <1>2, <1>3, <1>4, <1>5

\* The bits of x ^ y.
LEMMA XorBits ==
  ASSUME NEW x \in Byte, NEW y \in Byte
  PROVE  \A k \in 0 .. 7 : BitAt(Xor(x, y), k) = (BitAt(x, k) + BitAt(y, k)) % 2
<1> DEFINE u(k) == (BitAt(x, k) + BitAt(y, k)) % 2
<1>1. \A k \in 0 .. 7 : u(k) \in {0, 1}
  <2>1. ASSUME NEW k \in 0 .. 7
        PROVE  u(k) \in {0, 1}
    <3>1. BitAt(x, k) \in {0, 1} /\ BitAt(y, k) \in {0, 1}
      BY BitsOfByte
    <3> QED
      BY <3>1, BitsApart
  <2> QED
    BY <2>1
<1>2. Xor(x, y) = u(0) + 2 * u(1) + 4 * u(2) + 8 * u(3) + 16 * u(4) + 32 * u(5)
                  + 64 * u(6) + 128 * u(7)
  BY BitsOfXor
<1> HIDE DEF u
<1>3. /\ BitAt(Xor(x, y), 0) = u(0) /\ BitAt(Xor(x, y), 1) = u(1)
      /\ BitAt(Xor(x, y), 2) = u(2) /\ BitAt(Xor(x, y), 3) = u(3)
      /\ BitAt(Xor(x, y), 4) = u(4) /\ BitAt(Xor(x, y), 5) = u(5)
      /\ BitAt(Xor(x, y), 6) = u(6) /\ BitAt(Xor(x, y), 7) = u(7)
  <2>1. /\ u(0) \in {0, 1} /\ u(1) \in {0, 1} /\ u(2) \in {0, 1} /\ u(3) \in {0, 1}
        /\ u(4) \in {0, 1} /\ u(5) \in {0, 1} /\ u(6) \in {0, 1} /\ u(7) \in {0, 1}
    BY <1>1
  <2> QED
    BY ONLY <1>2, <2>1, ByteOfBits
<1>4. \A k \in 0 .. 7 : BitAt(Xor(x, y), k) = u(k)
  BY <1>3
<1> QED
  BY <1>4 DEF u

\* Bytes with the same bits are the same.
LEMMA SameBits ==
  ASSUME NEW x \in Byte, NEW y \in Byte, \A k \in 0 .. 7 : BitAt(x, k) = BitAt(y, k)
  PROVE  x = y
BY BitsOfByte

\* A turn of the inner loop shifts the bits, and turns over three if the one
\* shifted out was set.
LEMMA BitsOfCrcBit ==
  ASSUME NEW c \in Byte
  PROVE  /\ CrcBit[c] \in Byte
         /\ BitAt(CrcBit[c], 0) = BitAt(c, 7)
         /\ BitAt(CrcBit[c], 1) = BitAt(c, 0)
         /\ BitAt(CrcBit[c], 2) = BitAt(c, 1)
         /\ BitAt(CrcBit[c], 3) = BitAt(c, 2)
         /\ BitAt(CrcBit[c], 4) = (BitAt(c, 3) + BitAt(c, 7)) % 2
         /\ BitAt(CrcBit[c], 5) = (BitAt(c, 4) + BitAt(c, 7)) % 2
         /\ BitAt(CrcBit[c], 6) = BitAt(c, 5)
         /\ BitAt(CrcBit[c], 7) = BitAt(c, 6)
<1> DEFINE s == (2 * c) % 256
<1>1. /\ \A k \in 0 .. 7 : BitAt(c, k) \in {0, 1}
      /\ c = BitAt(c, 0) + 2 * BitAt(c, 1) + 4 * BitAt(c, 2) + 8 * BitAt(c, 3)
             + 16 * BitAt(c, 4) + 32 * BitAt(c, 5) + 64 * BitAt(c, 6) + 128 * BitAt(c, 7)
  BY BitsOfByte
<1>2. /\ BitAt(c, 0) \in {0, 1} /\ BitAt(c, 1) \in {0, 1} /\ BitAt(c, 2) \in {0, 1}
      /\ BitAt(c, 3) \in {0, 1} /\ BitAt(c, 4) \in {0, 1} /\ BitAt(c, 5) \in {0, 1}
      /\ BitAt(c, 6) \in {0, 1} /\ BitAt(c, 7) \in {0, 1}
  BY <1>1
<1>3. s = 0 + 2 * BitAt(c, 0) + 4 * BitAt(c, 1) + 8 * BitAt(c, 2) + 16 * BitAt(c, 3)
          + 32 * BitAt(c, 4) + 64 * BitAt(c, 5) + 128 * BitAt(c, 6)
  BY <1>1, <1>2
<1>4. /\ s \in Byte
      /\ BitAt(s, 0) = 0 /\ BitAt(s, 1) = BitAt(c, 0)
      /\ BitAt(s, 2) = BitAt(c, 1) /\ BitAt(s, 3) = BitAt(c, 2)
      /\ BitAt(s, 4) = BitAt(c, 3) /\ BitAt(s, 5) = BitAt(c, 4)
      /\ BitAt(s, 6) = BitAt(c, 5) /\ BitAt(s, 7) = BitAt(c, 6)
  <2>1. 0 \in {0, 1}
    OBVIOUS
  <2> HIDE DEF s
  <2> QED
    BY ONLY <1>2, <1>3, <2>1, ByteOfBits
<1>5. /\ 49 \in Byte
      /\ BitAt(49, 0) = 1 /\ BitAt(49, 1) = 0 /\ BitAt(49, 2) = 0 /\ BitAt(49, 3) = 0
      /\ BitAt(49, 4) = 1 /\ BitAt(49, 5) = 1 /\ BitAt(49, 6) = 0 /\ BitAt(49, 7) = 0
  BY DEF Byte, BitAt
<1>6. CrcBit[c] = IF c >= 128 THEN Xor(s, 49) ELSE 2 * c
  BY DEF CrcBit
<1> HIDE DEF s
<1>7. CASE c >= 128
  <2>1. BitAt(c, 7) = 1
    BY <1>1, <1>2, <1>7
  <2>2. CrcBit[c] = Xor(s, 49) /\ Xor(s, 49) \in Byte
    BY <1>4, <1>5, <1>6, <1>7, XorOfBytes
  <2>3. \A k \in 0 .. 7 : BitAt(CrcBit[c], k) = (BitAt(s, k) + BitAt(49, k)) % 2
    BY <1>4, <1>5, <2>2, XorBits
  <2> QED
    BY <1>2, <1>4, <1>5, <2>1, <2>2, <2>3
<1>8. CASE ~(c >= 128)
  <2>1. BitAt(c, 7) = 0 /\ s = 2 * c
    BY <1>1, <1>2, <1>3, <1>8
  <2>2. CrcBit[c] = s
    BY <1>6, <1>8, <2>1
  <2> QED
    BY <1>2, <1>4, <2>1, <2>2
<1> QED
  BY <1>7, <1>8

\* The order in which bits are added does not matter.
LEMMA BitSums ==
  ASSUME NEW a \in {0, 1}, NEW b \in {0, 1}, NEW c \in {0, 1}, NEW d \in {0, 1}
  PROVE  (((a + b) % 2) + ((c + d) % 2)) % 2 = (((a + c) % 2) + ((b + d) % 2)) % 2
OBVIOUS

\* Nor the order in which bytes are combined.
LEMMA XorPairs ==
  ASSUME NEW a \in Byte, NEW b \in Byte, NEW c \in Byte, NEW d \in Byte
  PROVE  Xor(Xor(a, b), Xor(c, d)) = Xor(Xor(a, c), Xor(b, d))
<1>1. /\ Xor(a, b) \in Byte /\ Xor(c, d) \in Byte
      /\ Xor(a, c) \in Byte /\ Xor(b, d) \in Byte
  BY XorOfBytes
<1>2. /\ Xor(Xor(a, b), Xor(c, d)) \in Byte
      /\ Xor(Xor(a, c), Xor(b, d)) \in Byte
  BY <1>1, XorOfBytes
<1>3. ASSUME NEW k \in 0 .. 7
      PROVE  BitAt(Xor(Xor(a, b), Xor(c, d)), k) = BitAt(Xor(Xor(a, c), Xor(b, d)), k)
  <2>1. /\ BitAt(a, k) \in {0, 1} /\ BitAt(b, k) \in {0, 1}
        /\ BitAt(c, k) \in {0, 1} /\ BitAt(d, k) \in {0, 1}
    BY BitsOfByte
  <2>2. /\ BitAt(Xor(Xor(a, b), Xor(c, d)), k)
             = (((BitAt(a, k) + BitAt(b, k)) % 2) + ((BitAt(c, k) + BitAt(d, k)) % 2)) % 2
        /\ BitAt(Xor(Xor(a, c), Xor(b, d)), k)
             = (((BitAt(a, k) + BitAt(c, k)) % 2) + ((BitAt(b, k) + BitAt(d, k)) % 2)) % 2
    BY <1>1, XorBits
  <2> QED
    BY <2>1, <2>2, BitSums
<1> QED
  BY <1>2, <1>3, SameBits

\* What a turn makes of x ^ y is what it makes of x and of y, combined.
LEMMA CrcBitLinear ==
  ASSUME NEW x \in Byte, NEW y \in Byte
  PROVE  CrcBit[Xor(x, y)] = Xor(CrcBit[x], CrcBit[y])
<1> DEFINE z == Xor(x, y)
           l == CrcBit[z]
           r == Xor(CrcBit[x], CrcBit[y])
<1>1. z \in Byte /\ CrcBit[x] \in Byte /\ CrcBit[y] \in Byte
  BY XorOfBytes, BitsOfCrcBit
<1>2. l \in Byte /\ r \in Byte
  BY <1>1, XorOfBytes, BitsOfCrcBit
<1>3. \A k \in 0 .. 7 : BitAt(z, k) = (BitAt(x, k) + BitAt(y, k)) % 2
  BY XorBits
<1>4. \A k \in 0 .. 7 : BitAt(r, k) = (BitAt(CrcBit[x], k) + BitAt(CrcBit[y], k)) % 2
  BY <1>1, XorBits
<1>5. \A k \in 0 .. 7 : BitAt(x, k) \in {0, 1} /\ BitAt(y, k) \in {0, 1}
  BY BitsOfByte
<1> HIDE DEF z, r
<1>6. /\ BitAt(l, 0) = BitAt(r, 0) /\ BitAt(l, 1) = BitAt(r, 1)
      /\ BitAt(l, 2) = BitAt(r, 2) /\ BitAt(l, 3) = BitAt(r, 3)
      /\ BitAt(l, 6) = BitAt(r, 6) /\ BitAt(l, 7) = BitAt(r, 7)
  BY <1>1, <1>3, <1>4, BitsOfCrcBit
<1>7. BitAt(l, 4) = BitAt(r, 4)
  <2>1. /\ BitAt(l, 4) = (((BitAt(x, 3) + BitAt(y, 3)) % 2)
                           + ((BitAt(x, 7) + BitAt(y, 7)) % 2)) % 2
        /\ BitAt(r, 4) = (((BitAt(x, 3) + BitAt(x, 7)) % 2)
                           + ((BitAt(y, 3) + BitAt(y, 7)) % 2)) % 2
    BY <1>1, <1>3, <1>4, BitsOfCrcBit
  <2>2. /\ BitAt(x, 3) \in {0, 1} /\ BitAt(y, 3) \in {0, 1}
        /\ BitAt(x, 7) \in {0, 1} /\ BitAt(y, 7) \in {0, 1}
    BY <1>5
  <2> QED
    BY <2>1, <2>2, BitSums
<1>8. BitAt(l, 5) = BitAt(r, 5)
  <2>1. /\ BitAt(l, 5) = (((BitAt(x, 4) + BitAt(y, 4)) % 2)
                           + ((BitAt(x, 7) + BitAt(y, 7)) % 2)) % 2
        /\ BitAt(r, 5) = (((BitAt(x, 4) + BitAt(x, 7)) % 2)
                           + ((BitAt(y, 4) + BitAt(y, 7)) % 2)) % 2
    BY <1>1, <1>3, <1>4, BitsOfCrcBit
  <2>2. /\ BitAt(x, 4) \in {0, 1} /\ BitAt(y, 4) \in {0, 1}
        /\ BitAt(x, 7) \in {0, 1} /\ BitAt(y, 7) \in {0, 1}
    BY <1>5
  <2> QED
    BY <2>1, <2>2, BitSums
<1> HIDE DEF l
<1>9. \A k \in 0 .. 7 : BitAt(l, k) = BitAt(r, k)
  BY <1>6, <1>7, <1>8
<1>10. l = r
  BY <1>2, <1>9, SameBits
<1> QED
  BY <1>10 DEF l, r, z

\* Whether a byte has an odd number of bits set.
Parity(x) ==
  (BitAt(x, 0) + BitAt(x, 1) + BitAt(x, 2) + BitAt(x, 3)
   + BitAt(x, 4) + BitAt(x, 5) + BitAt(x, 6) + BitAt(x, 7)) % 2

\* Parities add up.
LEMMA ParityOfXor ==
  ASSUME NEW x \in Byte, NEW y \in Byte
  PROVE  /\ Parity(x) \in {0, 1} /\ Parity(y) \in {0, 1}
         /\ Parity(Xor(x, y)) = (Parity(x) + Parity(y)) % 2
<1> DEFINE a(k) == BitAt(x, k)
           b(k) == BitAt(y, k)
<1>1. \A k \in 0 .. 7 : a(k) \in {0, 1} /\ b(k) \in {0, 1}
  BY BitsOfByte
<1>2. \A k \in 0 .. 7 : BitAt(Xor(x, y), k) = (a(k) + b(k)) % 2
  BY XorBits
<1>3. /\ Parity(x) = (a(0) + a(1) + a(2) + a(3) + a(4) + a(5) + a(6) + a(7)) % 2
      /\ Parity(y) = (b(0) + b(1) + b(2) + b(3) + b(4) + b(5) + b(6) + b(7)) % 2
  BY DEF Parity
<1> HIDE DEF a, b
<1>4. Parity(Xor(x, y)) =
        (((a(0) + b(0)) % 2) + ((a(1) + b(1)) % 2) + ((a(2) + b(2)) % 2)
         + ((a(3) + b(3)) % 2) + ((a(4) + b(4)) % 2) + ((a(5) + b(5)) % 2)
         + ((a(6) + b(6)) % 2) + ((a(7) + b(7)) % 2)) % 2
  BY <1>2 DEF Parity
<1>5. /\ a(0) \in {0, 1} /\ a(1) \in {0, 1} /\ a(2) \in {0, 1} /\ a(3) \in {0, 1}
      /\ a(4) \in {0, 1} /\ a(5) \in {0, 1} /\ a(6) \in {0, 1} /\ a(7) \in {0, 1}
      /\ b(0) \in {0, 1} /\ b(1) \in {0, 1} /\ b(2) \in {0, 1} /\ b(3) \in {0, 1}
      /\ b(4) \in {0, 1} /\ b(5) \in {0, 1} /\ b(6) \in {0, 1} /\ b(7) \in {0, 1}
  BY <1>1
<1> QED
  BY ONLY <1>3, <1>4, <1>5

\* A turn keeps the parity: the polynomial without its first term turns over
\* three bits when one is shifted out.
LEMMA CrcBitKeepsParity ==
  ASSUME NEW c \in Byte
  PROVE  Parity(CrcBit[c]) = Parity(c)
<1> DEFINE a(k) == BitAt(c, k)
<1>1. \A k \in 0 .. 7 : a(k) \in {0, 1}
  BY BitsOfByte
<1>2. Parity(CrcBit[c]) =
        (a(7) + a(0) + a(1) + a(2) + ((a(3) + a(7)) % 2) + ((a(4) + a(7)) % 2)
         + a(5) + a(6)) % 2
  BY BitsOfCrcBit DEF Parity
<1>3. Parity(c) = (a(0) + a(1) + a(2) + a(3) + a(4) + a(5) + a(6) + a(7)) % 2
  BY DEF Parity
<1> HIDE DEF a
<1>4. /\ a(0) \in {0, 1} /\ a(1) \in {0, 1} /\ a(2) \in {0, 1} /\ a(3) \in {0, 1}
      /\ a(4) \in {0, 1} /\ a(5) \in {0, 1} /\ a(6) \in {0, 1} /\ a(7) \in {0, 1}
  BY <1>1
<1> QED
  BY ONLY <1>2, <1>3, <1>4

\* What holds of a turn because of these holds of the eight turns of a byte.
LEMMA CrcBitsLinear ==
  /\ CrcBits[0] = 0
  /\ \A x, y \in Byte : CrcBits[Xor(x, y)] = Xor(CrcBits[x], CrcBits[y])
  /\ \A x \in Byte : Parity(CrcBits[x]) = Parity(x)
<1> DEFINE Linear(f) ==
             /\ f \in [Byte -> Byte] /\ f[0] = 0
             /\ \A x, y \in Byte : f[Xor(x, y)] = Xor(f[x], f[y])
             /\ \A x \in Byte : Parity(f[x]) = Parity(x)
<1>1. Linear(CrcBit)
  <2>1. CrcBit \in [Byte -> Byte]
    <3>1. \A c \in Byte : CrcBit[c] \in Byte
      BY BitsOfCrcBit
    <3> QED
      BY <3>1 DEF CrcBit
  <2>2. CrcBit[0] = 0
    BY DEF CrcBit, Byte
  <2> QED
    BY <2>1, <2>2, CrcBitLinear, CrcBitKeepsParity
<1>2. ASSUME NEW f, Linear(f)
      PROVE  Linear(Twice(f))
  <2>1. Twice(f) \in [Byte -> Byte] /\ \A x \in Byte : Twice(f)[x] = f[f[x]]
    BY <1>2 DEF Twice
  <2>4. 0 \in Byte
    BY DEF Byte
  <2>2. \A x, y \in Byte : Xor(x, y) \in Byte
    BY XorOfBytes
  <2>3. ASSUME NEW x \in Byte, NEW y \in Byte
        PROVE  Twice(f)[Xor(x, y)] = Xor(Twice(f)[x], Twice(f)[y])
    BY <1>2, <2>1, <2>2
  <2> QED
    BY <1>2, <2>1, <2>3, <2>4
<1> HIDE DEF Linear
<1>3. Linear(CrcBits)
  BY <1>1, <1>2 DEF CrcBits
<1> QED
  BY <1>3 DEF Linear

\* The CRC of what noise does, begun at 0.
CrcOfNoise(noise) ==
  LET after(crc, k) == CrcByte(crc, noise[k])
  IN after(after(after(after(after(after(0, 1), 2), 3), 4), 5), 6)

\* Noise in the CRC so far and in a byte, together.
LEMMA CrcByteLinear ==
  ASSUME NEW c \in Byte, NEW d \in Byte, NEW x \in Byte, NEW y \in Byte
  PROVE  CrcByte(Xor(c, d), Xor(x, y)) = Xor(CrcByte(c, x), CrcByte(d, y))
<1>1. Xor(c, x) \in Byte /\ Xor(d, y) \in Byte
  BY XorOfBytes
<1>2. Xor(Xor(c, d), Xor(x, y)) = Xor(Xor(c, x), Xor(d, y))
  BY XorPairs
<1> QED
  BY <1>1, <1>2, CrcBitsLinear DEF CrcByte

\* Noise turns over in the CRC the bits of its own CRC, whatever the frame.
LEMMA CrcOfDisturbed ==
  ASSUME NEW f, NEW noise, \A k \in 1 .. 7 : f[k] \in Byte /\ noise[k] \in Byte
  PROVE  /\ CrcOfNoise(noise) \in Byte
         /\ Crc(Disturbed(f, noise)) = Xor(Crc(f), CrcOfNoise(noise))
<1> DEFINE g == Disturbed(f, noise)
           F1 == CrcByte(255, f[1])
           F2 == CrcByte(F1, f[2])
           F3 == CrcByte(F2, f[3])
           F4 == CrcByte(F3, f[4])
           F5 == CrcByte(F4, f[5])
           F6 == CrcByte(F5, f[6])
           N1 == CrcByte(0, noise[1])
           N2 == CrcByte(N1, noise[2])
           N3 == CrcByte(N2, noise[3])
           N4 == CrcByte(N3, noise[4])
           N5 == CrcByte(N4, noise[5])
           N6 == CrcByte(N5, noise[6])
           G1 == CrcByte(255, g[1])
           G2 == CrcByte(G1, g[2])
           G3 == CrcByte(G2, g[3])
           G4 == CrcByte(G3, g[4])
           G5 == CrcByte(G4, g[5])
           G6 == CrcByte(G5, g[6])
<1>1. Crc(f) = F6 /\ CrcOfNoise(noise) = N6 /\ Crc(g) = G6
  BY DEF Crc, CrcOfNoise
<1>2. \A k \in 1 .. 6 : /\ f[k] \in Byte /\ noise[k] \in Byte
                        /\ g[k] = Xor(f[k], noise[k])
  BY DEF Disturbed
<1> HIDE DEF g
<1>3. ASSUME NEW c \in Byte, NEW d \in Byte, NEW k \in 1 .. 6
      PROVE  /\ CrcByte(c, f[k]) \in Byte /\ CrcByte(d, noise[k]) \in Byte
             /\ CrcByte(Xor(c, d), g[k]) = Xor(CrcByte(c, f[k]), CrcByte(d, noise[k]))
  <2>1. f[k] \in Byte /\ noise[k] \in Byte /\ g[k] = Xor(f[k], noise[k])
    BY <1>2
  <2>2. CrcByte(c, f[k]) \in Byte /\ CrcByte(d, noise[k]) \in Byte
    BY ONLY <2>1, c \in Byte, d \in Byte, CrcByteIsByte
  <2>3. CrcByte(Xor(c, d), Xor(f[k], noise[k])) = Xor(CrcByte(c, f[k]), CrcByte(d, noise[k]))
    BY ONLY <2>1, c \in Byte, d \in Byte, CrcByteLinear
  <2> QED
    BY <2>1, <2>2, <2>3
<1>4. 255 \in Byte /\ 0 \in Byte
  BY DEF Byte
<1>5. F1 \in Byte /\ N1 \in Byte /\ G1 = Xor(F1, N1)
  <2>1. Xor(255, 0) = 255
    BY <1>4, XorOfBytes
  <2> QED
    BY <1>3, <1>4, <2>1
<1> HIDE DEF F1, N1, G1
<1>6. F2 \in Byte /\ N2 \in Byte /\ G2 = Xor(F2, N2)
  BY <1>3, <1>5
<1> HIDE DEF F2, N2, G2
<1>7. F3 \in Byte /\ N3 \in Byte /\ G3 = Xor(F3, N3)
  BY <1>3, <1>6
<1> HIDE DEF F3, N3, G3
<1>8. F4 \in Byte /\ N4 \in Byte /\ G4 = Xor(F4, N4)
  BY <1>3, <1>7
<1> HIDE DEF F4, N4, G4
<1>9. F5 \in Byte /\ N5 \in Byte /\ G5 = Xor(F5, N5)
  BY <1>3, <1>8
<1> HIDE DEF F5, N5, G5
<1>10. F6 \in Byte /\ N6 \in Byte /\ G6 = Xor(F6, N6)
  BY <1>3, <1>9
<1> HIDE DEF F6, N6, G6
<1> QED
  BY <1>1, <1>10 DEF g

\* Which noise the driver does not notice: the one whose CRC comes with it.
\* The frame does not matter.
LEMMA UnnoticedNoise ==
  ASSUME NEW f, NEW noise, \A k \in 1 .. 7 : f[k] \in Byte /\ noise[k] \in Byte,
         CrcHolds(f)
  PROVE  CrcHolds(Disturbed(f, noise)) <=> CrcOfNoise(noise) = noise[7]
<1> DEFINE n == CrcOfNoise(noise)
<1>1. /\ f[7] \in Byte /\ noise[7] \in Byte /\ n \in Byte
      /\ Crc(Disturbed(f, noise)) = Xor(f[7], n)
  BY CrcOfDisturbed DEF CrcHolds
<1>2. Disturbed(f, noise)[7] = Xor(f[7], noise[7])
  BY DEF Disturbed
<1> HIDE DEF n
<1>3. Xor(f[7], n) = Xor(f[7], noise[7]) => n = noise[7]
  <2>1. Xor(f[7], n) = Xor(n, f[7]) /\ Xor(f[7], noise[7]) = Xor(noise[7], f[7])
    BY <1>1, XorApart
  <2> QED
    BY <1>1, <2>1, XorApart
<1> QED
  BY <1>1, <1>2, <1>3 DEF CrcHolds, n

\* Of all 56 bits of noise, an odd number.
Odd(noise) ==
  (Parity(noise[1]) + Parity(noise[2]) + Parity(noise[3]) + Parity(noise[4])
   + Parity(noise[5]) + Parity(noise[6]) + Parity(noise[7])) % 2 = 1

\* An odd number of wrong bits is noticed, wherever they are.
LEMMA OddNoiseNoticed ==
  ASSUME NEW noise, \A k \in 1 .. 7 : noise[k] \in Byte, Odd(noise)
  PROVE  CrcOfNoise(noise) # noise[7]
<1> DEFINE p(k) == Parity(noise[k])
           N1 == CrcByte(0, noise[1])
           N2 == CrcByte(N1, noise[2])
           N3 == CrcByte(N2, noise[3])
           N4 == CrcByte(N3, noise[4])
           N5 == CrcByte(N4, noise[5])
           N6 == CrcByte(N5, noise[6])
<1>1. CrcOfNoise(noise) = N6
  BY DEF CrcOfNoise
<1>2. ASSUME NEW c \in Byte, NEW k \in 1 .. 6
      PROVE  /\ CrcByte(c, noise[k]) \in Byte
             /\ Parity(CrcByte(c, noise[k])) = (Parity(c) + p(k)) % 2
  <2>1. noise[k] \in Byte
    OBVIOUS
  <2>2. Xor(c, noise[k]) \in Byte
    BY <2>1, XorOfBytes
  <2> QED
    BY <2>1, <2>2, ParityOfXor, CrcBitsLinear, CrcByteIsByte DEF CrcByte
<1>3. 0 \in Byte /\ Parity(0) = 0
  BY DEF Byte, Parity, BitAt
<1>4. \A k \in 1 .. 7 : p(k) \in {0, 1}
  <2>1. ASSUME NEW k \in 1 .. 7
        PROVE  p(k) \in {0, 1}
    <3>1. noise[k] \in Byte
      OBVIOUS
    <3> QED
      BY <3>1, ParityOfXor
  <2> QED
    BY <2>1
<1>5. p(7) = Parity(noise[7]) /\ (p(1) + p(2) + p(3) + p(4) + p(5) + p(6) + p(7)) % 2 = 1
  BY DEF Odd
<1> HIDE DEF p
<1>6. /\ p(1) \in {0, 1} /\ p(2) \in {0, 1} /\ p(3) \in {0, 1} /\ p(4) \in {0, 1}
      /\ p(5) \in {0, 1} /\ p(6) \in {0, 1} /\ p(7) \in {0, 1}
  BY <1>4
<1>7. N1 \in Byte /\ Parity(N1) = (p(1)) % 2
  <2>1. N1 \in Byte /\ Parity(N1) = (Parity(0) + p(1)) % 2
    BY <1>2, <1>3
  <2> HIDE DEF N1
  <2> QED
    BY ONLY <1>6, <1>3, <2>1
<1> HIDE DEF N1
<1>8. N2 \in Byte /\ Parity(N2) = (p(1) + p(2)) % 2
  <2>1. N2 \in Byte /\ Parity(N2) = (Parity(N1) + p(2)) % 2
    BY <1>2, <1>7
  <2> HIDE DEF N2
  <2> QED
    BY ONLY <1>6, <1>7, <2>1
<1> HIDE DEF N2
<1>9. N3 \in Byte /\ Parity(N3) = (p(1) + p(2) + p(3)) % 2
  <2>1. N3 \in Byte /\ Parity(N3) = (Parity(N2) + p(3)) % 2
    BY <1>2, <1>8
  <2> HIDE DEF N3
  <2> QED
    BY ONLY <1>6, <1>8, <2>1
<1> HIDE DEF N3
<1>10. N4 \in Byte /\ Parity(N4) = (p(1) + p(2) + p(3) + p(4)) % 2
  <2>1. N4 \in Byte /\ Parity(N4) = (Parity(N3) + p(4)) % 2
    BY <1>2, <1>9
  <2> HIDE DEF N4
  <2> QED
    BY ONLY <1>6, <1>9, <2>1
<1> HIDE DEF N4
<1>11. N5 \in Byte /\ Parity(N5) = (p(1) + p(2) + p(3) + p(4) + p(5)) % 2
  <2>1. N5 \in Byte /\ Parity(N5) = (Parity(N4) + p(5)) % 2
    BY <1>2, <1>10
  <2> HIDE DEF N5
  <2> QED
    BY ONLY <1>6, <1>10, <2>1
<1> HIDE DEF N5
<1>12. N6 \in Byte /\ Parity(N6) = (p(1) + p(2) + p(3) + p(4) + p(5) + p(6)) % 2
  <2>1. N6 \in Byte /\ Parity(N6) = (Parity(N5) + p(6)) % 2
    BY <1>2, <1>11
  <2> HIDE DEF N6
  <2> QED
    BY ONLY <1>6, <1>11, <2>1
<1> HIDE DEF N6
<1>13. Parity(N6) # p(7)
  BY ONLY <1>5, <1>6, <1>12
<1> QED
  BY <1>1, <1>5, <1>13

\* The cycle of the shift register that begins with the lowest bit. It has 127
\* places; these are the first ones, byte by byte.
Trace ==
  <<{1, 2, 4, 8, 16, 32, 64, 128},
    {49, 98, 196, 185, 67, 134, 61, 122},
    {244, 217, 131, 55, 110, 220, 137, 35},
    {70, 140, 41, 82, 164, 121, 242, 213},
    {155, 7, 14, 28, 56, 112, 224, 241},
    {211, 151, 31, 62, 124, 248, 193, 179},
    {87, 174, 109, 218, 133, 59, 118, 236}>>

\* The turns that lead from one place to the next.
LEMMA CrcBitTurns ==
  /\ CrcBit[1] = 2 /\ CrcBit[2] = 4 /\ CrcBit[4] = 8 /\ CrcBit[8] = 16 /\ CrcBit[16] = 32
  /\ CrcBit[32] = 64 /\ CrcBit[64] = 128 /\ CrcBit[128] = 49 /\ CrcBit[49] = 98 /\ CrcBit[98] = 196
  /\ CrcBit[196] = 185 /\ CrcBit[185] = 67 /\ CrcBit[67] = 134 /\ CrcBit[134] = 61 /\ CrcBit[61] = 122
  /\ CrcBit[122] = 244 /\ CrcBit[244] = 217 /\ CrcBit[217] = 131 /\ CrcBit[131] = 55 /\ CrcBit[55] = 110
  /\ CrcBit[110] = 220 /\ CrcBit[220] = 137 /\ CrcBit[137] = 35 /\ CrcBit[35] = 70 /\ CrcBit[70] = 140
  /\ CrcBit[140] = 41 /\ CrcBit[41] = 82 /\ CrcBit[82] = 164 /\ CrcBit[164] = 121 /\ CrcBit[121] = 242
  /\ CrcBit[242] = 213 /\ CrcBit[213] = 155 /\ CrcBit[155] = 7 /\ CrcBit[7] = 14 /\ CrcBit[14] = 28
  /\ CrcBit[28] = 56 /\ CrcBit[56] = 112 /\ CrcBit[112] = 224 /\ CrcBit[224] = 241 /\ CrcBit[241] = 211
  /\ CrcBit[211] = 151 /\ CrcBit[151] = 31 /\ CrcBit[31] = 62 /\ CrcBit[62] = 124 /\ CrcBit[124] = 248
  /\ CrcBit[248] = 193 /\ CrcBit[193] = 179 /\ CrcBit[179] = 87 /\ CrcBit[87] = 174 /\ CrcBit[174] = 109
  /\ CrcBit[109] = 218 /\ CrcBit[218] = 133 /\ CrcBit[133] = 59 /\ CrcBit[59] = 118 /\ CrcBit[118] = 236
<1>1. /\ CrcBit[1] = 2 /\ CrcBit[2] = 4 /\ CrcBit[4] = 8 /\ CrcBit[8] = 16 /\ CrcBit[16] = 32
      /\ CrcBit[32] = 64 /\ CrcBit[64] = 128 /\ CrcBit[128] = 49 /\ CrcBit[49] = 98 /\ CrcBit[98] = 196
      /\ CrcBit[196] = 185 /\ CrcBit[185] = 67 /\ CrcBit[67] = 134 /\ CrcBit[134] = 61 /\ CrcBit[61] = 122
  BY DEF CrcBit, Xor, Byte
<1>2. /\ CrcBit[122] = 244 /\ CrcBit[244] = 217 /\ CrcBit[217] = 131 /\ CrcBit[131] = 55 /\ CrcBit[55] = 110
      /\ CrcBit[110] = 220 /\ CrcBit[220] = 137 /\ CrcBit[137] = 35 /\ CrcBit[35] = 70 /\ CrcBit[70] = 140
      /\ CrcBit[140] = 41 /\ CrcBit[41] = 82 /\ CrcBit[82] = 164 /\ CrcBit[164] = 121 /\ CrcBit[121] = 242
  BY DEF CrcBit, Xor, Byte
<1>3. /\ CrcBit[242] = 213 /\ CrcBit[213] = 155 /\ CrcBit[155] = 7 /\ CrcBit[7] = 14 /\ CrcBit[14] = 28
      /\ CrcBit[28] = 56 /\ CrcBit[56] = 112 /\ CrcBit[112] = 224 /\ CrcBit[224] = 241 /\ CrcBit[241] = 211
      /\ CrcBit[211] = 151 /\ CrcBit[151] = 31 /\ CrcBit[31] = 62 /\ CrcBit[62] = 124 /\ CrcBit[124] = 248
  BY DEF CrcBit, Xor, Byte
<1>4. /\ CrcBit[248] = 193 /\ CrcBit[193] = 179 /\ CrcBit[179] = 87 /\ CrcBit[87] = 174 /\ CrcBit[174] = 109
      /\ CrcBit[109] = 218 /\ CrcBit[218] = 133 /\ CrcBit[133] = 59 /\ CrcBit[59] = 118 /\ CrcBit[118] = 236
  BY DEF CrcBit, Xor, Byte
<1> QED
  BY <1>1, <1>2, <1>3, <1>4

\* A byte takes a place on the cycle eight further.
LEMMA CrcBitsTrace ==
  /\ \A m \in 1 .. 7 : Trace[m] \subseteq Byte \ {0}
  /\ \A m \in 1 .. 6 : \A x \in Trace[m] : CrcBits[x] \in Trace[m + 1]
  /\ \A m \in 2 .. 7 : Trace[m] \cap Trace[1] = {}
  /\ CrcBits[1] = 49
<1> DEFINE f2 == Twice(CrcBit)
           f4 == Twice(f2)
<1>1. \A x \in Byte : f2[x] = CrcBit[CrcBit[x]]
  BY DEF Twice
<1>2. CrcBits = Twice(f4)
  BY DEF CrcBits
<1> HIDE DEF f2
<1>3. \A x \in Byte : f4[x] = f2[f2[x]]
  BY DEF Twice
<1> HIDE DEF f4
<1>4. \A x \in Byte : CrcBits[x] = f4[f4[x]]
  BY <1>2 DEF Twice
<1>5. {1, 2, 4, 8, 16, 32, 64, 128, 49, 98,
       196, 185, 67, 134, 61, 122, 244, 217, 131, 55,
       110, 220, 137, 35, 70, 140, 41, 82, 164, 121,
       242, 213, 155, 7, 14, 28, 56, 112, 224, 241,
       211, 151, 31, 62, 124, 248, 193, 179, 87, 174,
       109, 218, 133, 59, 118, 236} \subseteq Byte
  BY DEF Byte
<1>6. /\ f2[1] = 4 /\ f2[2] = 8 /\ f2[4] = 16 /\ f2[8] = 32 /\ f2[16] = 64
      /\ f2[32] = 128 /\ f2[64] = 49 /\ f2[128] = 98 /\ f2[49] = 196 /\ f2[98] = 185
      /\ f2[196] = 67 /\ f2[185] = 134 /\ f2[67] = 61 /\ f2[134] = 122 /\ f2[61] = 244
      /\ f2[122] = 217 /\ f2[244] = 131 /\ f2[217] = 55 /\ f2[131] = 110 /\ f2[55] = 220
      /\ f2[110] = 137 /\ f2[220] = 35 /\ f2[137] = 70 /\ f2[35] = 140 /\ f2[70] = 41
      /\ f2[140] = 82 /\ f2[41] = 164 /\ f2[82] = 121 /\ f2[164] = 242 /\ f2[121] = 213
      /\ f2[242] = 155 /\ f2[213] = 7 /\ f2[155] = 14 /\ f2[7] = 28 /\ f2[14] = 56
      /\ f2[28] = 112 /\ f2[56] = 224 /\ f2[112] = 241 /\ f2[224] = 211 /\ f2[241] = 151
      /\ f2[211] = 31 /\ f2[151] = 62 /\ f2[31] = 124 /\ f2[62] = 248 /\ f2[124] = 193
      /\ f2[248] = 179 /\ f2[193] = 87 /\ f2[179] = 174 /\ f2[87] = 109 /\ f2[174] = 218
      /\ f2[109] = 133 /\ f2[218] = 59 /\ f2[133] = 118 /\ f2[59] = 236
  BY ONLY <1>1, <1>5, CrcBitTurns
<1>7. /\ f4[1] = 16 /\ f4[2] = 32 /\ f4[4] = 64 /\ f4[8] = 128 /\ f4[16] = 49
      /\ f4[32] = 98 /\ f4[64] = 196 /\ f4[128] = 185 /\ f4[49] = 67 /\ f4[98] = 134
      /\ f4[196] = 61 /\ f4[185] = 122 /\ f4[67] = 244 /\ f4[134] = 217 /\ f4[61] = 131
      /\ f4[122] = 55 /\ f4[244] = 110 /\ f4[217] = 220 /\ f4[131] = 137 /\ f4[55] = 35
      /\ f4[110] = 70 /\ f4[220] = 140 /\ f4[137] = 41 /\ f4[35] = 82 /\ f4[70] = 164
      /\ f4[140] = 121 /\ f4[41] = 242 /\ f4[82] = 213 /\ f4[164] = 155 /\ f4[121] = 7
      /\ f4[242] = 14 /\ f4[213] = 28 /\ f4[155] = 56 /\ f4[7] = 112 /\ f4[14] = 224
      /\ f4[28] = 241 /\ f4[56] = 211 /\ f4[112] = 151 /\ f4[224] = 31 /\ f4[241] = 62
      /\ f4[211] = 124 /\ f4[151] = 248 /\ f4[31] = 193 /\ f4[62] = 179 /\ f4[124] = 87
      /\ f4[248] = 174 /\ f4[193] = 109 /\ f4[179] = 218 /\ f4[87] = 133 /\ f4[174] = 59
      /\ f4[109] = 118 /\ f4[218] = 236
  BY ONLY <1>3, <1>5, <1>6
<1>8. /\ CrcBits[1] = 49 /\ CrcBits[2] = 98 /\ CrcBits[4] = 196 /\ CrcBits[8] = 185
      /\ CrcBits[16] = 67 /\ CrcBits[32] = 134 /\ CrcBits[64] = 61 /\ CrcBits[128] = 122
      /\ CrcBits[49] = 244 /\ CrcBits[98] = 217 /\ CrcBits[196] = 131 /\ CrcBits[185] = 55
      /\ CrcBits[67] = 110 /\ CrcBits[134] = 220 /\ CrcBits[61] = 137 /\ CrcBits[122] = 35
      /\ CrcBits[244] = 70 /\ CrcBits[217] = 140 /\ CrcBits[131] = 41 /\ CrcBits[55] = 82
      /\ CrcBits[110] = 164 /\ CrcBits[220] = 121 /\ CrcBits[137] = 242 /\ CrcBits[35] = 213
      /\ CrcBits[70] = 155 /\ CrcBits[140] = 7 /\ CrcBits[41] = 14 /\ CrcBits[82] = 28
      /\ CrcBits[164] = 56 /\ CrcBits[121] = 112 /\ CrcBits[242] = 224 /\ CrcBits[213] = 241
      /\ CrcBits[155] = 211 /\ CrcBits[7] = 151 /\ CrcBits[14] = 31 /\ CrcBits[28] = 62
      /\ CrcBits[56] = 124 /\ CrcBits[112] = 248 /\ CrcBits[224] = 193 /\ CrcBits[241] = 179
      /\ CrcBits[211] = 87 /\ CrcBits[151] = 174 /\ CrcBits[31] = 109 /\ CrcBits[62] = 218
      /\ CrcBits[124] = 133 /\ CrcBits[248] = 59 /\ CrcBits[193] = 118 /\ CrcBits[179] = 236
  BY ONLY <1>4, <1>5, <1>7
<1>9. Trace[1] = {1, 2, 4, 8, 16, 32, 64, 128}
  BY DEF Trace
<1>10. Trace[2] = {49, 98, 196, 185, 67, 134, 61, 122}
  BY DEF Trace
<1>11. Trace[3] = {244, 217, 131, 55, 110, 220, 137, 35}
  BY DEF Trace
<1>12. Trace[4] = {70, 140, 41, 82, 164, 121, 242, 213}
  BY DEF Trace
<1>13. Trace[5] = {155, 7, 14, 28, 56, 112, 224, 241}
  BY DEF Trace
<1>14. Trace[6] = {211, 151, 31, 62, 124, 248, 193, 179}
  BY DEF Trace
<1>15. Trace[7] = {87, 174, 109, 218, 133, 59, 118, 236}
  BY DEF Trace
<1> HIDE DEF Trace
<1>16. \A m \in 1 .. 7 : Trace[m] \subseteq Byte \ {0}
  BY <1>5, <1>9, <1>10, <1>11, <1>12, <1>13, <1>14, <1>15
<1>17. \A x \in Trace[1] : CrcBits[x] \in Trace[2]
  BY ONLY <1>8, <1>9, <1>10
<1>18. \A x \in Trace[2] : CrcBits[x] \in Trace[3]
  BY ONLY <1>8, <1>10, <1>11
<1>19. \A x \in Trace[3] : CrcBits[x] \in Trace[4]
  BY ONLY <1>8, <1>11, <1>12
<1>20. \A x \in Trace[4] : CrcBits[x] \in Trace[5]
  BY ONLY <1>8, <1>12, <1>13
<1>21. \A x \in Trace[5] : CrcBits[x] \in Trace[6]
  BY ONLY <1>8, <1>13, <1>14
<1>22. \A x \in Trace[6] : CrcBits[x] \in Trace[7]
  BY ONLY <1>8, <1>14, <1>15
<1>23. \A m \in 2 .. 7 : Trace[m] \cap Trace[1] = {}
  BY <1>9, <1>10, <1>11, <1>12, <1>13, <1>14, <1>15
<1> QED
  BY <1>8, <1>16, <1>17, <1>18, <1>19, <1>20, <1>21, <1>22, <1>23

\* No bits make 0.
LEMMA BitsOfNothing == 0 \in Byte /\ \A k \in 0 .. 7 : BitAt(0, k) = 0
<1>1. 0 \in Byte
  BY DEF Byte
<1>2. /\ BitAt(0, 0) = 0 /\ BitAt(0, 1) = 0 /\ BitAt(0, 2) = 0 /\ BitAt(0, 3) = 0
      /\ BitAt(0, 4) = 0 /\ BitAt(0, 5) = 0 /\ BitAt(0, 6) = 0 /\ BitAt(0, 7) = 0
  BY DEF BitAt
<1> QED
  BY <1>1, <1>2

\* A byte alone in the CRC, and a byte of the frame that noise leaves alone.
LEMMA CrcByteOfOne ==
  ASSUME NEW c \in Byte
  PROVE  /\ CrcByte(0, c) = CrcBits[c] /\ CrcByte(c, 0) = CrcBits[c]
         /\ CrcBits[c] \in Byte /\ (c # 0 => CrcBits[c] # 0)
<1>1. 0 \in Byte
  BY BitsOfNothing
<1>2. Xor(c, 0) = c /\ Xor(0, c) = c
  BY <1>1, XorOfBytes, XorApart
<1>3. CrcBits[c] \in Byte /\ (c # 0 => CrcBits[c] # 0)
  BY <1>1, CrcBitsApart, CrcBitsLinear
<1> QED
  BY <1>2, <1>3 DEF CrcByte

\* Bytes that differ leave something when combined.
LEMMA XorOfDifferent ==
  ASSUME NEW c \in Byte, NEW x \in Byte, c # x
  PROVE  Xor(c, x) # 0
<1>1. \A k \in 0 .. 7 : BitAt(Xor(c, x), k) = (BitAt(c, k) + BitAt(x, k)) % 2
  BY XorBits
<1>2. PICK k \in 0 .. 7 : BitAt(c, k) # BitAt(x, k)
  BY SameBits
<1>3. BitAt(c, k) \in {0, 1} /\ BitAt(x, k) \in {0, 1}
  BY BitsOfByte
<1>4. BitAt(Xor(c, x), k) = 1
  BY <1>1, <1>2, <1>3
<1>5. BitAt(0, k) = 0
  BY BitsOfNothing
<1> QED
  BY <1>4, <1>5

\* Noise in one byte, or of one bit in each of two bytes: what it leaves in the
\* CRC is nothing before the first, then the bit on its way round the cycle,
\* and from the second on never nothing. The last byte does not undo it.
LEMMA PairOfBytesNoticed ==
  ASSUME NEW noise, NEW k \in 1 .. 7, NEW j \in 1 .. 7, k <= j,
         \A i \in 1 .. 7 : noise[i] \in Byte,
         \A i \in (1 .. 7) \ {k, j} : noise[i] = 0,
         noise[k] # 0,
         k < j => noise[k] \in Trace[1] /\ noise[j] \in Trace[1]
  PROVE  CrcOfNoise(noise) # noise[7]
<1> DEFINE Left(i, c) ==
             /\ c \in Byte
             /\ i < k => c = 0
             /\ k <= i /\ i < j => c \in Trace[i - k + 2]
             /\ j <= i => c # 0
           N1 == CrcByte(0, noise[1])
           N2 == CrcByte(N1, noise[2])
           N3 == CrcByte(N2, noise[3])
           N4 == CrcByte(N3, noise[4])
           N5 == CrcByte(N4, noise[5])
           N6 == CrcByte(N5, noise[6])
<1>1. CrcOfNoise(noise) = N6
  BY DEF CrcOfNoise
<1>2. 0 \in Byte /\ CrcBits[0] = 0
  BY ONLY BitsOfNothing, CrcBitsLinear
<1>3. ASSUME NEW i \in 1 .. 6, NEW c, Left(i - 1, c)
      PROVE  Left(i, CrcByte(c, noise[i]))
  <2> DEFINE d == CrcByte(c, noise[i])
  <2>1. c \in Byte /\ noise[i] \in Byte
    BY <1>3
  <2>2. d \in Byte
    BY <2>1, CrcByteIsByte
  <2>3. CASE i < k
    <3>1. c = 0 /\ noise[i] = 0
      BY <1>3, <2>3
    <3>2. d = 0
      BY <1>2, <3>1, CrcByteOfOne
    <3> QED
      BY <2>2, <2>3, <3>2
  <2>4. CASE i = k
    <3>1. c = 0
      BY <1>3, <2>4
    <3>2. d = CrcBits[noise[k]] /\ d # 0
      BY <2>1, <2>4, <3>1, CrcByteOfOne
    <3>3. k < j => d \in Trace[2]
      BY <3>2, CrcBitsTrace
    <3>4. k < j => i - k + 2 = 2
      BY <2>4
    <3> QED
      BY <2>2, <2>4, <3>2, <3>3, <3>4
  <2>5. CASE k < i /\ i < j
    <3>1. c \in Trace[i - k + 1] /\ noise[i] = 0 /\ i - k + 1 \in 1 .. 6
      <4>1. k <= i - 1 /\ i - 1 < j /\ (i - 1) - k + 2 = i - k + 1
        BY <2>5
      <4> QED
        BY <1>3, <2>5, <4>1
    <3>2. d = CrcBits[c]
      BY <2>1, <3>1, CrcByteOfOne
    <3>3. d \in Trace[(i - k + 1) + 1]
      BY <3>1, <3>2, CrcBitsTrace
    <3>4. (i - k + 1) + 1 = i - k + 2
      BY <2>5
    <3> QED
      BY <2>2, <2>5, <3>3, <3>4
  <2>6. CASE k < j /\ i = j
    <3>1. c \in Trace[i - k + 1] /\ i - k + 1 \in 2 .. 7
      <4>1. k <= i - 1 /\ i - 1 < j /\ (i - 1) - k + 2 = i - k + 1
        BY <2>6
      <4> QED
        BY <1>3, <2>6, <4>1
    <3>2. Trace[i - k + 1] \cap Trace[1] = {} /\ noise[i] \in Trace[1]
      BY <2>6, <3>1, CrcBitsTrace
    <3>3. Xor(c, noise[i]) # 0 /\ Xor(c, noise[i]) \in Byte
      <4>1. c # noise[i]
        BY <3>1, <3>2
      <4> QED
        BY <2>1, <4>1, XorOfDifferent, XorOfBytes
    <3>4. d # 0
      BY <3>3, CrcByteOfOne DEF CrcByte
    <3> QED
      BY <2>2, <2>6, <3>4
  <2>7. CASE j < i
    <3>1. c # 0 /\ noise[i] = 0
      BY <1>3, <2>7
    <3>2. d # 0
      BY <2>1, <3>1, CrcByteOfOne
    <3> QED
      BY <2>2, <2>7, <3>2
  <2> QED
    BY <2>3, <2>4, <2>5, <2>6, <2>7
<1>4. Left(0, 0)
  BY <1>2
<1>5. \A c : Left(6, c) => c # noise[7]
  <2> SUFFICES ASSUME NEW c, Left(6, c)
               PROVE  c # noise[7]
    OBVIOUS
  <2>1. CASE k = 7
    BY <2>1
  <2>2. CASE k < 7 /\ j = 7
    <3>1. c \in Trace[8 - k] /\ 8 - k \in 2 .. 7
      <4>1. 6 - k + 2 = 8 - k /\ k <= 6 /\ 6 < j
        BY <2>2
      <4> QED
        BY <2>2, <4>1
    <3>2. noise[7] \in Trace[1]
      BY <2>2
    <3> QED
      BY <3>1, <3>2, CrcBitsTrace
  <2>3. CASE j < 7
    <3>1. noise[7] = 0 /\ c # 0
      BY <2>3
    <3> QED
      BY <3>1
  <2> QED
    BY <2>1, <2>2, <2>3
<1> HIDE DEF Left
<1>6. Left(1, N1)
  BY <1>3, <1>4
<1> HIDE DEF N1
<1>7. Left(2, N2)
  BY <1>3, <1>6
<1> HIDE DEF N2
<1>8. Left(3, N3)
  BY <1>3, <1>7
<1> HIDE DEF N3
<1>9. Left(4, N4)
  BY <1>3, <1>8
<1> HIDE DEF N4
<1>10. Left(5, N5)
  BY <1>3, <1>9
<1> HIDE DEF N5
<1>11. Left(6, N6)
  BY <1>3, <1>10
<1> QED
  BY <1>1, <1>5, <1>11

\* Where in a frame noise is.
Places == (1 .. 7) \X (0 .. 7)

WrongBits(noise) == {p \in Places : BitAt(noise[p[1]], p[2]) = 1}

\* A byte with one bit set at most.
LEMMA LoneBit ==
  ASSUME NEW x \in Byte, NEW b \in 0 .. 7, \A c \in (0 .. 7) \ {b} : BitAt(x, c) = 0
  PROVE  x = 0 \/ x \in Trace[1]
<1>1. /\ \A k \in 0 .. 7 : BitAt(x, k) \in {0, 1}
      /\ x = BitAt(x, 0) + 2 * BitAt(x, 1) + 4 * BitAt(x, 2) + 8 * BitAt(x, 3)
             + 16 * BitAt(x, 4) + 32 * BitAt(x, 5) + 64 * BitAt(x, 6) + 128 * BitAt(x, 7)
  BY BitsOfByte
<1>2. Trace[1] = {1, 2, 4, 8, 16, 32, 64, 128}
  BY DEF Trace
<1>3. b = 0 \/ b = 1 \/ b = 2 \/ b = 3 \/ b = 4 \/ b = 5 \/ b = 6 \/ b = 7
  OBVIOUS
<1> QED
  BY <1>1, <1>2, <1>3

\* Two wrong bits at most, wherever they are, are noticed.
LEMMA TwoWrongBitsNoticed ==
  ASSUME NEW noise, \A k \in 1 .. 7 : noise[k] \in Byte,
         NEW p \in Places, NEW q \in Places, WrongBits(noise) \subseteq {p, q},
         \E k \in 1 .. 7 : noise[k] # 0
  PROVE  CrcOfNoise(noise) # noise[7]
<1>1. /\ p[1] \in 1 .. 7 /\ p[2] \in 0 .. 7 /\ p = <<p[1], p[2]>>
      /\ q[1] \in 1 .. 7 /\ q[2] \in 0 .. 7 /\ q = <<q[1], q[2]>>
  BY DEF Places
<1>2. \A k \in 1 .. 7, b \in 0 .. 7 : BitAt(noise[k], b) # 0 => <<k, b>> \in {p, q}
  <2> SUFFICES ASSUME NEW k \in 1 .. 7, NEW b \in 0 .. 7, BitAt(noise[k], b) # 0
               PROVE  <<k, b>> \in {p, q}
    OBVIOUS
  <2>1. BitAt(noise[k], b) = 1
    <3>1. noise[k] \in Byte
      OBVIOUS
    <3>2. BitAt(noise[k], b) \in {0, 1}
      BY <3>1, BitsOfByte
    <3> QED
      BY <3>2
  <2>2. <<k, b>> \in Places
    BY DEF Places
  <2>3. <<k, b>> \in WrongBits(noise)
    BY <2>1, <2>2 DEF WrongBits
  <2> QED
    BY <2>3
<1>3. \A k \in (1 .. 7) \ {p[1], q[1]} : noise[k] = 0
  <2> SUFFICES ASSUME NEW k \in (1 .. 7) \ {p[1], q[1]}
               PROVE  noise[k] = 0
    OBVIOUS
  <2>1. \A b \in 0 .. 7 : BitAt(noise[k], b) = 0
    BY <1>1, <1>2
  <2>2. noise[k] \in Byte
    OBVIOUS
  <2> QED
    BY ONLY <2>1, <2>2, BitsOfNothing, SameBits
<1>4. CASE p[1] = q[1]
  <2> DEFINE k == p[1]
  <2>1. noise[k] # 0
    BY <1>3, <1>4
  <2>2. \A i \in (1 .. 7) \ {k, k} : noise[i] = 0
    BY <1>3, <1>4
  <2>3. k \in 1 .. 7 /\ k <= k /\ ~(k < k)
    BY <1>1
  <2> HIDE DEF k
  <2> QED
    BY <2>1, <2>2, <2>3, PairOfBytesNoticed
<1>5. CASE p[1] # q[1]
  <2>1. /\ noise[p[1]] = 0 \/ noise[p[1]] \in Trace[1]
        /\ noise[q[1]] = 0 \/ noise[q[1]] \in Trace[1]
    <3>1. /\ \A c \in (0 .. 7) \ {p[2]} : BitAt(noise[p[1]], c) = 0
          /\ \A c \in (0 .. 7) \ {q[2]} : BitAt(noise[q[1]], c) = 0
      BY <1>1, <1>2, <1>5
    <3>2. noise[p[1]] \in Byte /\ noise[q[1]] \in Byte
      BY <1>1
    <3> QED
      BY <1>1, <3>1, <3>2, LoneBit
  <2>2. ASSUME NEW k \in {p[1], q[1]}, \A i \in (1 .. 7) \ {k} : noise[i] = 0
        PROVE  CrcOfNoise(noise) # noise[7]
    <3>1. noise[k] # 0
      BY <2>2
    <3>2. k \in 1 .. 7 /\ k <= k /\ ~(k < k)
      BY <1>1
    <3>3. \A i \in (1 .. 7) \ {k, k} : noise[i] = 0
      BY <2>2
    <3> QED
      BY <3>1, <3>2, <3>3, PairOfBytesNoticed
  <2>3. CASE noise[p[1]] = 0
    <3>1. \A i \in (1 .. 7) \ {q[1]} : noise[i] = 0
      BY <1>3, <2>3
    <3> QED
      BY <2>2, <3>1
  <2>4. CASE noise[q[1]] = 0
    <3>1. \A i \in (1 .. 7) \ {p[1]} : noise[i] = 0
      BY <1>3, <2>4
    <3> QED
      BY <2>2, <3>1
  <2>5. CASE noise[p[1]] # 0 /\ noise[q[1]] # 0
    <3>1. noise[p[1]] \in Trace[1] /\ noise[q[1]] \in Trace[1]
      BY <2>1, <2>5
    <3>2. CASE p[1] < q[1]
      <4>1. p[1] <= q[1]
        BY <1>1, <3>2
      <4> QED
        BY <1>1, <1>3, <2>5, <3>1, <4>1, PairOfBytesNoticed
    <3>3. CASE q[1] < p[1]
      <4>1. q[1] <= p[1]
        BY <1>1, <3>3
      <4> QED
        BY <1>1, <1>3, <2>5, <3>1, <4>1, PairOfBytesNoticed
    <3> QED
      BY <1>1, <1>5, <3>2, <3>3
  <2> QED
    BY <2>3, <2>4, <2>5
<1> QED
  BY <1>4, <1>5

\* The two raw values, of 20 bits each, fill five bytes.
LEMMA PartsAreBytes ==
  ASSUME NEW h \in Raw, NEW t \in Raw
  PROVE  /\ 24 \in Byte /\ h \div 2 ^ 12 \in Byte /\ (h \div 2 ^ 4) % 256 \in Byte
         /\ ((h % 16) * 16) + (t \div 2 ^ 16) \in Byte
         /\ (t \div 2 ^ 8) % 256 \in Byte /\ t % 256 \in Byte
<1>1. 24 \in Byte /\ h \div 2 ^ 12 \in Byte /\ (h \div 2 ^ 4) % 256 \in Byte
  BY DEF Raw, Byte
<1>2. ((h % 16) * 16) + (t \div 2 ^ 16) \in Byte
  BY DEF Raw, Byte
<1>3. (t \div 2 ^ 8) % 256 \in Byte /\ t % 256 \in Byte
  BY DEF Raw, Byte
<1> QED
  BY <1>1, <1>2, <1>3

\* And are put together again, and scaled to what the sensor means.
LEMMA PartsTogether ==
  ASSUME NEW h \in Raw, NEW t \in Raw
  PROVE  LET b == ((h % 16) * 16) + (t \div 2 ^ 16) IN
         /\ ((h \div 2 ^ 12) * 2 ^ 12) + (((h \div 2 ^ 4) % 256) * 2 ^ 4) + (b \div 16) = h
         /\ ((b % 16) * 2 ^ 16) + (((t \div 2 ^ 8) % 256) * 2 ^ 8) + (t % 256) = t
         /\ ((h * 25) \div 2 ^ 18) % 256 = (100 * h) \div 2 ^ 20
         /\ (t * 25) \div 2 ^ 17 = (200 * t) \div 2 ^ 20
         /\ DegreesOf(t) \in -50 .. 149
<1> DEFINE b == ((h % 16) * 16) + (t \div 2 ^ 16)
<1>1. b \div 16 = h % 16 /\ b % 16 = t \div 2 ^ 16
  BY DEF Raw
<1>2. ((h \div 2 ^ 12) * 2 ^ 12) + (((h \div 2 ^ 4) % 256) * 2 ^ 4) + (h % 16) = h
  BY DEF Raw
<1>3. ((t \div 2 ^ 16) * 2 ^ 16) + (((t \div 2 ^ 8) % 256) * 2 ^ 8) + (t % 256) = t
  BY DEF Raw
<1>4. ((h * 25) \div 2 ^ 18) % 256 = (100 * h) \div 2 ^ 20
  BY DEF Raw
<1>5. (t * 25) \div 2 ^ 17 = (200 * t) \div 2 ^ 20
  BY DEF Raw
<1>6. DegreesOf(t) \in -50 .. 149
  BY DEF Raw, DegreesOf
<1> HIDE DEF b
<1> QED
  BY <1>1, <1>2, <1>3, <1>4, <1>5, <1>6 DEF b

\* The sensor's frame is seven bytes, the last the CRC of the others.
LEMMA FrameOfReading ==
  ASSUME NEW r \in [h : Raw, t : Raw]
  PROVE  LET f == FrameOf(r) IN
         /\ f = [k \in 1 .. 7 |-> f[k]] /\ \A k \in 1 .. 7 : f[k] \in Byte
         /\ f[2] = r.h \div 2 ^ 12 /\ f[3] = (r.h \div 2 ^ 4) % 256
         /\ f[4] = ((r.h % 16) * 16) + (r.t \div 2 ^ 16)
         /\ f[5] = (r.t \div 2 ^ 8) % 256 /\ f[6] = r.t % 256
         /\ CrcHolds(f)
<1> DEFINE sent == <<24, r.h \div 2 ^ 12, (r.h \div 2 ^ 4) % 256,
                     ((r.h % 16) * 16) + (r.t \div 2 ^ 16), (r.t \div 2 ^ 8) % 256,
                     r.t % 256>>
<1>1. \A k \in 1 .. 6 : sent[k] \in Byte
  BY PartsAreBytes
<1>2. Crc(sent) \in Byte
  BY <1>1, CrcOfBytes
<1>3. FrameOf(r) = [k \in 1 .. 7 |-> IF k = 7 THEN Crc(sent) ELSE sent[k]]
  BY DEF FrameOf
<1>4. /\ sent[2] = r.h \div 2 ^ 12 /\ sent[3] = (r.h \div 2 ^ 4) % 256
      /\ sent[4] = ((r.h % 16) * 16) + (r.t \div 2 ^ 16)
      /\ sent[5] = (r.t \div 2 ^ 8) % 256 /\ sent[6] = r.t % 256
  OBVIOUS
<1> HIDE DEF sent
<1>5. (\A k \in 1 .. 6 : FrameOf(r)[k] = sent[k]) /\ FrameOf(r)[7] = Crc(sent)
  BY <1>3
<1>6. Crc(FrameOf(r)) = Crc(sent)
  BY <1>5 DEF Crc
<1>7. CrcHolds(FrameOf(r))
  BY <1>5, <1>6 DEF CrcHolds
<1>8. \A k \in 1 .. 7 : FrameOf(r)[k] \in Byte
  BY <1>1, <1>2, <1>5
<1>9. FrameOf(r) = [k \in 1 .. 7 |-> FrameOf(r)[k]]
  BY <1>3
<1> QED
  BY <1>4, <1>5, <1>7, <1>8, <1>9

\* The last cast but one keeps a percentage, and the last one most degrees.
LEMMA Conversions ==
  ASSUME NEW r \in [h : Raw, t : Raw]
  PROVE  /\ HumidityOf(FrameOf(r)) = PercentOf(r.h)
         /\ TemperatureOf(FrameOf(r)) = Int8(DegreesOf(r.t))
         /\ DegreesOf(r.t) <= 127 => Int8(DegreesOf(r.t)) = DegreesOf(r.t)
<1> DEFINE f == FrameOf(r)
<1>1. /\ f[2] = r.h \div 2 ^ 12 /\ f[3] = (r.h \div 2 ^ 4) % 256
      /\ f[4] = ((r.h % 16) * 16) + (r.t \div 2 ^ 16)
      /\ f[5] = (r.t \div 2 ^ 8) % 256 /\ f[6] = r.t % 256
  BY FrameOfReading
<1> HIDE DEF f
<1>2. /\ (f[2] * 2 ^ 12) + (f[3] * 2 ^ 4) + (f[4] \div 16) = r.h
      /\ ((f[4] % 16) * 2 ^ 16) + (f[5] * 2 ^ 8) + f[6] = r.t
      /\ ((r.h * 25) \div 2 ^ 18) % 256 = (100 * r.h) \div 2 ^ 20
      /\ (r.t * 25) \div 2 ^ 17 = (200 * r.t) \div 2 ^ 20
      /\ DegreesOf(r.t) \in -50 .. 149
  BY <1>1, PartsTogether
<1>3. ASSUME NEW d \in -50 .. 127 PROVE Int8(d) = d
  BY DEF Int8
<1>4. DegreesOf(r.t) <= 127 => Int8(DegreesOf(r.t)) = DegreesOf(r.t)
  BY <1>2, <1>3
<1>5. HumidityOf(f) = PercentOf(r.h)
  BY <1>2 DEF HumidityOf, PercentOf
<1>6. TemperatureOf(f) = Int8(DegreesOf(r.t))
  BY <1>2 DEF TemperatureOf, DegreesOf
<1> QED
  BY <1>4, <1>5, <1>6 DEF f

\* Whatever is measured has 20 bits.
LEMMA ReadingsAreRaw == \A n \in DOMAIN Readings : Readings[n] \in [h : Raw, t : Raw]
<1> DEFINE R == [h : Raw, t : Raw]
<1>1. Readings \in Seq(R)
  BY ReadingsAssumption
<1> HIDE DEF R
<1>2. \A n \in DOMAIN Readings : Readings[n] \in R
  BY <1>1, LenProperties, ElementOfSeq
<1> QED
  BY <1>2 DEF R

\* What the driver makes of any frame has its type.
LEMMA ArrivalTypes ==
  \A a \in Arrivals :
    /\ a.n \in DOMAIN Readings /\ a.clean \in BOOLEAN
    /\ a.reading \in [ok : BOOLEAN, t : Values, h : Values]
<1>1. ASSUME NEW n \in DOMAIN Readings, NEW noise \in Noises
      PROVE  Seen(Disturbed(FrameOf(Readings[n]), noise))
               \in [ok : BOOLEAN, t : Values, h : Values]
  <2> DEFINE f == Disturbed(FrameOf(Readings[n]), noise)
  <2>1. \A k \in 1 .. 7 : f[k] \in Byte
    <3>1. noise \in [1 .. 7 -> Byte]
      BY NoisesAssumption
    <3>2. \A k \in 1 .. 7 : FrameOf(Readings[n])[k] \in Byte
      BY ReadingsAreRaw, FrameOfReading
    <3>3. \A k \in 1 .. 7 : noise[k] \in Byte
      BY <3>1
    <3>4. \A k \in 1 .. 7 : f[k] = Xor(FrameOf(Readings[n])[k], noise[k])
      BY DEF Disturbed
    <3> QED
      BY <3>2, <3>3, <3>4, XorOfBytes
  <2> HIDE DEF f
  <2>2. f[2] \in Int /\ f[3] \in Int /\ f[4] \in Int /\ f[5] \in Int /\ f[6] \in Int
    BY <2>1 DEF Byte
  <2>3. TemperatureOf(f) \in Values
    <3> DEFINE temp == ((f[4] % 16) * 2 ^ 16) + (f[5] * 2 ^ 8) + f[6]
    <3>1. temp \in Int
      BY <2>2
    <3> HIDE DEF temp
    <3>2. ((temp * 25) \div 2 ^ 17) - 50 \in Int
      BY <3>1
    <3>3. \A x \in Int : Int8(x) \in Values
      BY DEF Int8, Values
    <3> QED
      BY <3>2, <3>3 DEF TemperatureOf, temp
  <2>4. HumidityOf(f) \in Values
    <3> DEFINE hum == (f[2] * 2 ^ 12) + (f[3] * 2 ^ 4) + (f[4] \div 16)
    <3>1. hum \in Int
      BY <2>2
    <3> HIDE DEF hum
    <3>2. (hum * 25) \div 2 ^ 18 \in Int
      BY <3>1
    <3>3. \A x \in Int : x % 256 \in Values
      BY DEF Values
    <3> QED
      BY <3>2, <3>3 DEF HumidityOf, hum
  <2>5. -128 \in Values /\ 255 \in Values
    BY DEF Values
  <2> QED
    BY <2>3, <2>4, <2>5 DEF Seen, Broken, f
<1> QED
  <2> SUFFICES ASSUME NEW a \in Arrivals
               PROVE  /\ a.n \in DOMAIN Readings /\ a.clean \in BOOLEAN
                      /\ a.reading \in [ok : BOOLEAN, t : Values, h : Values]
    OBVIOUS
  <2>1. PICK n \in DOMAIN Readings, noise \in Noises :
          a = [n |-> n, clean |-> noise = Quiet,
               reading |-> Seen(Disturbed(FrameOf(Readings[n]), noise))]
    BY DEF Arrivals
  <2> QED
    BY <1>1, <2>1

Degrees(n) == DegreesOf(Readings[n].t)
Percent(n) == PercentOf(Readings[n].h)

\* The temperatures are those int8_t has room for; the sensor measures to 85.
InRange == \A n \in DOMAIN Readings : Degrees(n) <= 127

\* The noise is none of what a CRC of eight bits cannot notice.
NoiseIsNoticed ==
  \A n \in DOMAIN Readings, noise \in Noises \ {Quiet} :
    ~CrcHolds(Disturbed(FrameOf(Readings[n]), noise))

\* The driver takes exactly the frames that came undisturbed, and makes of
\* them what the sensor meant.
FramesAreTold ==
  \A a \in Arrivals :
    /\ a.n \in DOMAIN Readings
    /\ a.reading.ok = a.clean
    /\ a.clean => a.reading.t = Degrees(a.n) /\ a.reading.h = Percent(a.n)

\* Noise a CRC of eight bits and this polynomial answers for: it stays within
\* one byte, or an odd number of bits is wrong, or one or two are. Three wrong
\* bits are an odd number.
Detectable(noise) ==
  \/ \E k \in 1 .. 7 : \A j \in (1 .. 7) \ {k} : noise[j] = 0
  \/ Odd(noise)
  \/ \E p, q \in Places : WrongBits(noise) \subseteq {p, q}

\* Up to three wrong bits anywhere in a frame, an odd number of them, or any
\* within a byte: the driver notices, whatever the sensor measures.
THEOREM WrongBitsAreNoticed ==
  ASSUME \A noise \in Noises : Detectable(noise)
  PROVE  NoiseIsNoticed
<1> SUFFICES ASSUME NEW n \in DOMAIN Readings, NEW noise \in Noises, noise # Quiet
             PROVE  ~CrcHolds(Disturbed(FrameOf(Readings[n]), noise))
  BY DEF NoiseIsNoticed
<1> DEFINE f == FrameOf(Readings[n])
<1>1. (\A j \in 1 .. 7 : f[j] \in Byte) /\ CrcHolds(f)
  BY ReadingsAreRaw, FrameOfReading
<1>2. noise \in [1 .. 7 -> Byte] /\ \A j \in 1 .. 7 : noise[j] \in Byte
  BY NoisesAssumption
<1>3. \E k \in 1 .. 7 : noise[k] # 0
  BY <1>2 DEF Quiet
<1> HIDE DEF f
<1>4. CrcOfNoise(noise) # noise[7]
  <2>1. CASE Odd(noise)
    BY <1>2, <2>1, OddNoiseNoticed
  <2>2. ASSUME NEW k \in 1 .. 7, \A j \in (1 .. 7) \ {k} : noise[j] = 0
        PROVE  CrcOfNoise(noise) # noise[7]
    <3>1. noise[k] # 0 /\ k <= k /\ ~(k < k)
      BY <1>3, <2>2
    <3>2. \A j \in (1 .. 7) \ {k, k} : noise[j] = 0
      BY <2>2
    <3> QED
      BY <1>2, <3>1, <3>2, PairOfBytesNoticed
  <2>3. ASSUME NEW p \in Places, NEW q \in Places, WrongBits(noise) \subseteq {p, q}
        PROVE  CrcOfNoise(noise) # noise[7]
    BY <1>2, <1>3, <2>3, TwoWrongBitsNoticed
  <2> QED
    BY <2>1, <2>2, <2>3 DEF Detectable
<1>5. ~CrcHolds(Disturbed(f, noise))
  BY <1>1, <1>2, <1>4, UnnoticedNoise
<1> QED
  BY <1>5 DEF f

\* The polynomial itself, laid over the last two bytes: four wrong bits.
PolynomialNoise == [k \in 1 .. 7 |-> CASE k = 6 -> 1 [] k = 7 -> 49 [] OTHER -> 0]

\* No more can be said: with these four bits wrong every good frame is taken.
THEOREM FourWrongBitsPass ==
  ASSUME NEW f, \A k \in 1 .. 7 : f[k] \in Byte, CrcHolds(f)
  PROVE  CrcHolds(Disturbed(f, PolynomialNoise))
<1> DEFINE noise == PolynomialNoise
<1>1. /\ noise[1] = 0 /\ noise[2] = 0 /\ noise[3] = 0 /\ noise[4] = 0
      /\ noise[5] = 0 /\ noise[6] = 1 /\ noise[7] = 49
  BY DEF PolynomialNoise
<1>2. 0 \in Byte /\ 1 \in Byte /\ 49 \in Byte
  BY DEF Byte
<1> HIDE DEF noise
<1>3. \A k \in 1 .. 7 : noise[k] \in Byte
  BY <1>1, <1>2
<1>4. CrcByte(0, 0) = 0 /\ CrcByte(0, 1) = 49
  <2>1. CrcBits[1] = 49
    BY ONLY CrcBitsTrace
  <2>2. CrcByte(0, 0) = CrcBits[0] /\ CrcByte(0, 1) = CrcBits[1]
    BY ONLY <1>2, CrcByteOfOne
  <2> QED
    BY <2>1, <2>2, CrcBitsLinear
<1>5. CrcOfNoise(noise) = 49
  BY ONLY <1>1, <1>4 DEF CrcOfNoise
<1>6. CrcHolds(Disturbed(f, noise))
  BY <1>1, <1>3, <1>5, UnnoticedNoise
<1> QED
  BY <1>6 DEF noise

\* So, if noise is noticed, what the driver takes is what the sensor meant.
LEMMA FramesTold ==
  ASSUME NoiseIsNoticed, InRange
  PROVE  FramesAreTold
<1> SUFFICES ASSUME NEW a \in Arrivals, NEW n \in DOMAIN Readings, NEW noise \in Noises,
                    a = [n |-> n, clean |-> noise = Quiet,
                         reading |-> Seen(Disturbed(FrameOf(Readings[n]), noise))]
             PROVE  /\ a.n \in DOMAIN Readings /\ a.reading.ok = a.clean
                    /\ a.clean => a.reading.t = Degrees(a.n) /\ a.reading.h = Percent(a.n)
  <2> SUFFICES ASSUME NEW a \in Arrivals
               PROVE  /\ a.n \in DOMAIN Readings /\ a.reading.ok = a.clean
                      /\ a.clean => a.reading.t = Degrees(a.n) /\ a.reading.h = Percent(a.n)
    BY DEF FramesAreTold
  <2>1. PICK n \in DOMAIN Readings, noise \in Noises :
          a = [n |-> n, clean |-> noise = Quiet,
               reading |-> Seen(Disturbed(FrameOf(Readings[n]), noise))]
    BY DEF Arrivals
  <2> QED
    BY <2>1
<1>1. Readings[n] \in [h : Raw, t : Raw]
  BY ReadingsAreRaw
<1>2. CASE noise = Quiet
  <2> DEFINE f == FrameOf(Readings[n])
  <2>1. f = [k \in 1 .. 7 |-> f[k]] /\ (\A k \in 1 .. 7 : f[k] \in Byte) /\ CrcHolds(f)
    BY <1>1, FrameOfReading
  <2>2. \A k \in 1 .. 7 : Xor(f[k], noise[k]) = f[k]
    BY <1>2, <2>1, XorOfBytes DEF Quiet
  <2>3. Disturbed(f, noise) = f
    BY <2>1, <2>2 DEF Disturbed
  <2>4. TemperatureOf(f) = Degrees(n) /\ HumidityOf(f) = Percent(n)
    BY <1>1, Conversions DEF InRange, Degrees, Percent
  <2> QED
    BY <1>2, <2>1, <2>3, <2>4 DEF Seen
<1>3. CASE noise # Quiet
  BY <1>3 DEF NoiseIsNoticed, Seen, Broken
<1> QED
  BY <1>2, <1>3
-----------------------------------------------------------------------------
(***************************************************************************)
(* What the two tasks do with the readings. The first invariant says that  *)
(* the task of the sensor has what became of the last measurement's frame; *)
(* the second, if the driver takes a frame exactly when it came            *)
(* undisturbed, follows a value through the two stores and the two loads.  *)
(***************************************************************************)
Stores == {"temperature", "humidity"}

Results ==
  [busy : BOOLEAN, clean : BOOLEAN, reading : [ok : BOOLEAN, t : Values, h : Values]]

AppTypes ==
  /\ aht \in AhtPlaces /\ oled \in OledPlaces /\ arrivals = Arrivals
  /\ sensor \in [busy : BOOLEAN, n : 0 .. Len(Readings)] /\ got \in Results
  /\ shown \in [t : Values, h : Values] /\ {buf, temperature, humidity} \subseteq Values
  /\ good \subseteq DOMAIN Readings /\ \A n \in good : n <= sensor.n

\* The transaction of the sensor's task is the one its place says.
InJob ==
  /\ at[ahttsk] # "out" => aht \in DOMAIN AhtJob /\ job[ahttsk] = AhtJob[aht]
  /\ at[ahttsk] = "unlock" => count[ahttsk] = job[ahttsk].len

\* A byte of the transaction has been read.
HasRead == at[ahttsk] # "out" /\ count[ahttsk] >= 1

\* Between a state that was not busy and the next trigger it stays so.
SensorRests ==
  /\ aht = "state" /\ HasRead /\ ~got.busy => ~sensor.busy
  /\ aht \in Stores \cup {"read"} => ~sensor.busy

\* What was read is what became of the last measurement's frame.
OfLast ==
  \E a \in Arrivals : a.n = sensor.n /\ a.clean = got.clean /\ a.reading = got.reading

GotIsLast ==
  /\ aht = "read" /\ HasRead => OfLast
  /\ aht \in Stores => OfLast /\ got.reading.ok /\ (got.clean => sensor.n \in good)

ReadInv == AppTypes /\ InJob /\ SensorRests /\ GotIsLast

\* And the driver tells it, and makes of it what the sensor meant.
Told ==
  /\ got.reading.ok = got.clean
  /\ got.clean => /\ sensor.n \in DOMAIN Readings
                  /\ got.reading.t = Degrees(sensor.n) /\ got.reading.h = Percent(sensor.n)

SomeDegrees(x) == x = 0 \/ \E n \in good : x = Degrees(n)
SomePercent(x) == x = 0 \/ \E n \in good : x = Percent(n)

FromGood ==
  /\ SomeDegrees(temperature) /\ SomePercent(humidity)
  /\ SomeDegrees(shown.t) /\ SomePercent(shown.h)
  /\ oled = "draw_t" => SomeDegrees(buf)
  /\ oled = "draw_h" => SomePercent(buf)

\* Humidity h is of the measurement before temperature t's, or of a later one.
UpTo(t, h) == t # 0 => \A n \in good : Degrees(n) < t => Percent(n) <= h

HumidityKeepsUp ==
  /\ \A n \in good : Percent(n) <= humidity \/ (aht \in Stores /\ n = sensor.n)
  /\ oled = "draw_h" => UpTo(shown.t, buf)
  /\ oled \notin {"load_h", "draw_h"} => UpTo(shown.t, shown.h)

ShownInv == FromGood /\ HumidityKeepsUp

\* The display's task is in a transaction only while it draws.
DrawsInJob == at[oledtak] # "out" => oled \in OledDraws

AppInv == FramesAreTold /\ ReadInv /\ ShownInv /\ DrawsInJob
-----------------------------------------------------------------------------
LEMMA PercentIsNat == \A x \in Raw : PercentOf(x) \in Nat
BY DEF Raw, PercentOf

LEMMA ReadingsRise ==
  /\ Len(Readings) \in Nat /\ DOMAIN Readings = 1 .. Len(Readings)
  /\ \A n \in DOMAIN Readings : Degrees(n) \in Int \ {0} /\ Percent(n) \in Nat \ {0}
  /\ \A m, n \in DOMAIN Readings :
       m < n => Degrees(m) < Degrees(n) /\ Percent(m) < Percent(n)
<1>1. \A n \in DOMAIN Readings : Readings[n].t \in Raw /\ Readings[n].h \in Raw
  BY ReadingsAreRaw
<1>2. \A x \in Raw : DegreesOf(x) \in Int /\ PercentOf(x) \in Nat
  BY PartsTogether, PercentIsNat
<1>3. \A n \in DOMAIN Readings : Degrees(n) \in Int /\ Percent(n) \in Nat
  BY <1>1, <1>2 DEF Degrees, Percent
<1>4. Len(Readings) \in Nat /\ DOMAIN Readings = 1 .. Len(Readings)
  BY ReadingsAssumption
<1> QED
  BY <1>3, <1>4, ReadingsAssumption DEF Degrees, Percent

LEMMA LastIsTold == FramesAreTold /\ OfLast => Told
BY ArrivalTypes DEF FramesAreTold, OfLast, Told

\* A reading is stored only if its frame was told.
LEMMA StoresAreTold ==
  ASSUME FramesAreTold, ReadInv, aht \in Stores
  PROVE  Told /\ got.clean /\ sensor.n \in good
BY LastIsTold DEF ReadInv, GotIsLast, Told

LEMMA InitAppInv == YosInit => ReadInv /\ ShownInv /\ DrawsInJob
<1> SUFFICES ASSUME YosInit PROVE ReadInv /\ ShownInv /\ DrawsInJob
  OBVIOUS
<1>1. at[ahttsk] = "out"
  BY DEF YosInit, IicInit
<1>2. AppTypes
  BY ReadingsRise DEF YosInit, AppTypes, AhtPlaces, AhtJob, OledPlaces, OledDraws,
    Results, Values, Broken
<1>3. InJob /\ SensorRests /\ GotIsLast
  BY <1>1 DEF YosInit, InJob, SensorRests, GotIsLast, HasRead, Stores
<1>4. ShownInv
  BY DEF YosInit, ShownInv, FromGood, HumidityKeepsUp, SomeDegrees, SomePercent, UpTo
<1>5. DrawsInJob
  BY DEF YosInit, DrawsInJob, OledDraws
<1> QED
  BY <1>2, <1>3, <1>4, <1>5 DEF ReadInv

\* A step on the bus brings the sensor's task nothing.
LEMMA BusBringsNothing ==
  ASSUME IicInv, InJob, OnTheBus
  PROVE  /\ InJob'
         /\ aht \in {"state", "read"} /\ HasRead' => HasRead
<1>1. /\ at \in [Users -> Holding \cup {"out", "lock"}]
      /\ ahttsk \in Users /\ count[ahttsk] \in 0 .. job[ahttsk].len /\ count \in [Users -> Nat]
      /\ Moving(ahttsk)
      /\ UNCHANGED aht
  BY DEF IicInv, IicTypeOK, InTransaction, Phase, OnTheBus, appvars
<1>2. CASE Hardware \/ \E t \in Users : Spin(t)
  BY <1>2 DEF Hardware, Spin, iicvars, InJob, HasRead, OnTheBus, appvars
<1>3. ASSUME NEW t \in Users, BusStep(t)
      PROVE  InJob' /\ (aht \in {"state", "read"} /\ HasRead' => HasRead)
  <2>1. at[t] # "out" /\ UNCHANGED job
    BY <1>3 DEF BusStep, Lock, SetType, WaitIdle, SendStart, EnableAck, SendAddress, WaitAddr,
      SendData, WaitBtf, DisableAck, SendStop, Moves
  <2>2. CASE t # ahttsk
    <3>1. at'[ahttsk] = at[ahttsk] /\ count'[ahttsk] = count[ahttsk]
      BY <1>1, <1>3, <2>2 DEF BusStep, Lock, SetType, WaitIdle, SendStart, EnableAck,
        SendAddress, WaitAddr, SendData, WaitBtf, DisableAck, SendStop, Goto
    <3> QED
      BY <1>1, <2>1, <3>1 DEF InJob, HasRead
  <2>3. CASE t = ahttsk /\ WaitBtf(t)
    <3>1. at[ahttsk] = "btf" /\ at'[ahttsk] = "data"
      BY <1>1, <2>3 DEF WaitBtf, Goto
    <3>2. job[ahttsk].type = "transmit"
      BY <1>1, <3>1 DEF Moving
    <3>3. aht \notin {"state", "read"}
      BY <3>1, <3>2 DEF InJob, AhtJob, Receive
    <3> QED
      BY <1>1, <2>1, <3>1, <3>3 DEF InJob
  <2>4. CASE t = ahttsk /\ SendStop(t)
    <3>1. at'[ahttsk] = "unlock" /\ UNCHANGED count /\ ~(count[ahttsk] < job[ahttsk].len)
      BY <1>1, <2>4 DEF SendStop, Goto, BytesLeft
    <3>2. job[ahttsk].len \in Nat
      BY <1>1, <2>1, <2>4, LenAssumption DEF IicInv, InTransaction, Jobs
    <3>3. count[ahttsk] = job[ahttsk].len
      BY <1>1, <3>1, <3>2
    <3> QED
      BY <1>1, <2>1, <2>4, <3>1, <3>3 DEF InJob, HasRead
  <2>5. CASE t = ahttsk /\ ~WaitBtf(t) /\ ~SendStop(t)
    <3>1. UNCHANGED count /\ at'[ahttsk] \notin {"out", "unlock"}
      BY <1>1, <1>3, <2>5 DEF BusStep, Lock, SetType, WaitIdle, SendStart, EnableAck,
        SendAddress, WaitAddr, SendData, DisableAck, Goto
    <3> QED
      BY <1>1, <2>1, <2>5, <3>1 DEF InJob, HasRead
  <2> QED
    BY <2>2, <2>3, <2>4, <2>5
<1> QED
  BY <1>2, <1>3 DEF OnTheBus

\* Nor does a step of the display's task.
LEMMA OledBringsNothing ==
  ASSUME IicInv, InJob, OledTask
  PROVE  /\ InJob' /\ (HasRead' <=> HasRead)
         /\ UNCHANGED <<aht, sensor, arrivals, got, temperature, humidity, good>>
<1>1. /\ at \in [Users -> Holding \cup {"out", "lock"}] /\ count \in [Users -> Nat]
      /\ job \in [Users -> Jobs \cup {NoJob}] /\ ahttsk \in Users /\ oledtak # ahttsk
  BY DEF IicInv, IicTypeOK, InTransaction
<1>2. UNCHANGED <<aht, sensor, arrivals, got, temperature, humidity, good>>
  BY DEF OledTask, Load, OledBegin, OledReturn, appvars
<1>3. at'[ahttsk] = at[ahttsk] /\ count'[ahttsk] = count[ahttsk] /\ job'[ahttsk] = job[ahttsk]
  BY <1>1 DEF OledTask, Load, OledBegin, OledReturn, TransStart, Unlock, Goto, iicvars
<1> QED
  BY <1>2, <1>3 DEF InJob, HasRead

LEMMA BusKeepsReading ==
  ASSUME IicInv, ReadInv, OnTheBus \/ OledTask
  PROVE  ReadInv'
<1>1. /\ UNCHANGED <<aht, sensor, arrivals, got, temperature, humidity, good>>
      /\ InJob' /\ (aht \in {"state", "read"} /\ HasRead' => HasRead)
  BY BusBringsNothing, OledBringsNothing DEF ReadInv, OnTheBus, appvars
<1>2. AppTypes'
  <2>1. CASE OnTheBus
    BY <2>1 DEF ReadInv, AppTypes, OnTheBus, appvars
  <2>2. CASE OledTask
    <3>1. /\ oled' \in OledPlaces /\ buf' \in Values /\ shown' \in [t : Values, h : Values]
      BY <2>2 DEF ReadInv, AppTypes, OledTask, Load, OledBegin, OledReturn, OledNext,
        OledPlaces, OledDraws, appvars
    <3> QED
      BY <1>1, <3>1 DEF ReadInv, AppTypes
  <2> QED
    BY <2>1, <2>2
<1>3. SensorRests' /\ GotIsLast'
  BY <1>1 DEF ReadInv, SensorRests, GotIsLast, OfLast
<1> QED
  BY <1>1, <1>2, <1>3 DEF ReadInv

LEMMA MeasuredKeepsReading ==
  ASSUME ReadInv, Measured
  PROVE  ReadInv'
<1>1. /\ sensor.busy /\ ~sensor'.busy /\ sensor'.n = sensor.n + 1
      /\ sensor' \in [busy : BOOLEAN, n : 0 .. Len(Readings)]
      /\ UNCHANGED <<aht, oled, arrivals, got, buf, temperature, humidity, shown, good>>
      /\ UNCHANGED <<at, job, count>>
  BY ReadingsRise DEF Measured, ReadInv, AppTypes, iicvars
<1>2. aht \notin Stores \cup {"read"}
  BY <1>1 DEF ReadInv, SensorRests
<1>3. AppTypes'
  BY <1>1, ReadingsRise DEF ReadInv, AppTypes
<1>4. InJob' /\ SensorRests' /\ GotIsLast'
  BY <1>1, <1>2 DEF ReadInv, InJob, SensorRests, GotIsLast
<1> QED
  BY <1>3, <1>4 DEF ReadInv

LEMMA AhtKeepsReading ==
  ASSUME IicInv, ReadInv, AhtTask
  PROVE  ReadInv'
<1>1. /\ at \in [Users -> Holding \cup {"out", "lock"}] /\ count \in [Users -> Nat]
      /\ job \in [Users -> Jobs \cup {NoJob}] /\ ahttsk \in Users
  BY DEF IicInv, IicTypeOK, InTransaction
<1>2. CASE AhtBegin
  <2>1. /\ UNCHANGED appvars /\ aht \in DOMAIN AhtJob
        /\ at'[ahttsk] = "lock" /\ count'[ahttsk] = 0 /\ job'[ahttsk] = AhtJob[aht]
    BY <1>1, <1>2 DEF AhtBegin, TransStart, Goto
  <2>2. AppTypes' /\ InJob' /\ ~HasRead'
    BY <2>1 DEF ReadInv, AppTypes, InJob, HasRead, appvars
  <2>3. SensorRests' /\ GotIsLast'
    BY <2>1, <2>2 DEF ReadInv, SensorRests, GotIsLast, appvars, OfLast
  <2> QED
    BY <2>2, <2>3 DEF ReadInv
<1>3. CASE AhtGetData
  <2>1. /\ at[ahttsk] = "rxne" /\ at'[ahttsk] = "data" /\ UNCHANGED job
        /\ UNCHANGED <<aht, oled, sensor, arrivals, buf, temperature, humidity, shown, good>>
        /\ got'.busy = sensor.busy
    BY <1>1, <1>3 DEF AhtGetData, GetData, Goto
  <2>2. aht \in DOMAIN AhtJob
    BY <2>1 DEF ReadInv, InJob
  <2>3. aht \notin Stores
    BY <2>2 DEF AhtJob, Stores
  <2>4. AppTypes' /\ InJob'
    <3>1. sensor.busy \in BOOLEAN /\ arrivals = Arrivals
      BY DEF ReadInv, AppTypes
    <3>2. Broken \in [ok : BOOLEAN, t : Values, h : Values]
      BY DEF Broken, Values
    <3>3. got' \in Results
      <4>1. CASE aht = "read"
        <5>1. PICK a \in Arrivals :
                got' = [busy |-> sensor.busy, clean |-> a.clean, reading |-> a.reading]
          BY <1>3, <3>1, <4>1 DEF AhtGetData
        <5> QED
          BY <3>1, <5>1, ArrivalTypes DEF Results
      <4>2. CASE aht # "read"
        <5>1. got' = [busy |-> sensor.busy, clean |-> FALSE, reading |-> Broken]
          BY <1>3, <4>2 DEF AhtGetData
        <5> QED
          BY <3>1, <3>2, <5>1 DEF Results
      <4> QED
        BY <4>1, <4>2
    <3> QED
      BY <2>1, <3>3 DEF ReadInv, AppTypes, InJob
  <2>5. SensorRests'
    BY <2>1, <2>3 DEF ReadInv, SensorRests
  <2>6. aht = "read" => OfLast'
    <3> SUFFICES ASSUME aht = "read" PROVE OfLast'
      OBVIOUS
    <3>1. PICK a \in Arrivals : /\ a.n = sensor.n /\ got'.clean = a.clean
                                /\ got'.reading = a.reading
      BY <1>3 DEF AhtGetData, ReadInv, AppTypes
    <3> QED
      BY <2>1, <3>1 DEF OfLast
  <2>7. GotIsLast'
    BY <2>1, <2>3, <2>6 DEF GotIsLast
  <2> QED
    BY <2>4, <2>5, <2>7 DEF ReadInv
<1>4. CASE AhtReturn
  <2>1. /\ at[ahttsk] = "unlock" /\ at'[ahttsk] = "out" /\ aht' \in AhtNext
        /\ sensor' = IF aht = "trigger" THEN [sensor EXCEPT !.busy = TRUE] ELSE sensor
        /\ good' = IF aht = "read" /\ got.clean THEN good \cup {sensor.n} ELSE good
        /\ UNCHANGED <<oled, arrivals, got, buf, temperature, humidity, shown>>
    BY <1>1, <1>4 DEF AhtReturn, Unlock, Goto
  <2>2. aht \in DOMAIN AhtJob /\ HasRead
    <3>1. aht \in DOMAIN AhtJob /\ count[ahttsk] = AhtJob[aht].len
      BY <2>1 DEF ReadInv, InJob
    <3> QED
      BY <2>1, <3>1 DEF AhtJob, Transmit, Receive, HasRead
  <2>3. /\ aht' \in DOMAIN AhtJob \cup {"temperature"}
        /\ aht' = "read" => aht = "state" /\ ~got.busy
        /\ aht' = "temperature" => aht = "read" /\ got.reading.ok
        /\ aht' # "humidity"
    BY <2>1, <2>2 DEF AhtNext, AfterRead, AhtJob
  <2>4. aht = "read" => OfLast
    BY <2>2 DEF ReadInv, GotIsLast
  <2>5. AppTypes'
    <3>1. good' \subseteq DOMAIN Readings /\ \A n \in good' : n <= sensor'.n
      BY <2>1, <2>4, ReadingsRise, ArrivalTypes DEF ReadInv, AppTypes, OfLast
    <3>2. aht' \in AhtPlaces /\ sensor' \in [busy : BOOLEAN, n : 0 .. Len(Readings)]
      BY <2>1, <2>3 DEF ReadInv, AppTypes, AhtPlaces
    <3> QED
      BY <2>1, <3>1, <3>2 DEF ReadInv, AppTypes
  <2>6. InJob' /\ ~HasRead'
    BY <2>1 DEF InJob, HasRead
  <2>7. aht' = "read" => ~sensor'.busy
    BY <2>1, <2>2, <2>3 DEF ReadInv, SensorRests
  <2>8. aht' = "temperature" =>
          ~sensor'.busy /\ OfLast' /\ got'.reading.ok /\ (got'.clean => sensor'.n \in good')
    BY <2>1, <2>3, <2>4 DEF ReadInv, SensorRests, OfLast
  <2>9. SensorRests' /\ GotIsLast'
    BY <2>3, <2>6, <2>7, <2>8 DEF SensorRests, GotIsLast, Stores
  <2> QED
    BY <2>5, <2>6, <2>9 DEF ReadInv
<1>5. CASE StoreTemperature \/ StoreHumidity
  <2>1. /\ aht \in Stores /\ aht' \in {"humidity", "trigger"}
        /\ UNCHANGED <<at, job, count, oled, sensor, arrivals, got, buf, shown, good>>
        /\ temperature' \in {temperature, got.reading.t}
        /\ humidity' \in {humidity, got.reading.h}
    BY <1>5 DEF StoreTemperature, StoreHumidity, Stores, iicvars
  <2>2. OfLast /\ got.reading.ok /\ (got.clean => sensor.n \in good) /\ ~sensor.busy
    BY <2>1 DEF ReadInv, GotIsLast, SensorRests
  <2>3. got.reading.t \in Values /\ got.reading.h \in Values
    BY DEF ReadInv, AppTypes, Results
  <2>4. aht' \in AhtPlaces
    BY <2>1 DEF AhtPlaces, AhtJob
  <2>5. AppTypes'
    BY <2>1, <2>3, <2>4 DEF ReadInv, AppTypes
  <2>6. InJob'
    <3>1. at[ahttsk] = "out"
      BY <2>1 DEF ReadInv, InJob, AhtJob, Stores
    <3> QED
      BY <2>1, <3>1 DEF InJob
  <2>7. OfLast'
    BY <2>1, <2>2 DEF OfLast
  <2>8. SensorRests' /\ GotIsLast'
    BY <2>1, <2>2, <2>7 DEF SensorRests, GotIsLast
  <2> QED
    BY <2>5, <2>6, <2>8 DEF ReadInv
<1> QED
  BY <1>2, <1>3, <1>4, <1>5 DEF AhtTask

LEMMA ReadingKept == IicInv /\ ReadInv /\ [YosNext]_yosvars => ReadInv'
<1>1. ReadInv /\ UNCHANGED yosvars => ReadInv'
  BY DEF ReadInv, AppTypes, InJob, SensorRests, GotIsLast, OfLast, HasRead, yosvars,
    iicvars, appvars
<1> QED
  BY <1>1, BusKeepsReading, MeasuredKeepsReading, AhtKeepsReading DEF YosNext
-----------------------------------------------------------------------------
\* A temperature of a good measurement is never ahead of the humidity stored.
LEMMA StoredKeepsUp ==
  ASSUME ReadInv, HumidityKeepsUp, NEW t, SomeDegrees(t)
  PROVE  UpTo(t, humidity)
<1> SUFFICES ASSUME t # 0, NEW n \in good, Degrees(n) < t PROVE Percent(n) <= humidity
  BY DEF UpTo
<1>1. good \subseteq DOMAIN Readings /\ \A k \in good : k <= sensor.n /\ k \in Nat
  BY ReadingsRise DEF ReadInv, AppTypes
<1>2. PICK k \in good : t = Degrees(k)
  BY DEF SomeDegrees
<1>3. n < k
  <2>1. ASSUME k < n PROVE FALSE
    BY <1>1, <1>2, <2>1, ReadingsRise
  <2>2. n # k
    BY <1>1, <1>2, ReadingsRise
  <2> QED
    BY <1>1, <2>1, <2>2
<1>4. n # sensor.n
  <2>1. sensor.n \in Nat
    BY ReadingsRise DEF ReadInv, AppTypes
  <2> QED
    BY <1>1, <1>3, <2>1
<1> QED
  BY <1>4 DEF HumidityKeepsUp

\* A new good measurement is no older than any temperature.
LEMMA NewIsNotOlder ==
  ASSUME ReadInv, NEW t, SomeDegrees(t), NEW h, UpTo(t, h),
         good' = good \/ (good' = good \cup {sensor.n} /\ sensor.n \in DOMAIN Readings)
  PROVE  t # 0 => \A n \in good' : Degrees(n) < t => Percent(n) <= h
<1> SUFFICES ASSUME t # 0, NEW n \in good', n \notin good, Degrees(n) < t PROVE FALSE
  BY DEF UpTo
<1>1. n = sensor.n /\ n \in DOMAIN Readings
  OBVIOUS
<1>2. PICK k \in good : t = Degrees(k)
  BY <1>1, ReadingsRise DEF SomeDegrees
<1>3. k \in DOMAIN Readings /\ k <= n
  BY <1>1 DEF ReadInv, AppTypes
<1> QED
  BY <1>1, <1>2, <1>3, ReadingsRise

\* A step that leaves the values alone, or adds a good measurement.
LEMMA ValuesKept ==
  ASSUME ReadInv, ShownInv,
         UNCHANGED <<oled, buf, temperature, humidity, shown>>,
         good' = good \/ (good' = good \cup {sensor.n} /\ sensor.n \in DOMAIN Readings),
         \A n \in good' : Percent(n) <= humidity \/ (aht' \in Stores /\ n = sensor'.n)
  PROVE  ShownInv'
<1>1. good \subseteq good'
  OBVIOUS
<1>2. FromGood'
  BY <1>1 DEF ShownInv, FromGood, SomeDegrees, SomePercent, Degrees, Percent
<1>3. SomeDegrees(shown.t)
  BY DEF ShownInv, FromGood
<1>4. \A h : UpTo(shown.t, h) /\ shown.t # 0 =>
        \A n \in good' : Degrees(n) < shown.t => Percent(n) <= h
  BY <1>3, NewIsNotOlder
<1>5. \A n \in good' : Percent(n) <= humidity' \/ (aht' \in Stores /\ n = sensor'.n)
  OBVIOUS
<1>6. HumidityKeepsUp'
  BY <1>4, <1>5 DEF ShownInv, HumidityKeepsUp, UpTo, Degrees, Percent
<1> QED
  BY <1>2, <1>6 DEF ShownInv

LEMMA AhtKeepsShown ==
  ASSUME IicInv, FramesAreTold, ReadInv, ShownInv, AhtTask \/ Measured \/ OnTheBus
  PROVE  ShownInv'
<1>1. CASE AhtBegin \/ AhtGetData \/ OnTheBus
  BY <1>1, ValuesKept
  DEF AhtBegin, AhtGetData, OnTheBus, appvars, ShownInv, HumidityKeepsUp
<1>2. CASE Measured
  <2>1. aht \notin Stores
    BY <1>2 DEF Measured, ReadInv, SensorRests
  <2> QED
    BY <1>2, <2>1, ValuesKept DEF Measured, ShownInv, HumidityKeepsUp
<1>3. CASE AhtReturn
  <2>1. /\ at[ahttsk] = "unlock" /\ aht' \in AhtNext
        /\ sensor'.n = sensor.n
        /\ good' = IF aht = "read" /\ got.clean THEN good \cup {sensor.n} ELSE good
        /\ UNCHANGED <<oled, buf, temperature, humidity, shown>>
    BY <1>3 DEF AhtReturn, Unlock, ReadInv, AppTypes
  <2>2. aht \in DOMAIN AhtJob /\ HasRead
    <3>1. aht \in DOMAIN AhtJob /\ count[ahttsk] = AhtJob[aht].len
      BY <2>1 DEF ReadInv, InJob
    <3> QED
      BY <2>1, <3>1 DEF AhtJob, Transmit, Receive, HasRead
  <2>3. aht = "read" => Told
    BY <2>2, LastIsTold DEF ReadInv, GotIsLast
  <2>4. aht = "read" /\ got.clean => aht' \in Stores /\ sensor.n \in DOMAIN Readings
    BY <2>1, <2>3 DEF AhtNext, AfterRead, Told, Stores
  <2>5. aht \notin Stores
    BY <2>2 DEF AhtJob, Stores
  <2>6. \A n \in good' : Percent(n) <= humidity \/ (aht' \in Stores /\ n = sensor'.n)
    BY <2>1, <2>4, <2>5 DEF ShownInv, HumidityKeepsUp
  <2> QED
    BY <2>1, <2>4, <2>6, ValuesKept
<1>4. CASE StoreTemperature \/ StoreHumidity
  <2>1. Told /\ got.clean /\ sensor.n \in good /\ aht \in Stores
    BY <1>4, StoresAreTold DEF StoreTemperature, StoreHumidity, Stores
  <2>2. /\ UNCHANGED <<oled, sensor, buf, shown, good>>
        /\ temperature' \in {temperature, Degrees(sensor.n)}
        /\ humidity' \in {humidity, Percent(sensor.n)}
    BY <1>4, <2>1 DEF StoreTemperature, StoreHumidity, Told
  <2>3. FromGood'
    BY <2>1, <2>2 DEF ShownInv, FromGood, SomeDegrees, SomePercent, Degrees, Percent
  <2>4. \A n \in good : Percent(n) <= humidity' \/ (aht' \in Stores /\ n = sensor.n)
    <3>1. CASE StoreTemperature
      BY <3>1 DEF StoreTemperature, ShownInv, HumidityKeepsUp, Stores
    <3>2. CASE StoreHumidity
      <4>1. humidity' = Percent(sensor.n)
        BY <2>1, <3>2 DEF StoreHumidity, Told
      <4>2. ASSUME NEW n \in good PROVE Percent(n) <= Percent(sensor.n)
        <5>1. /\ n \in DOMAIN Readings /\ sensor.n \in DOMAIN Readings
              /\ n <= sensor.n
          BY <2>1 DEF ReadInv, AppTypes
        <5> QED
          BY <5>1, ReadingsRise
      <4> QED
        BY <4>1, <4>2
    <3> QED
      BY <1>4, <3>1, <3>2
  <2>5. HumidityKeepsUp'
    BY <2>2, <2>4 DEF ShownInv, HumidityKeepsUp, UpTo, Degrees, Percent
  <2> QED
    BY <2>3, <2>5 DEF ShownInv
<1> QED
  BY <1>1, <1>2, <1>3, <1>4 DEF AhtTask

LEMMA OledKeepsShown ==
  ASSUME AppInv, OledTask
  PROVE  ShownInv'
<1> USE DEF AppInv
<1>1. UNCHANGED <<aht, sensor, temperature, humidity, good>>
  BY DEF OledTask, Load, OledBegin, OledReturn, appvars
<1>2. \A x : /\ SomeDegrees(x) = SomeDegrees(x)' /\ SomePercent(x) = SomePercent(x)'
  BY <1>1 DEF SomeDegrees, SomePercent, Degrees, Percent
<1>3. SomeDegrees(temperature)' /\ SomePercent(humidity)'
  BY <1>1 DEF ShownInv, FromGood, SomeDegrees, SomePercent, Degrees, Percent
<1>4. \A n \in good' : Percent(n)' <= humidity' \/ (aht' \in Stores /\ n = sensor'.n)
  BY <1>1 DEF ShownInv, HumidityKeepsUp, Percent
<1>5. CASE Load
  <2>1. CASE oled = "load_t"
    <3>1. oled' = "draw_t" /\ buf' = temperature /\ UNCHANGED shown
      BY <1>5, <2>1 DEF Load, OledNext
    <3> QED
      BY <1>1, <1>3, <1>4, <2>1, <3>1 DEF ShownInv, FromGood, HumidityKeepsUp, UpTo,
        SomeDegrees, SomePercent, Degrees, Percent
  <2>2. CASE oled = "load_h"
    <3>1. oled' = "draw_h" /\ buf' = humidity /\ UNCHANGED shown
      BY <1>5, <2>2 DEF Load, OledNext
    <3>2. UpTo(shown.t, humidity)
      BY StoredKeepsUp DEF ShownInv, FromGood
    <3> QED
      BY <1>1, <1>3, <1>4, <2>2, <3>1, <3>2 DEF ShownInv, FromGood, HumidityKeepsUp, UpTo,
        SomeDegrees, SomePercent, Degrees, Percent
  <2> QED
    BY <1>5, <2>1, <2>2 DEF Load
<1>6. CASE OledBegin \/ (OledReturn /\ UNCHANGED <<oled, shown>>)
  <2>1. UNCHANGED <<oled, shown, buf>>
    BY <1>6 DEF OledBegin, OledReturn, appvars
  <2> QED
    BY <1>1, <2>1 DEF ShownInv, FromGood, HumidityKeepsUp, UpTo,
      SomeDegrees, SomePercent, Degrees, Percent
<1>7. CASE OledReturn /\ ~UNCHANGED <<oled, shown>>
  <2>1. shown \in [t : Values, h : Values] /\ oled \in OledDraws
    BY <1>7 DEF ReadInv, AppTypes, DrawsInJob, OledReturn, Unlock
  <2>2. UNCHANGED buf /\ oled' = OledNext[oled]
    BY <1>7 DEF OledReturn
  <2>3. CASE oled = "draw_t"
    <3>1. oled' = "load_h" /\ shown'.t = buf /\ shown'.h = shown.h
      BY <1>7, <2>1, <2>2, <2>3 DEF OledReturn, OledNext
    <3> QED
      BY <1>1, <1>3, <1>4, <2>2, <2>3, <3>1 DEF ShownInv, FromGood, HumidityKeepsUp,
        SomeDegrees, SomePercent, Degrees, Percent
  <2>4. CASE oled = "draw_h"
    <3>1. oled' = "other" /\ shown'.t = shown.t /\ shown'.h = buf
      BY <1>7, <2>1, <2>2, <2>4 DEF OledReturn, OledNext
    <3> QED
      BY <1>1, <1>3, <1>4, <2>2, <2>4, <3>1 DEF ShownInv, FromGood, HumidityKeepsUp, UpTo,
        SomeDegrees, SomePercent, Degrees, Percent
  <2>5. CASE oled = "other"
    <3>1. oled' = "load_t" /\ shown' = shown
      BY <1>7, <2>2, <2>5 DEF OledReturn, OledNext
    <3> QED
      BY <1>1, <1>3, <1>4, <2>2, <2>5, <3>1 DEF ShownInv, FromGood, HumidityKeepsUp, UpTo,
        SomeDegrees, SomePercent, Degrees, Percent
  <2> QED
    BY <2>1, <2>3, <2>4, <2>5 DEF OledDraws
<1> QED
  BY <1>5, <1>6, <1>7 DEF OledTask

LEMMA DrawsKept ==
  ASSUME IicInv, AppInv, YosNext
  PROVE  DrawsInJob'
<1>1. at \in [Users -> Holding \cup {"out", "lock"}] /\ ahttsk # oledtak /\ DrawsInJob
  BY DEF IicInv, IicTypeOK, AppInv
<1>2. CASE OnTheBus \/ Measured \/ AhtTask
  <2>1. UNCHANGED oled
    BY <1>2 DEF OnTheBus, Measured, AhtTask, AhtBegin, AhtGetData, AhtReturn, StoreTemperature,
      StoreHumidity, appvars
  <2>2. CASE OnTheBus
    <3>1. at'[oledtak] # "out" => at[oledtak] # "out"
      BY <1>1, <2>2 DEF OnTheBus, Hardware, Spin, iicvars, BusStep, Lock, SetType, WaitIdle,
        SendStart, EnableAck, SendAddress, WaitAddr, SendData, WaitBtf, DisableAck, SendStop,
        Moves, Goto
    <3> QED
      BY <1>1, <2>1, <3>1 DEF DrawsInJob
  <2>3. CASE Measured \/ AhtTask
    <3>1. at'[oledtak] = at[oledtak]
      BY <1>1, <2>3 DEF Measured, AhtTask, AhtBegin, AhtGetData, AhtReturn, StoreTemperature,
        StoreHumidity, iicvars, TransStart, GetData, Unlock, Goto
    <3> QED
      BY <1>1, <2>1, <3>1 DEF DrawsInJob
  <2> QED
    BY <1>2, <2>2, <2>3
<1>3. CASE Load \/ OledReturn
  <2>1. at'[oledtak] = "out"
    BY <1>1, <1>3 DEF Load, OledReturn, Unlock, Goto, iicvars
  <2> QED
    BY <2>1 DEF DrawsInJob
<1>4. CASE OledBegin
  BY <1>4 DEF OledBegin, DrawsInJob, appvars
<1> QED
  BY <1>2, <1>3, <1>4 DEF YosNext, OledTask
-----------------------------------------------------------------------------
\* FramesAreTold is about constants only.
LEMMA StillTold == FramesAreTold => FramesAreTold'
BY DEF FramesAreTold, Degrees, Percent

LEMMA AppInvKept == IicInv /\ AppInv /\ [YosNext]_yosvars => AppInv'
<1>1. AppInv /\ UNCHANGED yosvars => ShownInv' /\ DrawsInJob'
  BY DEF AppInv, ShownInv, FromGood, HumidityKeepsUp, SomeDegrees, SomePercent, UpTo, Degrees,
    Percent, DrawsInJob, yosvars, iicvars, appvars
<1> QED
  BY <1>1, ReadingKept, AhtKeepsShown, OledKeepsShown, DrawsKept, StillTold
  DEF YosNext, AppInv

LEMMA AppInvariant == FramesAreTold /\ YosSpec => []AppInv
<1>1. FramesAreTold /\ YosInit => AppInv
  BY InitAppInv DEF AppInv
<1>2. IicInv /\ AppInv /\ [YosNext]_yosvars => AppInv'
  BY AppInvKept
<1> QED
  BY <1>1, <1>2, IicInvariant, PTL DEF YosSpec

\* What the driver has read is what became of the last measurement's frame.
LEMMA ReadInvariant == YosSpec => []ReadInv
<1>1. YosInit => ReadInv
  BY InitAppInv
<1>2. IicInv /\ ReadInv /\ [YosNext]_yosvars => ReadInv'
  BY ReadingKept
<1> QED
  BY <1>1, <1>2, IicInvariant, PTL DEF YosSpec

\* Whatever the noise makes of the frames and the casts of the values, all
\* that the tasks keep has its type.
THEOREM AppTypeCorrect == YosSpec => []AppTypeOK
<1>1. IicInv /\ ReadInv => AppTypeOK
  <2> SUFFICES ASSUME IicInv, ReadInv PROVE AppTypeOK
    OBVIOUS
  <2>1. {buf, temperature, humidity, shown.t, shown.h} \subseteq Values
    BY DEF ReadInv, AppTypes
  <2> QED
    BY <2>1 DEF IicInv, ReadInv, AppTypes, AppTypeOK, Results
<1> QED
  BY <1>1, IicInvariant, ReadInvariant, PTL

\* Of a frame that the noise left alone the driver makes what the sensor
\* meant, for all the raw values of 20 bits that int8_t has room for, and it
\* rejects the others, provided that its CRC fails for what the noise does.
THEOREM FramesToldApart ==
  ASSUME NoiseIsNoticed, InRange
  PROVE  YosSpec => []FrameIsTold
<1>1. IicInv /\ ReadInv => FrameIsTold
  <2> SUFFICES ASSUME IicInv, ReadInv, aht = "read", at[ahttsk] = "unlock"
               PROVE  /\ got.reading.ok = got.clean
                      /\ got.clean => /\ got.reading.t = Degrees(sensor.n)
                                      /\ got.reading.h = Percent(sensor.n)
    BY DEF FrameIsTold, Degrees, Percent
  <2>1. HasRead
    <3>1. count[ahttsk] = AhtJob[aht].len
      BY DEF ReadInv, InJob
    <3> QED
      BY <3>1 DEF AhtJob, Receive, HasRead
  <2> QED
    BY <2>1, FramesTold, LastIsTold DEF ReadInv, GotIsLast, Told
<1> QED
  BY <1>1, IicInvariant, ReadInvariant, PTL

\* The display shows nothing that was not measured, whatever the number of
\* measurements, if the CRC fails for what the noise does.
THEOREM ShownIsMeasured ==
  ASSUME NoiseIsNoticed, InRange
  PROVE  YosSpec => []ShownWasMeasured
<1>1. AppInv => ShownWasMeasured
  BY DEF AppInv, ShownInv, FromGood, SomeDegrees, SomePercent, ShownWasMeasured, Degrees, Percent
<1> QED
  BY <1>1, FramesTold, AppInvariant, PTL

\* Under the same condition the humidity beside a temperature is never more
\* than one good measurement older, however the stores and the loads fall.
THEOREM HumidityKeepsAbreast ==
  ASSUME NoiseIsNoticed, InRange
  PROVE  YosSpec => []HumidityNotFarBehind
<1>1. AppInv => HumidityNotFarBehind
  <2> SUFFICES ASSUME AppInv, shown.t # 0, oled \notin {"load_h", "draw_h"}, NEW n \in good,
                      shown.h < Percent(n), Degrees(n) < shown.t
               PROVE  FALSE
    BY DEF HumidityNotFarBehind, Degrees, Percent
  <2>1. Percent(n) <= shown.h
    BY DEF AppInv, ShownInv, HumidityKeepsUp, UpTo
  <2>2. n \in DOMAIN Readings /\ shown.h \in Values
    BY DEF AppInv, ReadInv, AppTypes
  <2>3. Percent(n) \in Int
    BY <2>2, ReadingsRise
  <2>4. \A v \in Values : v \in Int
    BY DEF Values
  <2> QED
    BY <2>1, <2>2, <2>3, <2>4
<1> QED
  BY <1>1, FramesTold, AppInvariant, PTL
=============================================================================
