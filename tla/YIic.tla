-------------------------------- MODULE YIic --------------------------------
(***************************************************************************)
(* The I2C master of yiic.c and the two stubs that bracket transactions    *)
(* with it: lock, start, select, the bytes, stop, unlock. The mutex is     *)
(* what YosMutex is proved to implement, module Mutex. A step of a task is *)
(* one access to the peripheral or to current_tran_type, and the tasks     *)
(* interleave between any two. The peripheral and the devices are external:*)
(* the flags that yiic.c waits for, as it reads, sets and clears them.     *)
(***************************************************************************)
EXTENDS Integers, Sequences

CONSTANTS
  Users,         \* the tasks that use the bus
  Slaves,        \* the devices on it
  Present,       \* those that answer to their address
  MaxLen         \* bound on the bytes of a transaction

ASSUME PresentAssumption == Present \subseteq Slaves
ASSUME LenAssumption == MaxLen \in Nat \ {0}

VARIABLES
  inside,              \* the task that has _yiic_mutex
  current_tran_type,
  bus,                 \* the peripheral
  at,                  \* where a task is in a transaction
  job,                 \* the transaction it is in, or was in last
  count,               \* bytes_transmited, bytes_received over the transaction
  frame                \* history: what went over the bus since the last address

iicvars == <<inside, current_tran_type, bus, at, job, count, frame>>

M == INSTANCE Mutex WITH Tasks <- Users

Types == {"transmit", "receive"}
Jobs  == [slave : Slaves, type : Types, len : 1 .. MaxLen]
NoJob == [slave |-> "none", type |-> "transmit", len |-> 0]

(***************************************************************************)
(*   start, stop   requested in CR1, not yet on the wire                   *)
(*   busy          SR2: BUSY, and MSL since there is no other master       *)
(*   sb, addr, btf, rxne   the flags of SR1                                *)
(*   ack           CR1: a byte received now will be acknowledged           *)
(*   wire          what the peripheral is sending                          *)
(*   more          a device is sending, and will send another byte         *)
(*   dr            which byte of the device's the data register holds      *)
(*   shift         the shift register holds the next one                   *)
(***************************************************************************)
IdleBus ==
  [start |-> FALSE, stop |-> FALSE, busy |-> FALSE, sb |-> FALSE, addr |-> FALSE,
   btf |-> FALSE, rxne |-> FALSE, ack |-> FALSE, wire |-> "nothing",
   more |-> FALSE, dr |-> 0, shift |-> FALSE]

(***************************************************************************)
(*   out           in no transaction                                       *)
(*   lock, type, idle, start, ack      in yiic_master_trans_start          *)
(*   select, addr  in yiic_master_select_slave                             *)
(*   data, btf     in yiic_master_transmit_data                            *)
(*   data, rxne    in yiic_master_receive_data                             *)
(*   data, unlock  in yiic_master_trans_stop                               *)
(***************************************************************************)
Holding == {"type", "idle", "start", "ack", "select", "addr", "data", "btf",
            "rxne", "unlock"}

\* yiic_master_init
IicInit ==
  /\ M!MInit
  /\ current_tran_type = "transmit"
  /\ bus = IdleBus
  /\ at = [t \in Users |-> "out"]
  /\ job = [t \in Users |-> NoJob]
  /\ count = [t \in Users |-> 0]
  /\ frame = [by |-> "nobody", slave |-> "none", type |-> "transmit", bytes |-> <<>>]
-----------------------------------------------------------------------------
(***************************************************************************)
(* The peripheral and the devices.                                         *)
(***************************************************************************)
StartDone ==
  /\ bus.start /\ ~bus.stop
  /\ bus' = [bus EXCEPT !.start = FALSE, !.sb = TRUE, !.busy = TRUE]

AddressDone ==
  /\ bus.wire = "address" /\ frame.slave \in Present
  /\ bus' = [bus EXCEPT !.wire = "nothing", !.addr = TRUE,
                        !.more = (frame.type = "receive"), !.dr = 0]

ByteSent ==
  /\ bus.wire = "byte"
  /\ bus' = [bus EXCEPT !.wire = "nothing", !.btf = TRUE]

\* Nothing is received before ADDR is cleared, nor while one byte is in the
\* data register and one in the shift register: the clock is stretched.
ByteReceived ==
  /\ bus.more /\ ~bus.addr /\ ~bus.shift
  /\ bus' = [bus EXCEPT !.rxne = TRUE, !.more = bus.ack, !.shift = bus.rxne,
                        !.dr = IF bus.rxne THEN @ ELSE @ + 1]

StopDone ==
  /\ bus.stop
  /\ bus' = [bus EXCEPT !.stop = FALSE, !.busy = FALSE, !.more = FALSE]

Hardware ==
  /\ StartDone \/ AddressDone \/ ByteSent \/ ByteReceived \/ StopDone
  /\ UNCHANGED <<inside, current_tran_type, at, job, count, frame>>
-----------------------------------------------------------------------------
(***************************************************************************)
(* yiic_master_trans_start                                                 *)
(***************************************************************************)
Goto(t, place) == at' = [at EXCEPT ![t] = place]

TransStart(t, j) ==
  /\ at[t] = "out"
  /\ job' = [job EXCEPT ![t] = j]
  /\ count' = [count EXCEPT ![t] = 0]
  /\ Goto(t, "lock")
  /\ UNCHANGED <<inside, current_tran_type, bus, frame>>

\* Mistake: a transaction that receives does not wait for its turn.
LockToTransmit(t) ==
  /\ at[t] = "lock"
  /\ IF job[t].type = "transmit" THEN M!Acquire(t) ELSE inside' = {t}
  /\ Goto(t, "type")
  /\ UNCHANGED <<current_tran_type, bus, job, count, frame>>

Lock(t) ==
  /\ at[t] = "lock"
  /\ M!Acquire(t)
  /\ Goto(t, "type")
  /\ UNCHANGED <<current_tran_type, bus, job, count, frame>>

SetType(t) ==
  /\ at[t] = "type"
  /\ current_tran_type' = job[t].type
  /\ Goto(t, "idle")
  /\ UNCHANGED <<inside, bus, job, count, frame>>

\* Only a transmission waits until the last transaction is off the bus.
WaitIdle(t) ==
  /\ at[t] = "idle"
  /\ current_tran_type = "transmit" => ~bus.busy
  /\ Goto(t, "start")
  /\ UNCHANGED <<inside, current_tran_type, bus, job, count, frame>>

SendStart(t) ==
  /\ at[t] = "start"
  /\ bus' = [bus EXCEPT !.start = TRUE]
  /\ Goto(t, "ack")
  /\ UNCHANGED <<inside, current_tran_type, job, count, frame>>

EnableAck(t) ==
  /\ at[t] = "ack"
  /\ bus' = [bus EXCEPT !.ack = bus.ack \/ current_tran_type = "receive"]
  /\ Goto(t, "select")
  /\ UNCHANGED <<inside, current_tran_type, job, count, frame>>
-----------------------------------------------------------------------------
(***************************************************************************)
(* yiic_master_select_slave. Writing the address clears SB, and RxNE if a  *)
(* byte was left over, and the address goes out by the shift register;     *)
(* reading SR2 clears ADDR.                                                *)
(***************************************************************************)
SendAddress(t) ==
  /\ at[t] = "select"
  /\ bus.sb /\ bus.busy
  /\ bus' = [bus EXCEPT !.sb = FALSE, !.rxne = FALSE, !.shift = FALSE,
                        !.wire = "address"]
  /\ frame' = [by |-> t, slave |-> job[t].slave, type |-> current_tran_type,
               bytes |-> <<>>]
  /\ Goto(t, "addr")
  /\ UNCHANGED <<inside, current_tran_type, job, count>>

WaitAddr(t) ==
  /\ at[t] = "addr"
  /\ bus.addr
  /\ bus' = [bus EXCEPT !.addr = FALSE]
  /\ Goto(t, "data")
  /\ UNCHANGED <<inside, current_tran_type, job, count, frame>>
-----------------------------------------------------------------------------
(***************************************************************************)
(* yiic_master_transmit_data, yiic_master_receive_data                     *)
(***************************************************************************)
\* Mistake: the loops run once more.
BytesLeftAndOne(t) == count[t] <= job[t].len

BytesLeft(t) == count[t] < job[t].len

Moves(t, type) == at[t] = "data" /\ job[t].type = type /\ BytesLeft(t)

SendData(t) ==
  /\ Moves(t, "transmit")
  /\ bus' = [bus EXCEPT !.wire = "byte", !.btf = FALSE]
  /\ frame' = [frame EXCEPT !.bytes = Append(@, count[t] + 1)]
  /\ Goto(t, "btf")
  /\ UNCHANGED <<inside, current_tran_type, job, count>>

WaitBtf(t) ==
  /\ at[t] = "btf"
  /\ bus.btf
  /\ count' = [count EXCEPT ![t] = @ + 1]
  /\ Goto(t, "data")
  /\ UNCHANGED <<inside, current_tran_type, bus, job, frame>>

\* The acknowledgement is taken back before the last byte is waited for; by
\* then that one and another may have been received.
DisableAck(t) ==
  /\ Moves(t, "receive")
  /\ bus' = [bus EXCEPT !.ack = bus.ack /\ count[t] # job[t].len - 1]
  /\ Goto(t, "rxne")
  /\ UNCHANGED <<inside, current_tran_type, job, count, frame>>

GetData(t) ==
  /\ at[t] = "rxne"
  /\ bus.rxne
  /\ bus' = [bus EXCEPT !.rxne = bus.shift, !.shift = FALSE,
                        !.dr = IF bus.shift THEN @ + 1 ELSE @]
  /\ frame' = [frame EXCEPT !.bytes = Append(@, bus.dr)]
  /\ count' = [count EXCEPT ![t] = @ + 1]
  /\ Goto(t, "data")
  /\ UNCHANGED <<inside, current_tran_type, job>>
-----------------------------------------------------------------------------
(***************************************************************************)
(* yiic_master_trans_stop                                                  *)
(***************************************************************************)
\* Mistake: the transaction is left open.
NoStop(t) ==
  /\ at[t] = "data" /\ ~BytesLeft(t)
  /\ Goto(t, "unlock")
  /\ UNCHANGED <<inside, current_tran_type, bus, job, count, frame>>

SendStop(t) ==
  /\ at[t] = "data" /\ ~BytesLeft(t)
  /\ bus' = [bus EXCEPT !.stop = TRUE]
  /\ Goto(t, "unlock")
  /\ UNCHANGED <<inside, current_tran_type, job, count, frame>>

Unlock(t) ==
  /\ at[t] = "unlock"
  /\ M!Release(t)
  /\ Goto(t, "out")
  /\ UNCHANGED <<current_tran_type, bus, job, count, frame>>

\* A turn of a loop that waits, for the mutex or for a flag.
Spin(t) ==
  /\ at[t] \in {"lock", "idle", "select", "addr", "btf", "rxne"}
  /\ UNCHANGED iicvars

\* What a task does within a transaction, but for GetData and Unlock, which
\* bring it something.
BusStep(t) ==
  \/ Lock(t) \/ SetType(t) \/ WaitIdle(t) \/ SendStart(t) \/ EnableAck(t)
  \/ SendAddress(t) \/ WaitAddr(t)
  \/ SendData(t) \/ WaitBtf(t) \/ DisableAck(t)
  \/ SendStop(t)
-----------------------------------------------------------------------------
IicTypeOK ==
  /\ inside \subseteq Users
  /\ current_tran_type \in Types
  /\ bus \in [start : BOOLEAN, stop : BOOLEAN, busy : BOOLEAN, sb : BOOLEAN,
              addr : BOOLEAN, btf : BOOLEAN, rxne : BOOLEAN, ack : BOOLEAN,
              wire : {"nothing", "address", "byte"}, more : BOOLEAN,
              dr : 0 .. MaxLen + 1, shift : BOOLEAN]
  /\ at \in [Users -> Holding \cup {"out", "lock"}]
  /\ \A t \in Users : job[t] \in Jobs \cup {NoJob} /\ count[t] \in 0 .. job[t].len

(***************************************************************************)
(* A transaction that has been stopped went over the bus as it was asked   *)
(* for: to the device and in the direction of the task that started it     *)
(* (current_tran_type is shared and read again when the device is          *)
(* selected), all its bytes in order, none of another task's among them    *)
(* and none left over from an earlier transaction.                         *)
(***************************************************************************)
TransactionIsWhole ==
  \A t \in Users :
    at[t] = "unlock" =>
      frame = [by |-> t, slave |-> job[t].slave, type |-> job[t].type,
               bytes |-> [i \in 1 .. job[t].len |-> i]]

\* A task that has the bus gives it back: none of the waits for a flag, which
\* have no timeout, is for ever as long as the devices answer.
BusIsFreed == \A t \in Users : at[t] \in Holding ~> at[t] = "out"
=============================================================================
