------------------------------- MODULE YUsart -------------------------------
(***************************************************************************)
(* The serial port of yusart.c: usart1_isr fills the receive ring buffer,  *)
(* tasks empty it and send, each call inside its masked section. Of the    *)
(* kernel only what the port relies on is here: tasks interleave at any    *)
(* point where the interrupts are on, while they are masked nothing but    *)
(* the task that masked them runs (MaskStaysWithItsTask of YosKernel), and *)
(* the interrupt runs to its end. The USART itself is external: RXNE, ORE, *)
(* TXE and the data registers as usart_get_flag, usart_recv and usart_send *)
(* use them. A received byte is named by its place in the arrivals.        *)
(***************************************************************************)
EXTENDS YRing

CONSTANTS
  Callers,       \* the tasks that use the port
  BufferSize,    \* YUSART_RECEIVE_BUFFER_SIZE_BYTE
  MaxArrivals,   \* bound on the bytes that come in
  MaxWrites      \* bound on the bytes the tasks send

ASSUME BufferAssumption == BufferSize \in Nat \ {0}
ASSUME BoundsAssumption == MaxArrivals \in Nat /\ MaxWrites \in Nat

\* Arrivals are numbered from 1; 0 is what a register or a slot has at first.
Numbers == 0 .. MaxArrivals

ASSUME BytesAssumption == Bytes = Numbers

VARIABLES
  rb,            \* _yusart_rx_rb
  primask,
  \* the USART
  rxne, ore, rdr,
  txe, tdr,
  \* usart1_isr: where it is, its d, and whether it saw ORE beside RXNE
  isr, d, sawOre,
  \* the tasks: which function, where in it, what it read, what it returns
  call, at, saw, said,
  \* histories
  arrived,       \* the number of bytes that came in
  overrun,       \* those the USART dropped because RXNE was set
  displaced,     \* those a later one displaced from the ring buffer
  taken,         \* those handed to the tasks
  written,       \* the number of bytes accepted for sending
  wire           \* those that have left, as their numbers

usart   == <<rxne, ore, rdr, txe, tdr>>
handler == <<isr, d, sawOre>>
threads == <<call, at, saw, said>>
log     == <<arrived, overrun, displaced, taken, written, wire>>
uvars   == <<rb, primask, usart, handler, threads, log>>

Calls == {"read", "write", "can_read", "can_write"}

(***************************************************************************)
(*   out     in no function of the port                                    *)
(*   look    masked, about to test the ring buffer or TXE                  *)
(*   store   reading: the byte is copied and current_len loaded, about to  *)
(*           store it; writing: TXE was set, about to send                 *)
(*   leave   masked, about to unmask                                       *)
(*   return  unmasked, about to return                                     *)
(***************************************************************************)
Masked == {"look", "store", "leave"}
Stages == Masked \cup {"out", "return"}

\* yusart_init, called by main.
UInit ==
  /\ rb = InitRing([i \in 0 .. BufferSize - 1 |-> 0], BufferSize)
  /\ primask = FALSE
  /\ rxne = FALSE /\ ore = FALSE /\ rdr = 0
  /\ txe = TRUE /\ tdr = 0
  /\ isr = "idle" /\ d = 0 /\ sawOre = FALSE
  /\ call = [t \in Callers |-> "read"]
  /\ at = [t \in Callers |-> "out"]
  /\ saw = [t \in Callers |-> 0]
  /\ said = [t \in Callers |-> FALSE]
  /\ arrived = 0 /\ overrun = {} /\ displaced = {} /\ taken = <<>>
  /\ written = 0 /\ wire = <<>>
-----------------------------------------------------------------------------
(***************************************************************************)
(* The USART.                                                              *)
(***************************************************************************)
Arrive ==
  /\ arrived < MaxArrivals
  /\ arrived' = arrived + 1
  /\ rxne' = TRUE
  /\ ore' = (ore \/ rxne)
  /\ rdr' = IF rxne THEN rdr ELSE arrived'
  /\ overrun' = IF rxne THEN overrun \cup {arrived'} ELSE overrun
  /\ UNCHANGED <<rb, primask, txe, tdr, handler, threads, displaced, taken,
                 written, wire>>

\* The byte goes to the shift register, and TXE is set again.
Shift ==
  /\ ~txe
  /\ txe' = TRUE
  /\ wire' = Append(wire, tdr)
  /\ UNCHANGED <<rb, primask, rxne, ore, rdr, tdr, handler, threads, arrived,
                 overrun, displaced, taken, written>>

\* The receive interrupt is for RXNE and ORE.
Irq == rxne \/ ore
-----------------------------------------------------------------------------
(***************************************************************************)
(* usart1_isr. No task runs until it is idle again.                        *)
(***************************************************************************)
EnterIsr ==
  /\ isr = "idle" /\ Irq /\ ~primask
  /\ isr' = "flag"
  /\ UNCHANGED <<rb, primask, usart, d, sawOre, threads, log>>

\* usart_get_flag reads the status register.
TestRxne ==
  /\ isr = "flag"
  /\ sawOre' = ore
  /\ isr' = IF rxne THEN "recv" ELSE "idle"
  /\ UNCHANGED <<rb, primask, usart, d, threads, log>>

\* Mistake: the byte is taken from elsewhere and RXNE stays set.
ReceiveElsewhere ==
  /\ isr = "recv"
  /\ d' = rdr
  /\ isr' = "put"
  /\ UNCHANGED <<rb, primask, usart, sawOre, threads, log>>

\* usart_recv reads the data register: RXNE is cleared, and so is ORE if it
\* was there when the status register was read.
Receive ==
  /\ isr = "recv"
  /\ d' = rdr
  /\ rxne' = FALSE
  /\ ore' = (ore /\ ~sawOre)
  /\ isr' = "put"
  /\ UNCHANGED <<rb, primask, rdr, txe, tdr, sawOre, threads, log>>

\* YRingBufferPutData(&_yusart_rx_rb, &d, sizeof(d), 1)
Put ==
  /\ isr = "put"
  /\ rb' = PutByte(rb, d)
  /\ displaced' = IF Full(rb) THEN displaced \cup {rb.data[rb.start]} ELSE displaced
  /\ isr' = "idle"
  /\ UNCHANGED <<primask, usart, d, sawOre, threads, arrived, overrun, taken,
                 written, wire>>

Isr == EnterIsr \/ TestRxne \/ Receive \/ Put
-----------------------------------------------------------------------------
(***************************************************************************)
(* The tasks.                                                              *)
(***************************************************************************)
Runs(t) ==
  /\ isr = "idle"
  /\ IF primask THEN at[t] \in Masked ELSE ~Irq

\* Mistake: only the calls that change nothing mask the interrupts.
MasksLookersOnly(c) == c \in {"can_read", "can_write"}

\* Mistake: sending does not mask the interrupts.
MasksReaders(c) == c # "write"

\* All functions of the port call cm_disable_interrupts first.
Masks(c) == TRUE

Begin(t, c) ==
  /\ Runs(t) /\ at[t] = "out"
  /\ c = "write" => written < MaxWrites
  /\ primask' = Masks(c)
  /\ call' = [call EXCEPT ![t] = c]
  /\ said' = [said EXCEPT ![t] = FALSE]
  /\ at' = [at EXCEPT ![t] = "look"]
  /\ UNCHANGED <<rb, usart, handler, saw, log>>

\* yusart_can_receive, yusart_can_transmit
Ask(t) ==
  /\ Runs(t) /\ at[t] = "look"
  /\ call[t] \in {"can_read", "can_write"}
  /\ said' = [said EXCEPT ![t] = IF call[t] = "can_read" THEN rb.size > 0 ELSE txe]
  /\ at' = [at EXCEPT ![t] = "leave"]
  /\ UNCHANGED <<rb, primask, usart, handler, call, saw, log>>

\* YRingBufferGetData for one byte: none there, or one copied and start moved on
Get(t) ==
  /\ Runs(t) /\ at[t] = "look" /\ call[t] = "read"
  /\ IF Empty(rb)
     THEN /\ at' = [at EXCEPT ![t] = "leave"]
          /\ UNCHANGED <<rb, saw, taken>>
     ELSE /\ at' = [at EXCEPT ![t] = "store"]
          /\ saw' = [saw EXCEPT ![t] = rb.current_len]
          /\ taken' = Append(taken, rb.data[rb.start])
          /\ rb' = [rb EXCEPT !.start = Wrap(rb, rb.start + 1)]
  /\ UNCHANGED <<primask, usart, handler, call, said, arrived, overrun, displaced,
                 written, wire>>

\* ... and rb->current_len--, the store of it.
StoreLen(t) ==
  /\ Runs(t) /\ at[t] = "store" /\ call[t] = "read"
  /\ rb' = [rb EXCEPT !.current_len = saw[t] - 1]
  /\ said' = [said EXCEPT ![t] = TRUE]
  /\ at' = [at EXCEPT ![t] = "leave"]
  /\ UNCHANGED <<primask, usart, handler, call, saw, log>>

\* yusart_io_write_byte_no_block: the test of TXE
TestTxe(t) ==
  /\ Runs(t) /\ at[t] = "look" /\ call[t] = "write"
  /\ at' = [at EXCEPT ![t] = IF txe THEN "store" ELSE "leave"]
  /\ UNCHANGED <<rb, primask, usart, handler, call, saw, said, log>>

\* ... and usart_send
Send(t) ==
  /\ Runs(t) /\ at[t] = "store" /\ call[t] = "write"
  /\ written' = written + 1
  /\ tdr' = written'
  /\ txe' = FALSE
  /\ said' = [said EXCEPT ![t] = TRUE]
  /\ at' = [at EXCEPT ![t] = "leave"]
  /\ UNCHANGED <<rb, primask, rxne, ore, rdr, handler, call, saw, arrived, overrun,
                 displaced, taken, wire>>

\* cm_enable_interrupts
Leave(t) ==
  /\ Runs(t) /\ at[t] = "leave"
  /\ primask' = FALSE
  /\ at' = [at EXCEPT ![t] = "return"]
  /\ UNCHANGED <<rb, usart, handler, call, saw, said, log>>

Return(t) ==
  /\ Runs(t) /\ at[t] = "return"
  /\ at' = [at EXCEPT ![t] = "out"]
  /\ UNCHANGED <<rb, primask, usart, handler, call, saw, said, log>>

InCall(t) ==
  \/ Ask(t) \/ Get(t) \/ StoreLen(t) \/ TestTxe(t) \/ Send(t)
  \/ Leave(t) \/ Return(t)

UNext ==
  \/ Arrive
  \/ Shift
  \/ Isr
  \/ \E t \in Callers : InCall(t) \/ \E c \in Calls : Begin(t, c)

USpec == UInit /\ [][UNext]_uvars

(***************************************************************************)
(* The core executes: the interrupt when it is pending, and the tasks,     *)
(* each of which the kernel gives its turns. Nothing has to arrive.        *)
(***************************************************************************)
UFairness ==
  /\ WF_uvars(Isr)
  /\ WF_uvars(Shift)
  /\ \A t \in Callers : SF_uvars(InCall(t))

FairUSpec == USpec /\ UFairness
-----------------------------------------------------------------------------
UTypeOK ==
  /\ rb.size = BufferSize /\ rb.data \in [0 .. BufferSize - 1 -> Numbers]
  /\ rb.start \in 0 .. BufferSize - 1 /\ rb.end \in 0 .. BufferSize - 1
  /\ rb.current_len \in 0 .. BufferSize
  /\ {primask, rxne, ore, txe, sawOre} \subseteq BOOLEAN
  /\ {rdr, d, arrived} \subseteq Numbers
  /\ isr \in {"idle", "flag", "recv", "put"}
  /\ tdr \in 0 .. written /\ written \in 0 .. MaxWrites
  /\ call \in [Callers -> Calls] /\ at \in [Callers -> Stages]
  /\ saw \in [Callers -> 0 .. BufferSize] /\ said \in [Callers -> BOOLEAN]
  /\ overrun \subseteq Numbers /\ displaced \subseteq Numbers
  /\ taken \in Seq(Numbers) /\ wire \in Seq(1 .. MaxWrites)

(***************************************************************************)
(* usart1_isr and every task that looks at the ring buffer find its        *)
(* indices and its length in agreement, although both sides update them    *)
(* one at a time.                                                          *)
(***************************************************************************)
RingSharedSafely ==
  isr = "put" \/ (\E t \in Callers : at[t] = "look") => RingOK(rb)

\* The bytes on their way to the tasks, oldest first.
Underway ==
  Contents(rb) \o (IF isr = "put" THEN <<d>> ELSE <<>>)
               \o (IF rxne THEN <<rdr>> ELSE <<>>)

BetweenUpdates == \E t \in Callers : at[t] = "store" /\ call[t] = "read"

\* The bytes of s are the first n that came in but for those in gone, in order.
AccountsFor(s, n, gone) ==
  /\ \A j, k \in 1 .. Len(s) : j < k => s[j] < s[k]
  /\ {s[k] : k \in 1 .. Len(s)} = (1 .. n) \ gone

(***************************************************************************)
(* Received bytes reach the tasks once and in order: with those a task has *)
(* got and those that are under way, every byte that came in is accounted  *)
(* for, and only the USART (overrun) and a full ring buffer (displaced)    *)
(* have taken any away.                                                    *)
(***************************************************************************)
NothingElseIsLost ==
  ~BetweenUpdates => AccountsFor(taken \o Underway, arrived, overrun \cup displaced)

(***************************************************************************)
(* A byte for which write_byte_no_block has returned 0 leaves the port     *)
(* once and in order: none is overwritten in the data register by another  *)
(* task that also found TXE set.                                           *)
(***************************************************************************)
AcceptedBytesLeave ==
  wire \o (IF txe THEN <<>> ELSE <<tdr>>) = [i \in 1 .. written |-> i]

(***************************************************************************)
(* can_read returns non-zero only when there is a byte to read ("zero      *)
(* means no data available", basic_io.h:41).                               *)
(***************************************************************************)
CanReadMeansData ==
  \A t \in Callers :
    at[t] = "leave" /\ call[t] = "can_read" /\ said[t] => rb.current_len > 0

\* A call to read or to write a byte returns, whether or not there is one to
\* read or room for one to write ("it will not block", basic_io.h:50 and 68).
CallsReturn ==
  \A t \in Callers :
    (at[t] # "out" /\ call[t] \in {"read", "write"}) ~> (at[t] = "out")

(***************************************************************************)
(* They do return unless an overrun is left standing: if the overrun flag  *)
(* is clear again and again, the interrupt is over again and again, and    *)
(* the task that is in a call gets to its end.                             *)
(***************************************************************************)
CallsReturnUnlessOverrun == []<>~ore => CallsReturn

(***************************************************************************)
(* A byte that has come in gets into the ring buffer or is dropped for a   *)
(* reason: the interrupt is not left without service.                      *)
(***************************************************************************)
ArrivalsAreServed == (rxne \/ isr # "idle") ~> (isr = "idle" /\ ~rxne)
=============================================================================
