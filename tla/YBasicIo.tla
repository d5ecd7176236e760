------------------------------ MODULE YBasicIo ------------------------------
(***************************************************************************)
(* basic_io.c over a port that answers with an error while it has no byte  *)
(* to give or no room for one: a line read into a buffer and a message     *)
(* written in blocking mode, both byte by byte. A call of the port that    *)
(* fails changes nothing and is made again, so it is not a step here; a    *)
(* message is the number of its bytes that have not been accepted yet.     *)
(***************************************************************************)
EXTENDS Integers, SequencesExt

CONSTANTS
  BufLen,        \* buf_len of the calls of readline
  Chars,         \* what can be typed
  EOL, NUL,      \* BASIC_IO_TEXT_END_MARK, '\0'
  MessageLen     \* bytes of a message

ASSUME BufLenAssumption == BufLen \in Nat \ {0}
ASSUME CharsAssumption == {EOL, NUL} \subseteq Chars /\ EOL # NUL
ASSUME MessageAssumption == MessageLen \in Nat \ {0}

VARIABLES
  buf,           \* the buffer of the reader, as the last lines left it
  byte_read,     \* _byte_read
  unsent,        \* data_len - byte_written
  line           \* history: the bytes taken from the port since readline began

iovars == <<buf, byte_read, unsent, line>>

Buffers == [0 .. BufLen - 1 -> Chars]

IoInit ==
  /\ buf = [p \in 0 .. BufLen - 1 |-> NUL]
  /\ byte_read = 0
  /\ unsent = 0
  /\ line = <<>>

\* basic_io_readline is called.
ReadLine ==
  /\ byte_read' = 0
  /\ line' = <<>>

LineRead == line # <<>> /\ (Last(line) = EOL \/ byte_read = BufLen)

\* Mistake: the terminator is put after the last byte, as if there were room.
StoredAfter(c) == IF c = EOL THEN NUL ELSE c

\* What is left in buf of a byte read: EOL, and the last byte that fits,
\* become the terminator.
Stored(c) == IF c = EOL \/ byte_read + 1 = BufLen THEN NUL ELSE c

\* A byte is read, a blocking call's retries before it included.
ReadByte(c) ==
  /\ ~LineRead
  /\ buf' = [buf EXCEPT ![byte_read] = Stored(c)]
  /\ byte_read' = byte_read + 1
  /\ line' = Append(line, c)
  /\ UNCHANGED unsent

\* basic_io_printf, and _cmd_printf, begin to write n messages.
Printf(n) == unsent' = n * MessageLen

\* The port accepts a byte of a blocking basic_io_write.
WriteByte ==
  /\ unsent > 0
  /\ unsent' = unsent - 1
  /\ UNCHANGED <<buf, byte_read, line>>

Terminators(b, p) == {e \in p .. BufLen - 1 : b[e] = NUL}

\* The string at place p of buffer b, and its length.
StrLen(b, p) == Min(Terminators(b, p)) - p
CString(b, p) == [k \in 1 .. StrLen(b, p) |-> b[p + k - 1]]
-----------------------------------------------------------------------------
IoTypeOK ==
  /\ buf \in Buffers
  /\ byte_read \in 0 .. BufLen
  /\ unsent \in Nat
  /\ line \in Seq(Chars) /\ Len(line) <= BufLen
=============================================================================
