--------------------------- MODULE YCmdlineProofs ---------------------------
(***************************************************************************)
(* Proofs about YCmdline, for every size of the line buffer and of _ARGV,  *)
(* every alphabet and every choice of blanks, quotes and names: a line     *)
(* comes back as it was typed, the cutting in place of it stays inside the *)
(* buffer, and what it cuts are the words that were typed, which are the   *)
(* only ones on the line.                                                  *)
(***************************************************************************)
EXTENDS YCmdline, TLAPS, FiniteSetTheorems, NaturalsInduction,
        WellFoundedInduction, SequenceTheorems

\* Min, on a nonempty set of naturals, is the least of it.
LEMMA MinIsLeast ==
  ASSUME NEW S \in SUBSET Nat, S # {}
  PROVE  Min(S) \in S /\ \A y \in S : Min(S) <= y
<1>1. PICK x \in S : \A y \in S : ~(<<y, x>> \in OpToRel(<, Nat))
  BY NatLessThanWellFounded, WFMin
<1>2. \A y \in S : y \in Nat /\ x \in Nat
  OBVIOUS
<1>3. \A y \in S : ~(y < x)
  BY <1>1, <1>2, Zenon DEF OpToRel
<1>4. \A y \in S : x <= y
  BY <1>2, <1>3
<1> QED
  BY <1>4 DEF Min

\* The string at a place with a terminator behind it ends at the first one.
LEMMA StringEnds ==
  ASSUME NEW b, NEW p \in Nat, NEW e \in Terminators(b, p)
  PROVE  /\ StrLen(b, p) \in Nat /\ p + StrLen(b, p) <= e
         /\ p + StrLen(b, p) \in Terminators(b, p)
         /\ \A k \in 1 .. StrLen(b, p) : b[p + k - 1] # NUL
<1> DEFINE m == Min(Terminators(b, p))
<1>1. Terminators(b, p) \in SUBSET Nat /\ Terminators(b, p) # {}
  BY BufLenAssumption DEF Terminators
<1>2. m \in Terminators(b, p) /\ \A y \in Terminators(b, p) : m <= y
  BY <1>1, MinIsLeast
<1>3. m \in Nat /\ p <= m /\ m < BufLen /\ e \in Nat
  BY <1>1, <1>2, BufLenAssumption DEF Terminators
<1> HIDE DEF m
<1>4. StrLen(b, p) = m - p
  BY DEF StrLen, m
<1>5. \A k \in 1 .. StrLen(b, p) : b[p + k - 1] # NUL
  <2> SUFFICES ASSUME NEW k \in 1 .. StrLen(b, p), b[p + k - 1] = NUL
               PROVE  FALSE
    OBVIOUS
  <2>1. p + k - 1 \in p .. BufLen - 1 /\ p + k - 1 < m
    BY <1>3, <1>4, BufLenAssumption
  <2>2. p + k - 1 \in Terminators(b, p)
    BY <2>1 DEF Terminators
  <2> QED
    BY <1>2, <1>3, <2>1, <2>2
<1> QED
  BY <1>2, <1>3, <1>4, <1>5

\* help prints a line for every command, of which there are finitely many.
LEMMA FiniteCommands == Cardinality(Commands) \in Nat
<1>1. IsFiniteSet({"help"} \cup {"echo"} \cup {"si"} \cup {"sleep"} \cup {"ts"}
                    \cup {"exit"})
  <2>1. IsFiniteSet({"help"})
    BY FS_Singleton
  <2> QED
    BY <2>1, FS_AddElement
<1>2. Commands = {"help"} \cup {"echo"} \cup {"si"} \cup {"sleep"} \cup {"ts"}
                   \cup {"exit"}
  BY DEF Commands
<1> QED
  BY <1>1, <1>2, FS_CardinalityType

\* So much is printed as there are messages, all of a length.
LEMMA PrintfTypes ==
  ASSUME NEW n \in Nat, Printf(n)
  PROVE  unsent' \in Nat
BY MessageAssumption DEF Printf
-----------------------------------------------------------------------------
(***************************************************************************)
(* Steps that leave the line, the buffer and the arguments alone.          *)
(***************************************************************************)
LEMMA CmdInitInv == CmdInit => CmdInv
<1> SUFFICES ASSUME CmdInit PROVE CmdInv
  OBVIOUS
<1>1. IoTypeOK
  BY BufLenAssumption, CharsAssumption DEF CmdInit, IoInit, IoTypeOK, Buffers
<1>2. CmdTypeOK
  BY <1>1, BufLenAssumption, ParaAssumption DEF CmdInit, CmdTypeOK, Places
<1> QED
  BY <1>2 DEF CmdInit, CmdInv, LineInBuffer, LineEnds, ArgumentsEnd

LEMMA SendByteInv == CmdInv /\ SendByte => CmdInv'
<1> SUFFICES ASSUME CmdInv, SendByte PROVE CmdInv'
  OBVIOUS
<1>1. /\ UNCHANGED <<buf, byte_read, line, at, pos, cmdlen, argv, last_cmd_ret>>
      /\ unsent > 0 /\ unsent' = unsent - 1
  BY DEF SendByte, WriteByte
<1>2. unsent' \in Nat
  BY <1>1 DEF CmdInv, CmdTypeOK, IoTypeOK
<1> QED
  BY <1>1, <1>2
  DEF CmdInv, CmdTypeOK, IoTypeOK, LineInBuffer, LineEnds, ArgumentsEnd,
      Terminators

LEMMA GreetedInv == CmdInv /\ Greeted => CmdInv'
<1> SUFFICES ASSUME CmdInv, Greeted PROVE CmdInv'
  OBVIOUS
<1>1. unsent' \in Nat
  BY PrintfTypes DEF Greeted
<1> QED
  BY <1>1
  DEF Greeted, CmdInv, CmdTypeOK, IoTypeOK, LineInBuffer, LineEnds, ArgumentsEnd,
      Places

LEMMA SleptInv == CmdInv /\ Slept => CmdInv'
<1> SUFFICES ASSUME CmdInv, Slept PROVE CmdInv'
  OBVIOUS
<1>1. unsent' \in Nat
  BY PrintfTypes DEF Slept
<1> QED
  BY <1>1
  DEF Slept, CmdInv, CmdTypeOK, IoTypeOK, LineInBuffer, LineEnds, ArgumentsEnd,
      Places

\* The prompt is printed and a line begun.
LEMMA PromptedInv == CmdInv /\ Prompted => CmdInv'
<1> SUFFICES ASSUME CmdInv, Prompted PROVE CmdInv'
  OBVIOUS
<1>1. unsent' \in Nat
  BY PrintfTypes DEF Prompted
<1>2. /\ UNCHANGED <<buf, pos, cmdlen, argv, last_cmd_ret>> /\ at' = "read"
      /\ byte_read' = 0 /\ line' = <<>>
  BY DEF Prompted, ReadLine
<1>3. CmdTypeOK'
  BY <1>1, <1>2, BufLenAssumption
  DEF CmdInv, CmdTypeOK, IoTypeOK, Places
<1> QED
  BY <1>2, <1>3 DEF CmdInv, LineInBuffer, LineEnds, ArgumentsEnd

\* The command, known or not, is run and the line forgotten.
LEMMA CommandInv ==
  ASSUME CmdInv, NoCommand \/ \E c \in Commands : DoCommand(c)
  PROVE  CmdInv'
<1>1. Len(argv) \in Nat
  BY DEF CmdInv, CmdTypeOK
<1>2. /\ UNCHANGED <<buf, byte_read, pos, cmdlen>> /\ line' = <<>> /\ argv' = <<>>
      /\ at' \in {"sleep", "banner", "prompt"}
  BY DEF NoCommand, DoCommand
<1>3. last_cmd_ret' \in {0, -1, -2}
  BY DEF NoCommand, DoCommand, Returns, HelpReturns, CmdInv, CmdTypeOK
<1>4. unsent' \in Nat
  <2>1. CASE NoCommand
    BY <2>1, PrintfTypes DEF NoCommand
  <2>2. ASSUME NEW c \in Commands, DoCommand(c)
        PROVE  unsent' \in Nat
    <3>1. Messages(c) \in Nat
      BY <1>1, FiniteCommands, TaskCountAssumption DEF Messages, Commands
    <3> QED
      BY <2>2, <3>1, PrintfTypes DEF DoCommand
  <2> QED
    BY <2>1, <2>2
<1>5. CmdTypeOK'
  BY <1>2, <1>3, <1>4, ParaAssumption, BufLenAssumption
  DEF CmdInv, CmdTypeOK, IoTypeOK, Places
<1> QED
  BY <1>2, <1>5 DEF CmdInv, LineInBuffer, LineEnds, ArgumentsEnd
-----------------------------------------------------------------------------
(***************************************************************************)
(* Reading a line.                                                         *)
(***************************************************************************)

\* A byte is put behind those read before, in the buffer and in the line.
LEMMA ReadingInv ==
  ASSUME CmdInv, NEW c \in Chars, Reading(c)
  PROVE  CmdInv'
<1>1. /\ at = "read" /\ ~LineRead /\ CmdTypeOK /\ LineInBuffer
      /\ buf' = [buf EXCEPT ![byte_read] = Stored(c)]
      /\ byte_read' = byte_read + 1 /\ line' = Append(line, c)
      /\ UNCHANGED <<unsent, at, pos, cmdlen, argv, last_cmd_ret>>
  BY DEF Reading, ReadByte, CmdInv
<1>2. /\ byte_read = Len(line) /\ line \in Seq(Chars) /\ buf \in Buffers
      /\ Len(line) \in Nat /\ Len(line) <= BufLen /\ BufLen \in Nat \ {0}
  BY <1>1, BufLenAssumption DEF CmdTypeOK, IoTypeOK, LineInBuffer
<1>3. Len(line) < BufLen /\ (Len(line) > 0 => line[Len(line)] # EOL)
  <2>1. CASE line = <<>>
    BY <1>2, <2>1
  <2>2. CASE line # <<>>
    BY <1>1, <1>2, <2>2 DEF LineRead, Last
  <2> QED
    BY <2>1, <2>2
<1>4. /\ Len(line') = Len(line) + 1 /\ line' \in Seq(Chars)
      /\ \A k \in 1 .. Len(line) : line'[k] = line[k]
      /\ line'[Len(line) + 1] = c
  BY <1>1, <1>2
<1>5. /\ buf'[Len(line)] = Stored(c)
      /\ \A p \in 0 .. BufLen - 1 : p # Len(line) => buf'[p] = buf[p]
      /\ buf' \in Buffers
  BY <1>1, <1>2, <1>3, CharsAssumption DEF Buffers, Stored
<1>6. CmdTypeOK'
  BY <1>1, <1>2, <1>3, <1>4, <1>5 DEF CmdTypeOK, IoTypeOK
<1>7. LineInBuffer'
  <2>1. ASSUME NEW k \in 1 .. Len(line) + 1
        PROVE  buf'[k - 1] = IF line'[k] = EOL \/ k = BufLen THEN NUL ELSE line'[k]
    <3>1. CASE k = Len(line) + 1
      BY <1>2, <1>4, <1>5, <3>1 DEF Stored
    <3>2. CASE k # Len(line) + 1
      <4>1. k \in 1 .. Len(line) /\ k - 1 \in 0 .. BufLen - 1 /\ k - 1 # Len(line)
        BY <1>2, <1>3, <3>2
      <4> QED
        BY <1>1, <1>4, <1>5, <4>1 DEF LineInBuffer
    <3> QED
      BY <3>1, <3>2
  <2>2. \A k \in 1 .. Len(line) : line'[k] # EOL
    BY <1>1, <1>2, <1>3, <1>4 DEF LineInBuffer
  <2> QED
    BY <1>1, <1>2, <1>4, <2>1, <2>2 DEF LineInBuffer
<1> QED
  BY <1>1, <1>6, <1>7 DEF CmdInv, LineEnds, ArgumentsEnd

\* A line that has been read ends with a terminator.
LEMMA LineEndsInBuffer ==
  ASSUME CmdInv, at = "read", LineRead
  PROVE  /\ Len(line) \in 1 .. BufLen /\ byte_read = Len(line)
         /\ Len(line) - 1 \in Terminators(buf, 0)
         /\ Last(line) = EOL \/ Len(line) = BufLen
<1>1. Len(line) \in 1 .. BufLen /\ byte_read = Len(line)
  BY BufLenAssumption
  DEF LineRead, CmdInv, CmdTypeOK, IoTypeOK, LineInBuffer
<1>2. line[Len(line)] = EOL \/ Len(line) = BufLen
  BY <1>1 DEF LineRead, Last
<1>3. buf[Len(line) - 1] = NUL
  BY <1>1, <1>2 DEF CmdInv, LineInBuffer
<1> QED
  BY <1>1, <1>2, <1>3, BufLenAssumption DEF Terminators, Last

\* The cutting begins with a terminator at the end of the line.
LEMMA MakeArgsInv == CmdInv /\ MakeArgs => CmdInv'
<1> SUFFICES ASSUME CmdInv, MakeArgs PROVE CmdInv'
  OBVIOUS
<1>1. /\ at = "read" /\ LineRead /\ at' = "args" /\ pos' = 0
      /\ cmdlen' = StrLen(buf, 0) /\ argv' = <<>> /\ byte_read' = 0
      /\ UNCHANGED <<buf, unsent, line, last_cmd_ret>>
  BY DEF MakeArgs
<1>2. /\ StrLen(buf, 0) \in Nat /\ 0 + StrLen(buf, 0) \in Terminators(buf, 0)
  BY <1>1, LineEndsInBuffer, StringEnds
<1>3. cmdlen' \in 0 .. BufLen - 1 /\ buf[cmdlen'] = NUL
  BY <1>1, <1>2 DEF Terminators
<1>4. CmdTypeOK'
  BY <1>1, <1>3, BufLenAssumption, ParaAssumption
  DEF CmdInv, CmdTypeOK, IoTypeOK, Places
<1> QED
  BY <1>1, <1>3, <1>4 DEF CmdInv, LineInBuffer, LineEnds, ArgumentsEnd
-----------------------------------------------------------------------------
(***************************************************************************)
(* Cutting the line.                                                       *)
(***************************************************************************)

\* A token that starts and ends inside the line leaves its end in place.
LEMMA TokenInv ==
  ASSUME CmdInv, at = "args", MoreArgs, NEW start \in 0 .. cmdlen,
         NEW end \in start .. cmdlen, Token(start, end),
         UNCHANGED <<byte_read, unsent, line, at, cmdlen, last_cmd_ret>>
  PROVE  CmdInv'
<1>1. /\ buf' = [buf EXCEPT ![end] = NUL] /\ argv' = Append(argv, start)
      /\ pos' = end + 1 /\ Len(argv) < MaxParaCnt
  BY DEF Token, MoreArgs
<1>2. /\ buf \in Buffers /\ argv \in Seq(0 .. BufLen - 1)
      /\ cmdlen \in 0 .. BufLen - 1 /\ buf[cmdlen] = NUL /\ BufLen \in Nat
      /\ MaxParaCnt \in Nat
  BY BufLenAssumption, ParaAssumption
  DEF CmdInv, CmdTypeOK, IoTypeOK, LineEnds
<1>3. start \in 0 .. BufLen - 1 /\ end \in 0 .. BufLen - 1 /\ start <= end
      /\ end <= cmdlen
  BY <1>2
<1>4. /\ buf' \in Buffers /\ buf'[end] = NUL
      /\ \A p \in 0 .. BufLen - 1 : buf[p] = NUL => buf'[p] = NUL
  BY <1>1, <1>2, <1>3, CharsAssumption DEF Buffers
<1>5. /\ argv' \in Seq(0 .. BufLen - 1) /\ Len(argv') = Len(argv) + 1
      /\ \A k \in 1 .. Len(argv) : argv'[k] = argv[k]
      /\ argv'[Len(argv) + 1] = start
  BY <1>1, <1>2, <1>3
<1>6. Len(argv') <= MaxParaCnt /\ Len(argv) \in Nat
  BY <1>1, <1>2, <1>5
<1>7. CmdTypeOK'
  <2>1. pos' \in 0 .. BufLen
    BY <1>1, <1>2, <1>3
  <2> QED
    BY <1>4, <1>5, <1>6, <2>1 DEF CmdInv, CmdTypeOK, IoTypeOK
<1>8. LineEnds'
  BY <1>1, <1>2, <1>3, <1>4 DEF LineEnds
<1>9. ArgumentsEnd'
  <2> SUFFICES ASSUME NEW k \in 1 .. Len(argv) + 1
               PROVE  Terminators(buf', argv'[k]) # {}
    BY <1>5, <1>6 DEF ArgumentsEnd
  <2>1. CASE k = Len(argv) + 1
    <3>1. end \in Terminators(buf', start)
      BY <1>2, <1>3, <1>4 DEF Terminators
    <3> QED
      BY <1>5, <2>1, <3>1
  <2>2. CASE k # Len(argv) + 1
    <3>1. k \in 1 .. Len(argv) /\ argv[k] \in 0 .. BufLen - 1
      BY <1>2, <1>6, <2>2
    <3>2. PICK e \in Terminators(buf, argv[k]) : TRUE
      BY <1>2, <3>1 DEF CmdInv, ArgumentsEnd
    <3>3. e \in Terminators(buf', argv[k])
      BY <1>2, <1>4, <3>1, <3>2 DEF Terminators
    <3> QED
      BY <1>5, <3>1, <3>3
  <2> QED
    BY <2>1, <2>2
<1> QED
  BY <1>7, <1>8, <1>9 DEF CmdInv, LineInBuffer

\* The terminator of the line ends every token at the latest.
LEMMA TokensEnd ==
  ASSUME CmdInv, at = "args", NEW from \in 0 .. cmdlen
  PROVE  /\ EndOfWord(from) \in from .. cmdlen
         /\ \A q : EndOfQuoted(q, from) \in from .. cmdlen
<1>1. cmdlen \in 0 .. BufLen - 1 /\ buf[cmdlen] = NUL /\ BufLen \in Nat
  BY BufLenAssumption DEF CmdInv, CmdTypeOK, LineEnds
<1>2. EndOfWord(from) \in from .. cmdlen
  <2> DEFINE S == {cmdlen} \cup {e \in from .. cmdlen - 1 : buf[e] \in Blanks}
  <2>1. S \in SUBSET Nat /\ cmdlen \in S /\ S \subseteq from .. cmdlen
    BY <1>1
  <2>2. Min(S) \in S
    BY <2>1, MinIsLeast
  <2> QED
    BY <2>1, <2>2 DEF EndOfWord
<1>3. ASSUME NEW q
      PROVE  EndOfQuoted(q, from) \in from .. cmdlen
  <2> DEFINE S == Terminators(buf, from) \cup {e \in from .. cmdlen - 1 : buf[e] = q}
  <2>1. S \in SUBSET Nat /\ cmdlen \in S /\ \A e \in S : e >= from
    BY <1>1 DEF Terminators
  <2>2. Min(S) \in S /\ Min(S) <= cmdlen
    BY <2>1, MinIsLeast
  <2> HIDE DEF S
  <2>3. Min(S) \in Nat /\ Min(S) >= from
    BY <2>1, <2>2
  <2>4. Min(S) \in from .. cmdlen
    BY <1>1, <2>2, <2>3
  <2> QED
    BY <2>4 DEF EndOfQuoted, S
<1> QED
  BY <1>2, <1>3

\* A turn of the loop of _make_args.
LEMMA ArgsTurnInv == CmdInv /\ ArgsTurn => CmdInv'
<1> SUFFICES ASSUME CmdInv, ArgsTurn PROVE CmdInv'
  OBVIOUS
<1>1. /\ at = "args" /\ MoreArgs /\ pos < cmdlen
      /\ UNCHANGED <<byte_read, unsent, line, at, cmdlen, last_cmd_ret>>
  BY DEF ArgsTurn, MoreArgs
<1>2. pos \in Nat /\ cmdlen \in 0 .. BufLen - 1 /\ BufLen \in Nat
  BY BufLenAssumption DEF CmdInv, CmdTypeOK
<1>3. CASE pos' = pos + 1 /\ UNCHANGED <<buf, argv>>
  <2>1. pos' \in 0 .. BufLen /\ pos' <= cmdlen + 1
    BY <1>1, <1>2, <1>3
  <2> QED
    BY <1>1, <1>3, <2>1
    DEF CmdInv, CmdTypeOK, IoTypeOK, LineInBuffer, LineEnds, ArgumentsEnd,
        Terminators
<1>4. CASE Token(pos + 1, EndOfQuoted(buf[pos], pos + 1))
  <2>1. pos + 1 \in 0 .. cmdlen
    BY <1>1, <1>2
  <2> QED
    BY <1>1, <1>4, <2>1, TokensEnd, TokenInv
<1>5. CASE Token(pos, EndOfWord(pos + 1))
  <2>1. pos + 1 \in 0 .. cmdlen /\ pos \in 0 .. cmdlen
    BY <1>1, <1>2
  <2>2. EndOfWord(pos + 1) \in pos + 1 .. cmdlen
    BY <1>1, <2>1, TokensEnd
  <2>3. EndOfWord(pos + 1) \in pos .. cmdlen
    BY <1>2, <2>2
  <2> QED
    BY <1>1, <1>5, <2>1, <2>3, TokenInv
<1> QED
  BY <1>3, <1>4, <1>5 DEF ArgsTurn, Scan

\* The arguments are handed to _do_cmds.
LEMMA ArgsDoneInv == CmdInv /\ ArgsDone => CmdInv'
BY BufLenAssumption
DEF ArgsDone, iovars, CmdInv, CmdTypeOK, IoTypeOK, Places, LineInBuffer, LineEnds,
    ArgumentsEnd, Terminators
-----------------------------------------------------------------------------
\* Every step of the command line keeps the invariant.
LEMMA CmdNextInv == CmdInv /\ [CmdNext]_cmdvars => CmdInv'
<1> SUFFICES ASSUME CmdInv, [CmdNext]_cmdvars PROVE CmdInv'
  OBVIOUS
<1>1. CASE Working
  BY <1>1, SendByteInv, GreetedInv, PromptedInv, MakeArgsInv, ArgsTurnInv,
     ArgsDoneInv, SleptInv, CommandInv
  DEF Working
<1>2. CASE Typing
  BY <1>2, ReadingInv DEF Typing
<1>3. CASE UNCHANGED cmdvars
  BY <1>3
  DEF cmdvars, iovars, CmdInv, CmdTypeOK, IoTypeOK, LineInBuffer, LineEnds,
      ArgumentsEnd, Terminators
<1> QED
  BY <1>1, <1>2, <1>3 DEF CmdNext

\* The buffer, the line and the arguments agree in every state, however the
\* characters typed, the bytes printed and the commands follow each other.
THEOREM CmdInvariance == CmdSpec => []CmdInv
BY CmdInitInv, CmdNextInv, PTL DEF CmdSpec

\* The places in the buffer that readline and _make_args write to and the
\* places the arguments start at lie inside it, and _ARGV is never overrun.
THEOREM CmdTypeCorrect == CmdSpec => []CmdTypeOK
<1>1. CmdInv => CmdTypeOK
  BY DEF CmdInv
<1> QED
  BY <1>1, CmdInvariance, PTL

\* The line that readline has stored is the line that was typed.
LEMMA LineIsAsTypedHolds == CmdInv => LineIsAsTyped
<1> SUFFICES ASSUME CmdInv, at = "read", LineRead
             PROVE  /\ Terminators(buf, 0) # {} /\ byte_read = Len(line)
                    /\ CString(buf, 0) = Typed
  BY DEF LineIsAsTyped
<1> DEFINE n == Len(line) - 1
           kept == SubSeq(line, 1, n)
           nuls == {k \in DOMAIN kept : kept[k] = NUL}
           m == StrLen(buf, 0)
<1>1. /\ Len(line) \in 1 .. BufLen /\ byte_read = Len(line) /\ n \in Nat
      /\ n \in Terminators(buf, 0)
      /\ Last(line) = EOL \/ Len(line) = BufLen
  BY LineEndsInBuffer, BufLenAssumption
<1>2. /\ m \in Nat /\ m <= n /\ buf[m] = NUL
      /\ \A k \in 1 .. m : buf[k - 1] # NUL
  <2>1. /\ m \in Nat /\ 0 + m <= n /\ 0 + m \in Terminators(buf, 0)
        /\ \A k \in 1 .. m : buf[0 + k - 1] # NUL
    BY <1>1, StringEnds
  <2>2. 0 + m = m /\ \A k \in 1 .. m : 0 + k - 1 = k - 1
    BY <2>1
  <2> HIDE DEF m
  <2> QED
    BY <2>1, <2>2 DEF Terminators
<1>3. Typed = IF nuls = {} THEN kept ELSE SubSeq(kept, 1, Min(nuls) - 1)
  BY <1>1 DEF Typed, Front
<1>4. /\ kept \in Seq(Chars) /\ Len(kept) = n
      /\ \A k \in 1 .. n : kept[k] = line[k]
  BY <1>1 DEF CmdInv, CmdTypeOK, IoTypeOK
<1>5. \A k \in 1 .. n : buf[k - 1] = kept[k]
  <2> SUFFICES ASSUME NEW k \in 1 .. n PROVE buf[k - 1] = line[k]
    BY <1>4
  <2>1. k \in 1 .. Len(line) /\ k \in 1 .. Len(line) - 1 /\ k # BufLen
    BY <1>1, BufLenAssumption
  <2> QED
    BY <2>1 DEF CmdInv, LineInBuffer
<1>6. CString(buf, 0) = [k \in 1 .. m |-> kept[k]]
  <2>1. CString(buf, 0) = [k \in 1 .. m |-> buf[0 + k - 1]]
    BY DEF CString
  <2>2. \A k \in 1 .. m : buf[0 + k - 1] = kept[k]
    BY <1>1, <1>2, <1>5
  <2> QED
    BY <2>1, <2>2
<1> HIDE DEF n, kept, m
<1>7. CASE nuls = {}
  <2>1. m = n
    <3> SUFFICES ASSUME m < n PROVE FALSE
      BY <1>1, <1>2
    <3>1. m + 1 \in 1 .. n /\ (m + 1) - 1 = m
      BY <1>1, <1>2
    <3>2. kept[m + 1] = NUL
      BY <1>2, <1>5, <3>1
    <3> QED
      BY <1>4, <1>7, <3>1, <3>2
  <2>2. kept = [k \in 1 .. n |-> kept[k]]
    BY <1>4
  <2>3. Typed = kept
    BY <1>3, <1>7
  <2>4. CString(buf, 0) = kept
    BY <1>6, <2>1, <2>2
  <2> QED
    BY <1>1, <2>3, <2>4
<1>8. CASE nuls # {}
  <2>1. nuls \in SUBSET Nat /\ \A k \in nuls : k \in 1 .. n
    BY <1>1, <1>4
  <2>2. Min(nuls) \in nuls /\ \A k \in nuls : Min(nuls) <= k
    BY <1>8, <2>1, MinIsLeast
  <2>3. Min(nuls) \in 1 .. n /\ kept[Min(nuls)] = NUL
    BY <2>1, <2>2
  <2> HIDE DEF nuls
  <2>4. Min(nuls) - 1 = m
    <3>1. ~(Min(nuls) <= m)
      <4> SUFFICES ASSUME Min(nuls) <= m PROVE FALSE
        OBVIOUS
      <4>1. Min(nuls) \in 1 .. m
        BY <1>2, <2>3
      <4>2. buf[Min(nuls) - 1] = NUL
        BY <1>5, <2>3
      <4> QED
        BY <1>2, <4>1, <4>2
    <3>2. m + 1 \in 1 .. n /\ (m + 1) - 1 = m
      BY <1>1, <1>2, <2>3, <3>1
    <3>3. kept[m + 1] = NUL
      BY <1>2, <1>5, <3>2
    <3>4. m + 1 \in nuls
      BY <1>4, <3>2, <3>3 DEF nuls
    <3> QED
      BY <1>2, <2>2, <2>3, <3>1, <3>4
  <2>5. SubSeq(kept, 1, m) = [k \in 1 .. m |-> kept[k]]
    BY <1>1, <1>2, <1>4
  <2>6. Typed = SubSeq(kept, 1, m)
    BY <1>3, <1>8, <2>4
  <2> QED
    BY <1>1, <1>6, <2>5, <2>6
<1> QED
  BY <1>7, <1>8

\* Whatever was in the buffer before, readline returns the line as typed.
THEOREM LinesComeBack == CmdSpec => []LineIsAsTyped
BY CmdInvariance, LineIsAsTypedHolds, PTL

\* Every argument a command is given ends inside the buffer.
THEOREM ArgumentsStayInside ==
  CmdSpec => [](at = "do" =>
                  \A k \in DOMAIN argv : Terminators(buf, argv[k]) # {})
<1>1. CmdInv => (at = "do" => \A k \in DOMAIN argv : Terminators(buf, argv[k]) # {})
  BY DEF CmdInv, ArgumentsEnd
<1> QED
  BY <1>1, CmdInvariance, PTL
-----------------------------------------------------------------------------
(***************************************************************************)
(* Why the prompt comes back: how far from it the task is. Nothing here    *)
(* bounds how long the port, the typist or a sleep takes; that the task    *)
(* does not wait for ever is what the fairness of FairCmdSpec is for.      *)
(***************************************************************************)
Rank ==
  [p \in Places |-> CASE p = "read"                -> 4
                      [] p = "args"                -> 3
                      [] p = "do"                  -> 2
                      [] p \in {"sleep", "banner"} -> 1
                      [] p = "prompt"              -> 0]

\* What a step brings nearer: the prompt, else the end of the line that is
\* cut, else the end of the buffer that is read into, else that of a message.
NearerStep ==
  at # "prompt" =>
    \/ Rank[at'] < Rank[at]
    \/ at' = at /\ pos' > pos
    \/ at' = at /\ pos' = pos /\ byte_read' > byte_read
    \/ at' = at /\ pos' = pos /\ byte_read' = byte_read /\ unsent' < unsent

\* Neither of the two places moves past the end of the buffer.
NearerBounds == pos \in 0 .. BufLen /\ byte_read \in 0 .. BufLen /\ unsent \in Nat

\* The places in order.
LEMMA Ranks ==
  /\ Rank["read"] = 4 /\ Rank["args"] = 3 /\ Rank["do"] = 2
  /\ Rank["sleep"] = 1 /\ Rank["banner"] = 1 /\ Rank["prompt"] = 0
BY DEF Rank, Places

\* The four of them, in this order, make a variant of every step of the task:
\* whatever is typed, it cannot go on for ever without a prompt. In
\* particular each turn of _make_args gets past a character.
THEOREM StepsLeadToThePrompt ==
  CmdSpec => [](NearerBounds) /\ [][NearerStep]_cmdvars
<1>1. CmdInv => NearerBounds
  BY DEF CmdInv, CmdTypeOK, IoTypeOK, NearerBounds
<1>2. ASSUME CmdInv, CmdNext, at # "prompt"
      PROVE  NearerStep
  <2>1. /\ pos \in Nat /\ byte_read \in Nat /\ unsent \in Nat
        /\ cmdlen \in Nat /\ BufLen \in Nat
    BY <1>2, BufLenAssumption DEF CmdInv, CmdTypeOK, IoTypeOK
  <2>2. CASE SendByte
    BY <2>1, <2>2 DEF SendByte, WriteByte, NearerStep
  <2>3. CASE Greeted \/ Slept
    BY <2>3, Ranks DEF Greeted, Slept, NearerStep
  <2>4. CASE MakeArgs
    BY <2>4, Ranks DEF MakeArgs, NearerStep
  <2>5. CASE ArgsTurn
    <3>1. at = "args" /\ at' = at /\ pos < cmdlen
      BY <2>5 DEF ArgsTurn, MoreArgs
    <3>2. pos' > pos
      <4>1. CASE pos' = pos + 1
        BY <2>1, <4>1
      <4>2. CASE Token(pos + 1, EndOfQuoted(buf[pos], pos + 1))
        <5>1. pos + 1 \in 0 .. cmdlen
          BY <2>1, <3>1
        <5>2. EndOfQuoted(buf[pos], pos + 1) \in pos + 1 .. cmdlen
          BY <1>2, <3>1, <5>1, TokensEnd
        <5> QED
          BY <2>1, <4>2, <5>2 DEF Token
      <4>3. CASE Token(pos, EndOfWord(pos + 1))
        <5>1. pos + 1 \in 0 .. cmdlen
          BY <2>1, <3>1
        <5>2. EndOfWord(pos + 1) \in pos + 1 .. cmdlen
          BY <1>2, <3>1, <5>1, TokensEnd
        <5> QED
          BY <2>1, <4>3, <5>2 DEF Token
      <4> QED
        BY <2>5, <4>1, <4>2, <4>3 DEF ArgsTurn, Scan
    <3> QED
      BY <3>1, <3>2 DEF NearerStep
  <2>6. CASE ArgsDone
    BY <2>6, Ranks DEF ArgsDone, NearerStep
  <2>7. CASE NoCommand
    BY <2>7, Ranks DEF NoCommand, NearerStep
  <2>8. ASSUME NEW c \in Commands, DoCommand(c)
        PROVE  NearerStep
    <3>1. at = "do" /\ at' \in {"sleep", "banner", "prompt"}
      BY <2>8 DEF DoCommand
    <3> QED
      BY <3>1, Ranks DEF NearerStep
  <2>9. CASE Typing
    BY <2>1, <2>9 DEF Typing, Reading, ReadByte, NearerStep
  <2>10. CASE Prompted
    BY <1>2, <2>10 DEF Prompted
  <2> QED
    BY <1>2, <2>2, <2>3, <2>4, <2>5, <2>6, <2>7, <2>8, <2>9, <2>10
    DEF CmdNext, Working
<1>3. CmdInv /\ [CmdNext]_cmdvars => [NearerStep]_cmdvars
  BY <1>2 DEF NearerStep
<1>4. CmdSpec => []NearerBounds
  BY <1>1, CmdInvariance, PTL
<1> QED
  BY <1>3, <1>4, CmdInvariance, PTL DEF CmdSpec
-----------------------------------------------------------------------------
(***************************************************************************)
(* The words of a line.                                                    *)
(***************************************************************************)

\* The string at a place ends at a terminator that has none before it.
LEMMA StringIs ==
  ASSUME NEW b, NEW p \in Nat, NEW e \in Nat, p <= e, e < BufLen, b[e] = NUL,
         \A i \in p .. e - 1 : b[i] # NUL
  PROVE  StrLen(b, p) = e - p
<1>1. e \in Terminators(b, p)
  BY BufLenAssumption DEF Terminators
<1>2. /\ StrLen(b, p) \in Nat /\ p + StrLen(b, p) <= e
      /\ b[p + StrLen(b, p)] = NUL
  BY <1>1, StringEnds DEF Terminators
<1>3. ~(p + StrLen(b, p) <= e - 1)
  BY <1>2
<1> QED
  BY <1>2, <1>3

\* A string is the same in a buffer that is the same up to its terminator.
LEMMA StringKept ==
  ASSUME NEW b, NEW c, NEW p \in Nat, Terminators(b, p) # {},
         \A i \in p .. p + StrLen(b, p) : c[i] = b[i]
  PROVE  CString(c, p) = CString(b, p)
<1> DEFINE n == StrLen(b, p)
<1>1. /\ n \in Nat /\ p + n < BufLen /\ b[p + n] = NUL
      /\ \A k \in 1 .. n : b[p + k - 1] # NUL
  <2>1. PICK e \in Terminators(b, p) : TRUE
    OBVIOUS
  <2> QED
    BY <2>1, StringEnds, BufLenAssumption DEF Terminators
<1> HIDE DEF n
<1>2. \A i \in p .. p + n : c[i] = b[i]
  BY DEF n
<1>3. c[p + n] = NUL /\ \A i \in p .. (p + n) - 1 : c[i] # NUL
  <2>1. \A i \in p .. (p + n) - 1 : i - p + 1 \in 1 .. n /\ p + (i - p + 1) - 1 = i
    BY <1>1
  <2> QED
    BY <1>1, <1>2, <2>1
<1>4. StrLen(c, p) = n
  BY <1>1, <1>3, StringIs
<1>5. \A k \in 1 .. n : c[p + k - 1] = b[p + k - 1]
  BY <1>1, <1>2
<1> QED
  BY <1>4, <1>5 DEF CString, n

\* Where a word without quotes around it ends.
LEMMA WordEnds ==
  ASSUME CmdInv, at = "args", NEW from \in 0 .. cmdlen
  PROVE  /\ EndOfWord(from) \in from .. cmdlen
         /\ \A e \in from .. EndOfWord(from) - 1 : buf[e] \notin Blanks
         /\ EndOfWord(from) < cmdlen => buf[EndOfWord(from)] \in Blanks
<1> DEFINE S == {cmdlen} \cup {e \in from .. cmdlen - 1 : buf[e] \in Blanks}
           m == Min(S)
<1>1. cmdlen \in Nat
  BY BufLenAssumption DEF CmdInv, CmdTypeOK
<1>2. S \in SUBSET Nat /\ cmdlen \in S
  BY <1>1
<1>3. m \in S /\ \A y \in S : m <= y
  BY <1>2, MinIsLeast
<1> HIDE DEF m
<1>4. m \in from .. cmdlen /\ (m < cmdlen => buf[m] \in Blanks)
  BY <1>1, <1>3
<1>5. \A e \in from .. m - 1 : buf[e] \notin Blanks
  BY <1>1, <1>3, <1>4
<1> QED
  BY <1>4, <1>5 DEF EndOfWord, m

\* Where a word in quotes ends.
LEMMA QuotedWordEnds ==
  ASSUME CmdInv, at = "args", NEW from \in 0 .. cmdlen, NEW q,
         \A p \in from .. cmdlen - 1 : buf[p] # NUL
  PROVE  /\ EndOfQuoted(q, from) \in from .. cmdlen
         /\ \A e \in from .. EndOfQuoted(q, from) - 1 : buf[e] # q
         /\ EndOfQuoted(q, from) < cmdlen => buf[EndOfQuoted(q, from)] = q
<1> DEFINE S == Terminators(buf, from) \cup {e \in from .. cmdlen - 1 : buf[e] = q}
           m == Min(S)
<1>1. cmdlen \in 0 .. BufLen - 1 /\ BufLen \in Nat
  BY BufLenAssumption DEF CmdInv, CmdTypeOK
<1>2. S \in SUBSET Nat /\ S # {}
  <2>1. EndOfQuoted(q, from) \in from .. cmdlen
    BY TokensEnd
  <2>2. cmdlen \in Terminators(buf, from)
    BY <1>1 DEF CmdInv, LineEnds, Terminators
  <2> QED
    BY <1>1, <2>2 DEF Terminators
<1>3. m \in S /\ \A y \in S : m <= y
  BY <1>2, MinIsLeast
<1>4. m \in from .. cmdlen
  BY TokensEnd DEF EndOfQuoted
<1>5. \A e \in from .. cmdlen - 1 : buf[e] = q => e \in S
  OBVIOUS
<1>6. m < cmdlen => buf[m] = q
  <2> SUFFICES ASSUME m < cmdlen PROVE buf[m] = q
    OBVIOUS
  <2>1. m \in from .. cmdlen - 1
    BY <1>1, <1>4
  <2>2. m \notin Terminators(buf, from)
    BY <2>1 DEF Terminators
  <2> QED
    BY <1>3, <2>2
<1> HIDE DEF m, S
<1>7. \A e \in from .. m - 1 : buf[e] # q
  <2> SUFFICES ASSUME NEW e \in from .. m - 1, buf[e] = q PROVE FALSE
    OBVIOUS
  <2>1. e \in from .. cmdlen - 1 /\ ~(m <= e)
    BY <1>1, <1>4
  <2> QED
    BY <1>3, <1>5, <2>1
<1> QED
  BY <1>4, <1>6, <1>7 DEF EndOfQuoted, m, S

\* The line and the arguments are the same where nothing they depend on changes.
LEMMA SameArgs ==
  ASSUME UNCHANGED <<line, buf, argv>>
  PROVE  Typed' = Typed /\ Args' = Args
BY DEF Typed, Args, CString, StrLen, Terminators

\* A word that has been cut ends at the terminator put behind it.
LEMMA WordTypes ==
  ASSUME CmdInv, at \in {"args", "do"}, NEW k \in 1 .. Len(argv)
  PROVE  /\ argv[k] \in 0 .. BufLen - 1 /\ Terminators(buf, argv[k]) # {}
         /\ StrLen(buf, argv[k]) \in Nat
         /\ Args[k] = CString(buf, argv[k]) /\ Args[k] \in Seq(Chars)
         /\ Len(Args[k]) = StrLen(buf, argv[k])
         /\ Behind(argv, Args, k) = argv[k] + StrLen(buf, argv[k]) + 1
<1> DEFINE p == argv[k]
           n == StrLen(buf, p)
<1>1. argv \in Seq(0 .. BufLen - 1) /\ buf \in Buffers /\ BufLen \in Nat
  BY BufLenAssumption DEF CmdInv, CmdTypeOK, IoTypeOK
<1>2. k \in DOMAIN argv /\ p \in 0 .. BufLen - 1
  BY <1>1
<1>3. Terminators(buf, p) # {}
  BY <1>2 DEF CmdInv, ArgumentsEnd
<1>4. n \in Nat /\ p + n < BufLen
  <2>1. PICK e \in Terminators(buf, p) : TRUE
    BY <1>3
  <2>2. p \in Nat
    BY <1>1, <1>2
  <2> QED
    BY <1>1, <1>2, <2>1, <2>2, StringEnds DEF Terminators
<1>5. Args[k] = [i \in 1 .. n |-> buf[p + i - 1]] /\ Args[k] = CString(buf, p)
  BY <1>2 DEF Args, CString
<1> HIDE DEF p, n
<1>6. \A i \in 1 .. n : buf[p + i - 1] \in Chars
  <2>1. \A i \in 1 .. n : p + i - 1 \in 0 .. BufLen - 1
    BY <1>1, <1>2, <1>4
  <2> QED
    BY <1>1, <2>1 DEF Buffers
<1>7. Args[k] \in Seq(Chars) /\ Len(Args[k]) = n
  BY <1>4, <1>5, <1>6
<1>8. k # 0
  BY <1>1
<1>9. Behind(argv, Args, k) = p + n + 1
  BY <1>7, <1>8 DEF Behind, p
<1> QED
  BY <1>2, <1>3, <1>4, <1>5, <1>7, <1>9 DEF p, n

\* So what comes behind it is a place.
LEMMA BehindIsPlace ==
  ASSUME CmdInv, at \in {"args", "do"}, NEW k \in 0 .. Len(argv)
  PROVE  Behind(argv, Args, k) \in Nat
<1>1. CASE k = 0
  BY <1>1 DEF Behind
<1>2. CASE k # 0
  <2>1. k \in 1 .. Len(argv)
    BY <1>2
  <2>2. /\ argv[k] \in 0 .. BufLen - 1 /\ StrLen(buf, argv[k]) \in Nat
        /\ Behind(argv, Args, k) = argv[k] + StrLen(buf, argv[k]) + 1
    BY <2>1, WordTypes
  <2> HIDE DEF Behind
  <2>3. argv[k] \in Nat
    BY <2>2
  <2> QED
    BY <2>2, <2>3
<1> QED
  BY <1>1, <1>2

\* A word that has been cut is not touched again, and the next one follows it.
LEMMA TokenCuts ==
  ASSUME ArgsInv, at = "args", MoreArgs, NEW start \in pos .. cmdlen,
         NEW end \in start .. cmdlen, Token(start, end),
         UNCHANGED <<byte_read, unsent, line, at, cmdlen, last_cmd_ret>>,
         IsWord(Typed, Behind(argv, Args, Len(argv)), start,
                [i \in 1 .. end - start |-> Typed[start + i]])
  PROVE  LineIsCut'
<1> DEFINE n == Len(argv)
           w == [i \in 1 .. end - start |-> Typed[start + i]]
<1>1. /\ buf' = [buf EXCEPT ![end] = NUL] /\ argv' = Append(argv, start)
      /\ pos' = end + 1 /\ cmdlen' = cmdlen /\ line' = line
  BY DEF Token
<1>2. /\ buf \in Buffers /\ argv \in Seq(0 .. BufLen - 1) /\ n \in Nat
      /\ cmdlen \in 0 .. BufLen - 1 /\ pos \in Nat /\ BufLen \in Nat
      /\ start \in Nat /\ end \in Nat /\ pos <= start /\ start <= end
      /\ end <= cmdlen
  BY BufLenAssumption DEF ArgsInv, CmdInv, CmdTypeOK, IoTypeOK
<1>3. RestAsTyped /\ WordsSoFar
  BY DEF ArgsInv, LineIsCut
<1>4. Typed' = Typed
  BY <1>1 DEF Typed
<1>5. /\ buf'[end] = NUL
      /\ \A p \in 0 .. BufLen - 1 : p # end => buf'[p] = buf[p]
  BY <1>1, <1>2 DEF Buffers
<1>6. /\ Len(argv') = n + 1 /\ argv'[n + 1] = start
      /\ \A k \in 1 .. n : argv'[k] = argv[k]
      /\ DOMAIN argv' = 1 .. n + 1
  BY <1>1, <1>2
<1>7. RestAsTyped'
  <2>1. ASSUME NEW p \in pos' .. cmdlen - 1
        PROVE  buf'[p] = Typed[p + 1]
    <3>1. p \in pos .. cmdlen - 1 /\ p \in 0 .. BufLen - 1 /\ p # end
      BY <1>1, <1>2
    <3> QED
      BY <1>3, <1>5, <3>1 DEF RestAsTyped
  <2> QED
    BY <1>1, <1>3, <1>4, <2>1 DEF RestAsTyped
<1>8. ASSUME NEW k \in 1 .. n
      PROVE  /\ Args'[k] = Args[k] /\ argv'[k] = argv[k]
             /\ Behind(argv', Args', k) = Behind(argv, Args, k)
  <2>1. argv[k] \in 0 .. BufLen - 1 /\ Terminators(buf, argv[k]) # {}
    BY WordTypes DEF ArgsInv
  <2>2. StrLen(buf, argv[k]) \in Nat
    BY WordTypes DEF ArgsInv
  <2>3. Args[k] = CString(buf, argv[k]) /\ Len(Args[k]) = StrLen(buf, argv[k])
    BY WordTypes DEF ArgsInv
  <2>4. argv[k] + StrLen(buf, argv[k]) < pos
    <3>1. Behind(argv, Args, k) = argv[k] + StrLen(buf, argv[k]) + 1
      BY WordTypes DEF ArgsInv
    <3>2. Behind(argv, Args, k) <= pos
      BY <1>2, <1>3 DEF WordsSoFar
    <3> QED
      BY <1>2, <2>1, <2>2, <3>1, <3>2
  <2>5. \A i \in argv[k] .. argv[k] + StrLen(buf, argv[k]) : buf'[i] = buf[i]
    <3>1. \A i \in argv[k] .. argv[k] + StrLen(buf, argv[k]) :
            i \in 0 .. BufLen - 1 /\ i # end
      BY <1>2, <2>1, <2>2, <2>4
    <3> QED
      BY <1>5, <3>1
  <2>6. CString(buf', argv[k]) = CString(buf, argv[k])
    BY <2>1, <2>5, StringKept
  <2>7. Args'[k] = CString(buf', argv'[k])
    BY <1>2, <1>6 DEF Args
  <2>8. Args'[k] = Args[k] /\ argv'[k] = argv[k]
    BY <1>6, <2>3, <2>6, <2>7
  <2> QED
    BY <2>8 DEF Behind
<1>9. Args'[n + 1] = w /\ Len(w) = end - start
  <2>1. \A i \in start .. end - 1 : buf'[i] = Typed[i + 1] /\ buf'[i] # NUL
    <3>1. ASSUME NEW i \in start .. end - 1
          PROVE  buf'[i] = Typed[i + 1] /\ buf'[i] # NUL
      <4>1. /\ i \in pos .. cmdlen - 1 /\ i \in 0 .. cmdlen - 1
            /\ i \in 0 .. BufLen - 1 /\ i # end
        BY <1>2
      <4>2. buf'[i] = buf[i] /\ buf[i] = Typed[i + 1] /\ Typed[i + 1] # NUL
        BY <1>3, <1>5, <4>1 DEF RestAsTyped
      <4> QED
        BY <4>2
    <3> QED
      BY <3>1
  <2>2. end < BufLen
    BY <1>2
  <2>3. StrLen(buf', start) = end - start
    BY <1>2, <1>5, <2>1, <2>2, StringIs
  <2>4. CString(buf', start) = [i \in 1 .. end - start |-> buf'[start + i - 1]]
    BY <2>3 DEF CString
  <2>5. \A i \in 1 .. end - start : buf'[start + i - 1] = Typed[start + i]
    <3>1. \A i \in 1 .. end - start :
            start + i - 1 \in start .. end - 1 /\ (start + i - 1) + 1 = start + i
      BY <1>2
    <3>2. ASSUME NEW i \in 1 .. end - start
          PROVE  buf'[start + i - 1] = Typed[start + i]
      BY <2>1, <3>1
    <3> QED
      BY <3>2
  <2>6. CString(buf', start) = w
    BY <2>4, <2>5
  <2>7. Args'[n + 1] = CString(buf', start)
    BY <1>2, <1>6 DEF Args
  <2> QED
    BY <1>2, <2>6, <2>7
<1> HIDE DEF w
<1>10. /\ Behind(argv', Args', 0) = 0
       /\ \A k \in 0 .. n : Behind(argv', Args', k) = Behind(argv, Args, k)
       /\ Behind(argv', Args', n + 1) = end + 1
  <2>1. Behind(argv', Args', 0) = 0 /\ Behind(argv, Args, 0) = 0
    BY DEF Behind
  <2>2. ASSUME NEW k \in 0 .. n
        PROVE  Behind(argv', Args', k) = Behind(argv, Args, k)
    BY <1>2, <1>8, <2>1
  <2>3. Behind(argv', Args', n + 1) = end + 1
    BY <1>2, <1>6, <1>9 DEF Behind
  <2> QED
    BY <2>1, <2>2, <2>3
<1>11. AreWords(Typed, argv', Args')
  <2> SUFFICES ASSUME NEW k \in 1 .. n + 1
               PROVE  IsWord(Typed, Behind(argv', Args', k - 1), argv'[k], Args'[k])
    BY <1>6 DEF AreWords
  <2>1. CASE k = n + 1
    <3>1. k - 1 = n /\ n \in 0 .. n
      BY <1>2, <2>1
    <3> QED
      BY <1>6, <1>9, <1>10, <2>1, <3>1 DEF w
  <2>2. CASE k # n + 1
    <3>1. k \in 1 .. n /\ k - 1 \in 0 .. n /\ k \in DOMAIN argv
      BY <1>2, <2>2
    <3>2. IsWord(Typed, Behind(argv, Args, k - 1), argv[k], Args[k])
      BY <1>3, <3>1 DEF WordsSoFar, AreWords
    <3> QED
      BY <1>8, <1>10, <3>1, <3>2
  <2> QED
    BY <2>1, <2>2
<1>12. WordsSoFar'
  <2>1. \A k \in 0 .. n + 1 : Behind(argv', Args', k) <= pos'
    <3> SUFFICES ASSUME NEW k \in 0 .. n + 1
                 PROVE  Behind(argv', Args', k) <= end + 1
      BY <1>1
    <3>1. CASE k = n + 1
      BY <1>2, <1>10, <3>1
    <3>2. CASE k # n + 1
      <4>1. k \in 0 .. n
        BY <1>2, <3>2
      <4>2. Behind(argv, Args, k) <= pos
        BY <1>3, <4>1 DEF WordsSoFar
      <4>3. Behind(argv, Args, k) \in Int
        BY <4>1, BehindIsPlace DEF ArgsInv
      <4> QED
        BY <1>2, <1>10, <4>1, <4>2, <4>3
    <3> QED
      BY <3>1, <3>2
  <2>2. BlankBetween(Typed, Behind(argv', Args', Len(argv')),
                     IF pos' < cmdlen' THEN pos' ELSE cmdlen')
    <3>1. Behind(argv', Args', Len(argv')) = end + 1
      BY <1>6, <1>10
    <3>2. (IF pos' < cmdlen' THEN pos' ELSE cmdlen') <= end + 1
      BY <1>1, <1>2
    <3>3. \A p \in end + 1 .. (IF pos' < cmdlen' THEN pos' ELSE cmdlen') - 1 : FALSE
      BY <1>1, <1>2, <3>2
    <3> QED
      BY <3>1, <3>3 DEF BlankBetween
  <2> QED
    BY <1>4, <1>6, <1>11, <2>1, <2>2 DEF WordsSoFar
<1> QED
  BY <1>7, <1>12 DEF LineIsCut

\* The characters from pos on are those typed, none of them a terminator.
LEMMA RestOfLine ==
  ASSUME ArgsInv, at = "args", MoreArgs
  PROVE  /\ pos \in 0 .. cmdlen - 1 /\ cmdlen \in 0 .. BufLen - 1
         /\ cmdlen = Len(Typed)
         /\ \A p \in pos .. cmdlen - 1 : buf[p] = Typed[p + 1] /\ buf[p] # NUL
         /\ AreWords(Typed, argv, Args)
         /\ \A k \in 0 .. Len(argv) : Behind(argv, Args, k) <= pos
         /\ Behind(argv, Args, Len(argv)) <= pos
         /\ Behind(argv, Args, Len(argv)) \in Nat
         /\ BlankBetween(Typed, Behind(argv, Args, Len(argv)), pos)
<1>1. /\ pos \in Nat /\ pos < cmdlen /\ cmdlen \in 0 .. BufLen - 1
      /\ argv \in Seq(0 .. BufLen - 1) /\ BufLen \in Nat
  BY BufLenAssumption DEF MoreArgs, ArgsInv, CmdInv, CmdTypeOK
<1>2. RestAsTyped /\ WordsSoFar
  BY DEF ArgsInv, LineIsCut
<1>3. \A p \in pos .. cmdlen - 1 : buf[p] = Typed[p + 1] /\ buf[p] # NUL
  <2>1. \A p \in pos .. cmdlen - 1 : p \in 0 .. cmdlen - 1
    BY <1>1
  <2> QED
    BY <1>2, <2>1 DEF RestAsTyped
<1>4. /\ Behind(argv, Args, Len(argv)) <= pos
      /\ BlankBetween(Typed, Behind(argv, Args, Len(argv)), pos)
  BY <1>1, <1>2 DEF WordsSoFar
<1>5. Behind(argv, Args, Len(argv)) \in Nat
  <2>1. Len(argv) \in 0 .. Len(argv)
    BY <1>1
  <2> QED
    BY <2>1, BehindIsPlace DEF ArgsInv
<1> QED
  BY <1>1, <1>2, <1>3, <1>4, <1>5 DEF RestAsTyped, WordsSoFar

\* A blank is passed over.
LEMMA BlankTurn ==
  ASSUME ArgsInv, at = "args", MoreArgs, buf[pos] \in Blanks, pos' = pos + 1,
         UNCHANGED <<buf, argv, line, cmdlen>>
  PROVE  LineIsCut'
<1> DEFINE b == Behind(argv, Args, Len(argv))
<1>1. /\ pos \in 0 .. cmdlen - 1 /\ cmdlen \in Nat /\ cmdlen = Len(Typed)
      /\ \A p \in pos .. cmdlen - 1 : buf[p] = Typed[p + 1]
      /\ AreWords(Typed, argv, Args)
      /\ \A k \in 0 .. Len(argv) : Behind(argv, Args, k) <= pos
      /\ b <= pos /\ b \in Nat /\ BlankBetween(Typed, b, pos)
  BY RestOfLine
<1>2. Typed' = Typed /\ Args' = Args
  BY SameArgs
<1> HIDE DEF b
<1>3. RestAsTyped'
  <2>1. \A p \in pos + 1 .. cmdlen - 1 : p \in pos .. cmdlen - 1
    BY <1>1
  <2>2. RestAsTyped
    BY DEF ArgsInv, LineIsCut
  <2> QED
    BY <1>2, <2>1, <2>2 DEF RestAsTyped
<1>4. BlankBetween(Typed, b, pos + 1)
  <2> SUFFICES ASSUME NEW p \in b .. (pos + 1) - 1 PROVE Typed[p + 1] \in Blanks
    BY DEF BlankBetween
  <2>1. CASE p = pos
    <3>1. pos \in pos .. cmdlen - 1
      BY <1>1
    <3> QED
      BY <1>1, <2>1, <3>1
  <2>2. CASE p # pos
    <3>1. p \in b .. pos - 1
      BY <1>1, <2>2
    <3> QED
      BY <1>1, <3>1 DEF BlankBetween
  <2> QED
    BY <2>1, <2>2
<1>5. (IF pos + 1 < cmdlen THEN pos + 1 ELSE cmdlen) = pos + 1
  BY <1>1
<1>6. \A k \in 0 .. Len(argv) : Behind(argv, Args, k) <= pos + 1
  <2> SUFFICES ASSUME NEW k \in 0 .. Len(argv)
               PROVE  Behind(argv, Args, k) <= pos + 1
    OBVIOUS
  <2>1. Behind(argv, Args, k) <= pos /\ Behind(argv, Args, k) \in Nat
    BY <1>1, BehindIsPlace DEF ArgsInv
  <2> QED
    BY <1>1, <2>1
<1>7. WordsSoFar'
  BY <1>1, <1>2, <1>4, <1>5, <1>6 DEF WordsSoFar, b
<1> QED
  BY <1>3, <1>7 DEF LineIsCut

\* A word without quotes around it is one of the words that were typed.
LEMMA PlainTurn ==
  ASSUME ArgsInv, at = "args", MoreArgs, buf[pos] \notin Blanks \cup Quotes,
         Token(pos, EndOfWord(pos + 1)),
         UNCHANGED <<byte_read, unsent, line, at, cmdlen, last_cmd_ret>>
  PROVE  LineIsCut'
<1> DEFINE b == Behind(argv, Args, Len(argv))
           end == EndOfWord(pos + 1)
           w == [i \in 1 .. end - pos |-> Typed[pos + i]]
<1>1. /\ pos \in 0 .. cmdlen - 1 /\ cmdlen \in Nat /\ cmdlen = Len(Typed)
      /\ \A p \in pos .. cmdlen - 1 : buf[p] = Typed[p + 1]
      /\ b <= pos /\ b \in Nat /\ BlankBetween(Typed, b, pos)
  BY RestOfLine
<1>2. pos + 1 \in 0 .. cmdlen /\ CmdInv
  BY <1>1 DEF ArgsInv
<1>3. /\ end \in pos + 1 .. cmdlen
      /\ \A e \in pos + 1 .. end - 1 : buf[e] \notin Blanks
      /\ end < cmdlen => buf[end] \in Blanks
  BY <1>2, WordEnds
<1> HIDE DEF b, end, w
<1>4. /\ end \in Nat /\ pos \in Nat /\ pos < end /\ end <= cmdlen
      /\ end \in pos .. cmdlen /\ pos \in pos .. cmdlen
  BY <1>1, <1>3
<1>5. /\ DOMAIN w = 1 .. end - pos /\ Len(w) = end - pos /\ w # <<>>
      /\ \A i \in 1 .. end - pos : w[i] = Typed[pos + i]
  <2>1. DOMAIN w = 1 .. end - pos /\ \A i \in 1 .. end - pos : w[i] = Typed[pos + i]
    BY DEF w
  <2>2. end - pos \in Nat /\ 1 \in 1 .. end - pos
    BY <1>4
  <2>3. Len(w) = end - pos
    BY <2>2 DEF w
  <2> QED
    BY <2>1, <2>2, <2>3
<1>6. \A i \in 1 .. end - pos : w[i] = buf[pos + i - 1]
  <2>1. \A i \in 1 .. end - pos :
          pos + i - 1 \in pos .. cmdlen - 1 /\ (pos + i - 1) + 1 = pos + i
    BY <1>1, <1>4
  <2>2. ASSUME NEW i \in 1 .. end - pos
        PROVE  w[i] = buf[pos + i - 1]
    <3>1. buf[pos + i - 1] = Typed[(pos + i - 1) + 1]
      BY <1>1, <2>1
    <3> QED
      BY <1>5, <2>1, <3>1
  <2> QED
    BY <2>2
<1>7. \A i \in 1 .. end - pos : w[i] \notin Blanks
  <2> SUFFICES ASSUME NEW i \in 1 .. end - pos
               PROVE  buf[pos + i - 1] \notin Blanks
    BY <1>6
  <2>1. CASE i = 1
    BY <1>4, <2>1
  <2>2. CASE i # 1
    <3>1. pos + i - 1 \in pos + 1 .. end - 1
      BY <1>4, <2>2
    <3> QED
      BY <1>3, <3>1
  <2> QED
    BY <2>1, <2>2
<1>8. w[1] \notin Quotes
  <2>1. 1 \in 1 .. end - pos /\ pos + 1 - 1 = pos
    BY <1>4
  <2> QED
    BY <1>6, <2>1
<1>9. pos + Len(w) = end
  BY <1>4, <1>5
<1>10. end < Len(Typed) => Typed[end + 1] \in Blanks
  <2> SUFFICES ASSUME end < cmdlen PROVE Typed[end + 1] \in Blanks
    BY <1>1
  <2>1. end \in pos .. cmdlen - 1
    BY <1>1, <1>4
  <2> QED
    BY <1>1, <1>3, <2>1
<1>11. PlainWord(Typed, b, pos, w)
  BY <1>1, <1>5, <1>7, <1>8, <1>9, <1>10 DEF PlainWord
<1>12. IsWord(Typed, b, pos, w)
  BY <1>1, <1>4, <1>5, <1>9, <1>11 DEF IsWord
<1> QED
  BY <1>4, <1>12, TokenCuts DEF b, end, w

\* So is a word in quotes.
LEMMA QuotedTurn ==
  ASSUME ArgsInv, at = "args", MoreArgs, buf[pos] \in Quotes,
         Token(pos + 1, EndOfQuoted(buf[pos], pos + 1)),
         UNCHANGED <<byte_read, unsent, line, at, cmdlen, last_cmd_ret>>
  PROVE  LineIsCut'
<1> DEFINE b == Behind(argv, Args, Len(argv))
           start == pos + 1
           end == EndOfQuoted(buf[pos], start)
           w == [i \in 1 .. end - start |-> Typed[start + i]]
<1>1. /\ pos \in 0 .. cmdlen - 1 /\ cmdlen \in Nat /\ cmdlen = Len(Typed)
      /\ \A p \in pos .. cmdlen - 1 : buf[p] = Typed[p + 1] /\ buf[p] # NUL
      /\ b <= pos /\ b \in Nat /\ BlankBetween(Typed, b, pos)
  BY RestOfLine
<1>2. /\ start \in 0 .. cmdlen /\ start \in pos .. cmdlen /\ CmdInv
      /\ \A p \in start .. cmdlen - 1 : buf[p] # NUL
  BY <1>1 DEF ArgsInv
<1>3. /\ end \in start .. cmdlen
      /\ \A e \in start .. end - 1 : buf[e] # buf[pos]
      /\ end < cmdlen => buf[end] = buf[pos]
  BY <1>2, QuotedWordEnds
<1>4. start = pos + 1 /\ start - 1 = pos
  BY <1>1
<1> HIDE DEF b, start, end, w
<1>5. end \in Nat /\ start \in Nat /\ start <= end /\ end <= cmdlen /\ b < start
  BY <1>1, <1>2, <1>3, <1>4
<1>6. Typed[start] = buf[pos] /\ Typed[start] \in Quotes
  BY <1>1, <1>4
<1>7. /\ DOMAIN w = 1 .. end - start /\ Len(w) = end - start
      /\ \A i \in 1 .. end - start : w[i] = Typed[start + i]
  <2>1. end - start \in Nat
    BY <1>5
  <2> QED
    BY <2>1 DEF w
<1>8. \A i \in 1 .. end - start : w[i] # Typed[start]
  <2> SUFFICES ASSUME NEW i \in 1 .. end - start
               PROVE  Typed[start + i] # buf[pos]
    BY <1>6, <1>7
  <2>1. /\ start + i - 1 \in start .. end - 1 /\ start + i - 1 \in pos .. cmdlen - 1
        /\ (start + i - 1) + 1 = start + i
    BY <1>1, <1>4, <1>5
  <2>2. buf[start + i - 1] = Typed[(start + i - 1) + 1]
    BY <1>1, <2>1
  <2> QED
    BY <1>3, <2>1, <2>2
<1>9. start + Len(w) = end
  BY <1>5, <1>7
<1>10. end < Len(Typed) => Typed[end + 1] = Typed[start]
  <2> SUFFICES ASSUME end < cmdlen PROVE Typed[end + 1] = buf[pos]
    BY <1>1, <1>6
  <2>1. end \in pos .. cmdlen - 1
    BY <1>1, <1>4, <1>5
  <2> QED
    BY <1>1, <1>3, <2>1
<1>11. QuotedWord(Typed, b, start, w)
  BY <1>1, <1>4, <1>5, <1>6, <1>7, <1>8, <1>9, <1>10 DEF QuotedWord
<1>12. IsWord(Typed, b, start, w)
  BY <1>1, <1>5, <1>7, <1>9, <1>11 DEF IsWord
<1> QED
  BY <1>2, <1>3, <1>12, TokenCuts DEF b, start, end, w
-----------------------------------------------------------------------------
(***************************************************************************)
(* The arguments of a command.                                             *)
(***************************************************************************)

\* A turn of the loop cuts off a word or passes over a blank.
LEMMA ArgsTurnCuts == ArgsInv /\ ArgsTurn => LineIsCut'
<1> SUFFICES ASSUME ArgsInv, ArgsTurn PROVE LineIsCut'
  OBVIOUS
<1>1. /\ at = "args" /\ MoreArgs /\ Scan
      /\ UNCHANGED <<byte_read, unsent, line, at, cmdlen, last_cmd_ret>>
  BY DEF ArgsTurn
<1>2. CASE buf[pos] \in Blanks
  <2>1. buf[pos] \notin Quotes
    BY <1>2, BlanksAssumption
  <2>2. pos' = pos + 1 /\ UNCHANGED <<buf, argv>>
    BY <1>1, <1>2, <2>1 DEF Scan
  <2> QED
    BY <1>1, <1>2, <2>2, BlankTurn
<1>3. CASE buf[pos] \in Quotes
  <2>1. buf[pos] \notin Blanks
    BY <1>3, BlanksAssumption
  <2>2. Token(pos + 1, EndOfQuoted(buf[pos], pos + 1))
    BY <1>1, <1>3, <2>1 DEF Scan
  <2> QED
    BY <1>1, <1>3, <2>2, QuotedTurn
<1>4. CASE buf[pos] \notin Blanks \cup Quotes
  <2>1. Token(pos, EndOfWord(pos + 1))
    BY <1>1, <1>4 DEF Scan
  <2> QED
    BY <1>1, <1>4, <2>1, PlainTurn
<1> QED
  BY <1>2, <1>3, <1>4

\* Before the first turn the whole line is as it was typed.
LEMMA MakeArgsCuts == ArgsInv /\ MakeArgs => LineIsCut'
<1> SUFFICES ASSUME ArgsInv, MakeArgs PROVE LineIsCut'
  OBVIOUS
<1> DEFINE m == StrLen(buf, 0)
<1>1. /\ at = "read" /\ LineRead /\ pos' = 0 /\ cmdlen' = m /\ argv' = <<>>
      /\ buf' = buf /\ line' = line /\ CmdInv
  BY DEF MakeArgs, ArgsInv
<1>2. Typed = [k \in 1 .. m |-> buf[0 + k - 1]]
  BY <1>1, LineIsAsTypedHolds DEF LineIsAsTyped, CString
<1>3. m \in Nat /\ \A k \in 1 .. m : buf[0 + k - 1] # NUL
  BY <1>1, LineEndsInBuffer, StringEnds
<1>4. Typed' = Typed
  BY <1>1 DEF Typed
<1> HIDE DEF m
<1>5. m = Len(Typed) /\ \A k \in 1 .. m : Typed[k] = buf[k - 1] /\ Typed[k] # NUL
  <2>1. \A k \in 1 .. m : 0 + k - 1 = k - 1
    BY <1>3
  <2> QED
    BY <1>2, <1>3, <2>1
<1>6. \A p \in 0 .. m - 1 : Typed[p + 1] # NUL /\ buf[p] = Typed[p + 1]
  <2>1. \A p \in 0 .. m - 1 : p + 1 \in 1 .. m /\ (p + 1) - 1 = p
    BY <1>3
  <2>2. ASSUME NEW p \in 0 .. m - 1
        PROVE  Typed[p + 1] # NUL /\ buf[p] = Typed[p + 1]
    <3>1. Typed[p + 1] = buf[(p + 1) - 1] /\ Typed[p + 1] # NUL
      BY <1>5, <2>1
    <3> QED
      BY <2>1, <3>1
  <2> QED
    BY <2>2
<1>7. RestAsTyped'
  BY <1>1, <1>4, <1>5, <1>6 DEF RestAsTyped
<1>8. Len(argv') = 0 /\ DOMAIN argv' = {} /\ Behind(argv', Args', 0) = 0
  BY <1>1 DEF Behind
<1>9. WordsSoFar'
  <2>1. AreWords(Typed', argv', Args')
    BY <1>8 DEF AreWords
  <2>2. \A k \in 0 .. Len(argv') : Behind(argv', Args', k) <= pos'
    BY <1>1, <1>8
  <2>3. (IF pos' < cmdlen' THEN pos' ELSE cmdlen') = 0
    BY <1>1, <1>3
  <2>4. BlankBetween(Typed', Behind(argv', Args', Len(argv')),
                     IF pos' < cmdlen' THEN pos' ELSE cmdlen')
    BY <1>8, <2>3 DEF BlankBetween
  <2> QED
    BY <2>1, <2>2, <2>4 DEF WordsSoFar
<1> QED
  BY <1>7, <1>9 DEF LineIsCut

\* When the loop ends the words so far are all of them, or as many as fit.
LEMMA ArgsDoneCuts == ArgsInv /\ ArgsDone => ArgsAsTyped'
<1> SUFFICES ASSUME ArgsInv, ArgsDone PROVE ArgsAsTyped'
  OBVIOUS
<1>1. /\ at = "args" /\ ~MoreArgs /\ UNCHANGED <<line, buf, argv>> /\ CmdInv
      /\ RestAsTyped /\ WordsSoFar
  BY DEF ArgsDone, iovars, ArgsInv, LineIsCut
<1>2. /\ pos \in Nat /\ cmdlen \in Nat /\ argv \in Seq(0 .. BufLen - 1)
      /\ Len(argv) <= MaxParaCnt /\ Len(argv) \in Nat /\ MaxParaCnt \in Nat
  BY <1>1, BufLenAssumption, ParaAssumption DEF CmdInv, CmdTypeOK
<1>3. Typed' = Typed /\ Args' = Args
  BY <1>1, SameArgs
<1>4. Len(argv) = MaxParaCnt
        \/ BlankBetween(Typed, Behind(argv, Args, Len(argv)), Len(Typed))
  <2>1. CASE ~(pos < cmdlen)
    BY <1>1, <2>1 DEF RestAsTyped, WordsSoFar
  <2>2. CASE pos < cmdlen
    <3>1. pos \in pos .. cmdlen - 1 /\ pos \in 0 .. cmdlen - 1
      BY <1>2, <2>2
    <3>2. buf[pos] # NUL
      BY <1>1, <3>1 DEF RestAsTyped
    <3> QED
      BY <1>1, <1>2, <2>2, <3>2 DEF MoreArgs
  <2> QED
    BY <2>1, <2>2
<1>5. \A k \in DOMAIN argv : Terminators(buf, argv[k]) # {}
  BY <1>1 DEF CmdInv, ArgumentsEnd
<1>6. AreTheWords(Typed, argv, Args)
  BY <1>1, <1>4 DEF AreTheWords, WordsSoFar
<1> QED
  BY <1>1, <1>3, <1>5, <1>6 DEF ArgsAsTyped, Terminators

LEMMA ArgsInitInv == CmdInit => ArgsInv
BY CmdInitInv DEF CmdInit, ArgsInv, LineIsCut, ArgsAsTyped

\* Every step of the command line keeps the words.
LEMMA ArgsNextInv == ArgsInv /\ [CmdNext]_cmdvars => ArgsInv'
<1> SUFFICES ASSUME ArgsInv, [CmdNext]_cmdvars PROVE ArgsInv'
  OBVIOUS
<1>1. CmdInv'
  BY CmdNextInv DEF ArgsInv
<1>2. CASE MakeArgs
  BY <1>1, <1>2, MakeArgsCuts DEF MakeArgs, ArgsInv, ArgsAsTyped
<1>3. CASE ArgsTurn
  BY <1>1, <1>3, ArgsTurnCuts DEF ArgsTurn, ArgsInv, ArgsAsTyped
<1>4. CASE ArgsDone
  BY <1>1, <1>4, ArgsDoneCuts DEF ArgsDone, ArgsInv, LineIsCut
<1>5. CASE SendByte \/ UNCHANGED cmdvars
  <2>1. UNCHANGED <<at, pos, cmdlen, line, buf, argv>>
    BY <1>5 DEF SendByte, WriteByte, cmdvars, iovars
  <2>2. Typed' = Typed /\ Args' = Args
    BY <2>1, SameArgs
  <2>3. LineIsCut'
    BY <2>1, <2>2 DEF ArgsInv, LineIsCut, RestAsTyped, WordsSoFar
  <2>4. ArgsAsTyped'
    BY <2>1, <2>2 DEF ArgsInv, ArgsAsTyped, Terminators
  <2> QED
    BY <1>1, <2>3, <2>4 DEF ArgsInv
<1>6. CASE Greeted \/ Prompted \/ Slept \/ NoCommand \/ Typing
           \/ \E c \in Commands : DoCommand(c)
  <2>1. at' \notin {"args", "do"}
    BY <1>6 DEF Greeted, Prompted, Slept, NoCommand, Typing, Reading, DoCommand
  <2> QED
    BY <1>1, <2>1 DEF ArgsInv, LineIsCut, ArgsAsTyped
<1> QED
  BY <1>2, <1>3, <1>4, <1>5, <1>6 DEF CmdNext, Working

\* While a line is cut, what has been cut and what has not agree with what was
\* typed.
THEOREM ArgsInvariance == CmdSpec => []ArgsInv
BY ArgsInitInv, ArgsNextInv, PTL DEF CmdSpec

\* A command is given the words that were typed on its line, the first
\* MaxParaCnt of them.
THEOREM ArgumentsAreTheWords == CmdSpec => []ArgsAsTyped
<1>1. ArgsInv => ArgsAsTyped
  BY DEF ArgsInv
<1> QED
  BY <1>1, ArgsInvariance, PTL
-----------------------------------------------------------------------------
(***************************************************************************)
(* A line has one sequence of words.                                       *)
(***************************************************************************)

\* Where a word begins with its quote, if it has one.
LEMMA WordOpens ==
  ASSUME NEW s \in Seq(Chars), NEW from \in Nat, NEW p \in Nat,
         NEW x \in Seq(Chars), IsWord(s, from, p, x)
  PROVE  \E o \in from .. Len(s) - 1 :
           /\ BlankBetween(s, from, o) /\ s[o + 1] \notin Blanks
           /\ \/ o = p /\ s[o + 1] \notin Quotes /\ PlainWord(s, from, p, x)
              \/ o = p - 1 /\ s[o + 1] \in Quotes /\ QuotedWord(s, from, p, x)
<1>1. /\ p + Len(x) <= Len(s) /\ \A i \in 1 .. Len(x) : x[i] = s[p + i]
      /\ Len(x) \in Nat /\ Len(s) \in Nat
  BY DEF IsWord
<1>2. CASE PlainWord(s, from, p, x)
  <2>1. 1 \in 1 .. Len(x) /\ 1 \in DOMAIN x
    BY <1>1, <1>2 DEF PlainWord
  <2>2. /\ p \in from .. Len(s) - 1 /\ s[p + 1] \notin Blanks
        /\ s[p + 1] \notin Quotes
    BY <1>1, <1>2, <2>1 DEF PlainWord
  <2> QED
    BY <1>2, <2>2 DEF PlainWord
<1>3. CASE QuotedWord(s, from, p, x)
  <2>1. /\ p - 1 \in from .. Len(s) - 1 /\ (p - 1) + 1 = p
    BY <1>1, <1>3 DEF QuotedWord
  <2>2. s[p] \in Quotes /\ s[p] \notin Blanks
    BY <1>3, BlanksAssumption DEF QuotedWord
  <2> QED
    BY <1>3, <2>1, <2>2 DEF QuotedWord
<1> QED
  BY <1>2, <1>3 DEF IsWord

\* Of two words that begin at the same place none is longer.
LEMMA WordsEndAlike ==
  ASSUME NEW s \in Seq(Chars), NEW from \in Nat, NEW p \in Nat,
         NEW x \in Seq(Chars), NEW y \in Seq(Chars),
         IsWord(s, from, p, x), IsWord(s, from, p, y),
         \/ PlainWord(s, from, p, x) /\ PlainWord(s, from, p, y)
         \/ QuotedWord(s, from, p, x) /\ QuotedWord(s, from, p, y)
  PROVE  ~(Len(x) < Len(y))
<1> SUFFICES ASSUME Len(x) < Len(y) PROVE FALSE
  OBVIOUS
<1>1. /\ Len(x) + 1 \in 1 .. Len(y) /\ p + Len(x) < Len(s)
      /\ p + (Len(x) + 1) = p + Len(x) + 1
  BY DEF IsWord
<1>2. y[Len(x) + 1] = s[p + Len(x) + 1]
  BY <1>1 DEF IsWord
<1> QED
  BY <1>1, <1>2 DEF PlainWord, QuotedWord

\* After one word there is one next word.
LEMMA NextWordIsUnique ==
  ASSUME NEW s \in Seq(Chars), NEW from \in Nat, NEW p \in Nat, NEW q \in Nat,
         NEW x \in Seq(Chars), NEW y \in Seq(Chars),
         IsWord(s, from, p, x), IsWord(s, from, q, y)
  PROVE  p = q /\ x = y
<1>1. PICK o \in from .. Len(s) - 1 :
           /\ BlankBetween(s, from, o) /\ s[o + 1] \notin Blanks
           /\ \/ o = p /\ s[o + 1] \notin Quotes /\ PlainWord(s, from, p, x)
              \/ o = p - 1 /\ s[o + 1] \in Quotes /\ QuotedWord(s, from, p, x)
  BY WordOpens
<1>2. PICK r \in from .. Len(s) - 1 :
           /\ BlankBetween(s, from, r) /\ s[r + 1] \notin Blanks
           /\ \/ r = q /\ s[r + 1] \notin Quotes /\ PlainWord(s, from, q, y)
              \/ r = q - 1 /\ s[r + 1] \in Quotes /\ QuotedWord(s, from, q, y)
  BY WordOpens
<1>3. o = r
  <2>1. ~(o < r)
    <3> SUFFICES ASSUME o < r PROVE FALSE
      OBVIOUS
    <3>1. o \in from .. r - 1
      OBVIOUS
    <3> QED
      BY <1>1, <1>2, <3>1 DEF BlankBetween
  <2>2. ~(r < o)
    <3> SUFFICES ASSUME r < o PROVE FALSE
      OBVIOUS
    <3>1. r \in from .. o - 1
      OBVIOUS
    <3> QED
      BY <1>1, <1>2, <3>1 DEF BlankBetween
  <2> QED
    BY <2>1, <2>2
<1>4. /\ p = q
      /\ \/ PlainWord(s, from, p, x) /\ PlainWord(s, from, p, y)
         \/ QuotedWord(s, from, p, x) /\ QuotedWord(s, from, p, y)
  BY <1>1, <1>2, <1>3
<1>5. Len(x) = Len(y)
  <2>1. ~(Len(x) < Len(y)) /\ ~(Len(y) < Len(x))
    BY <1>4, WordsEndAlike
  <2> QED
    BY <2>1
<1>6. \A i \in 1 .. Len(x) : x[i] = y[i]
  <2>1. DOMAIN x = 1 .. Len(x) /\ DOMAIN y = 1 .. Len(x)
    BY <1>5, LenProperties
  <2> QED
    BY <1>4, <2>1 DEF IsWord
<1>7. x = y
  BY <1>5, <1>6, SeqEqual
<1> QED
  BY <1>4, <1>7

\* A place behind the words before is a place.
LEMMA BehindTypes ==
  ASSUME NEW a \in Seq(Nat), NEW u \in Seq(Seq(Chars)), Len(u) = Len(a),
         NEW k \in 0 .. Len(a)
  PROVE  Behind(a, u, k) \in Nat
<1>1. CASE k = 0
  BY <1>1 DEF Behind
<1>2. CASE k # 0
  <2>1. k \in 1 .. Len(a) /\ k \in 1 .. Len(u)
    BY <1>2
  <2>2. a[k] \in Nat /\ u[k] \in Seq(Chars)
    BY <2>1, ElementOfSeq
  <2> QED
    BY <1>2, <2>2 DEF Behind
<1> QED
  BY <1>1, <1>2

\* Words u of a line s, that start at a.
Cuts(s, a, u) ==
  /\ s \in Seq(Chars) /\ a \in Seq(Nat) /\ u \in Seq(Seq(Chars))
  /\ Len(u) = Len(a) /\ AreWords(s, a, u)

\* Two sequences of words of a line agree as far as both go.
LEMMA WordsAgree ==
  ASSUME NEW s, NEW a, NEW u, Cuts(s, a, u), NEW b, NEW v, Cuts(s, b, v)
  PROVE  \A k \in 1 .. Len(a) : k <= Len(b) => a[k] = b[k] /\ u[k] = v[k]
<1> USE DEF Cuts
<1> DEFINE Differ == {k \in 1 .. Len(a) : k <= Len(b) /\ ~(a[k] = b[k] /\ u[k] = v[k])}
<1> SUFFICES ASSUME Differ # {} PROVE FALSE
  OBVIOUS
<1>1. Len(a) \in Nat /\ Len(b) \in Nat
  OBVIOUS
<1>2. Differ \in SUBSET Nat
  OBVIOUS
<1>3. PICK k \in Differ : \A y \in Differ : k <= y
  BY <1>2, MinIsLeast
<1>4. /\ k \in 1 .. Len(a) /\ k \in 1 .. Len(b) /\ ~(a[k] = b[k] /\ u[k] = v[k])
      /\ k - 1 \in 0 .. Len(a) /\ k - 1 \in 0 .. Len(b)
  <2>1. k \in 1 .. Len(a) /\ k <= Len(b) /\ ~(a[k] = b[k] /\ u[k] = v[k])
    BY <1>3
  <2> HIDE DEF Differ
  <2>2. k \in 1 .. Len(b) /\ k - 1 \in 0 .. Len(a) /\ k - 1 \in 0 .. Len(b)
    <3> k \in 1 .. Len(a) /\ k <= Len(b)
      BY <2>1
    <3> QED
      BY <1>1
  <2> QED
    BY <2>1, <2>2
<1>5. Behind(a, u, k - 1) = Behind(b, v, k - 1)
  <2>1. CASE k = 1
    BY <2>1 DEF Behind
  <2>2. CASE k # 1
    <3>1. k - 1 \in 1 .. Len(a) /\ k - 1 <= Len(b) /\ ~(k <= k - 1)
      BY <1>1, <1>4, <2>2
    <3>2. k - 1 \notin Differ
      BY <1>3, <3>1
    <3>3. a[k - 1] = b[k - 1] /\ u[k - 1] = v[k - 1]
      BY <3>1, <3>2
    <3> QED
      BY <3>3 DEF Behind
  <2> QED
    BY <2>1, <2>2
<1> HIDE DEF Differ
<1>6. /\ a[k] \in Nat /\ b[k] \in Nat /\ u[k] \in Seq(Chars) /\ v[k] \in Seq(Chars)
      /\ k \in DOMAIN a /\ k \in DOMAIN b
  <2>1. k \in 1 .. Len(u) /\ k \in 1 .. Len(v)
    BY <1>4
  <2>2. u[k] \in Seq(Chars) /\ v[k] \in Seq(Chars)
    BY <2>1, ElementOfSeq
  <2>3. a[k] \in Nat /\ b[k] \in Nat
    BY <1>4, ElementOfSeq
  <2> QED
    BY <1>4, <2>2, <2>3, LenProperties
<1>7. Behind(a, u, k - 1) \in Nat
  BY <1>4, BehindTypes
<1>8. /\ IsWord(s, Behind(a, u, k - 1), a[k], u[k])
      /\ IsWord(s, Behind(a, u, k - 1), b[k], v[k])
  BY <1>5, <1>6 DEF AreWords
<1>9. a[k] = b[k] /\ u[k] = v[k]
  BY <1>6, <1>7, <1>8, NextWordIsUnique
<1> QED
  BY <1>4, <1>9

\* A sequence of words that stops short of another one has not got them all.
LEMMA NoWordIsLeftOut ==
  ASSUME NEW s \in Seq(Chars), NEW a \in Seq(Nat), NEW b \in Seq(Nat),
         NEW u \in Seq(Seq(Chars)), NEW v \in Seq(Seq(Chars)),
         Len(u) = Len(a), Len(v) = Len(b), Len(b) <= MaxParaCnt,
         AreTheWords(s, a, u), AreWords(s, b, v),
         \A i \in 1 .. Len(a) : i <= Len(b) => a[i] = b[i] /\ u[i] = v[i]
  PROVE  ~(Len(a) < Len(b))
<1> SUFFICES ASSUME Len(a) < Len(b) PROVE FALSE
  OBVIOUS
<1> DEFINE k == Len(a) + 1
           from == Behind(a, u, Len(a))
<1>1. /\ Len(a) \in Nat /\ Len(b) \in Nat /\ MaxParaCnt \in Nat /\ k \in 1 .. Len(b)
      /\ k - 1 = Len(a) /\ Len(a) \in 0 .. Len(a)
  BY ParaAssumption
<1>2. BlankBetween(s, from, Len(s))
  BY <1>1 DEF AreTheWords
<1>3. Behind(b, v, k - 1) = from
  <2>1. CASE Len(a) = 0
    BY <1>1, <2>1 DEF Behind
  <2>2. CASE Len(a) # 0
    <3>1. Len(a) \in 1 .. Len(a) /\ Len(a) <= Len(b)
      BY ONLY <1>1, <2>2, Len(a) < Len(b)
    <3>2. a[Len(a)] = b[Len(a)] /\ u[Len(a)] = v[Len(a)]
      BY <3>1
    <3> QED
      BY <1>1, <3>2 DEF Behind
  <2> QED
    BY <2>1, <2>2
<1>4. from \in Nat
  BY <1>1, BehindTypes
<1> HIDE DEF k, from
<1>5. b[k] \in Nat /\ v[k] \in Seq(Chars) /\ k \in DOMAIN b
  BY <1>1, ElementOfSeq
<1>6. IsWord(s, from, b[k], v[k])
  BY <1>3, <1>5 DEF AreTheWords, AreWords
<1>7. PICK o \in from .. Len(s) - 1 : s[o + 1] \notin Blanks
  BY <1>4, <1>5, <1>6, WordOpens
<1> QED
  BY <1>2, <1>7 DEF BlankBetween

\* No line has two sequences of words: AreTheWords says which words a command
\* is given, and not only something about them.
THEOREM WordsAreUnique ==
  ASSUME NEW s \in Seq(Chars), NEW a \in Seq(Nat), NEW b \in Seq(Nat),
         NEW u \in Seq(Seq(Chars)), NEW v \in Seq(Seq(Chars)),
         Len(u) = Len(a), Len(v) = Len(b),
         Len(a) <= MaxParaCnt, Len(b) <= MaxParaCnt,
         AreTheWords(s, a, u), AreTheWords(s, b, v)
  PROVE  a = b /\ u = v
<1>1. ~(Len(a) < Len(b)) /\ ~(Len(b) < Len(a))
  <2>1. /\ Cuts(s, a, u) /\ Cuts(s, b, v)
        /\ AreWords(s, a, u) /\ AreWords(s, b, v)
    BY DEF AreTheWords, Cuts
  <2>2. \A i \in 1 .. Len(a) : i <= Len(b) => a[i] = b[i] /\ u[i] = v[i]
    BY ONLY <2>1, WordsAgree
  <2>3. \A i \in 1 .. Len(b) : i <= Len(a) => b[i] = a[i] /\ v[i] = u[i]
    BY ONLY <2>1, WordsAgree
  <2>4. ~(Len(a) < Len(b))
    BY <2>1, <2>2, NoWordIsLeftOut
  <2>5. ~(Len(b) < Len(a))
    BY <2>1, <2>3, NoWordIsLeftOut
  <2> QED
    BY <2>4, <2>5
<1>2. Len(a) = Len(b) /\ Len(u) = Len(v)
  BY <1>1
<1>3. \A k \in 1 .. Len(a) : a[k] = b[k] /\ u[k] = v[k]
  <2>1. Cuts(s, a, u) /\ Cuts(s, b, v)
    BY DEF AreTheWords, Cuts
  <2>2. \A k \in 1 .. Len(a) : k <= Len(b) => a[k] = b[k] /\ u[k] = v[k]
    BY ONLY <2>1, WordsAgree
  <2> QED
    BY <1>2, <2>2
<1>4. a = b
  BY <1>2, <1>3, SeqEqual
<1>5. u = v
  <2>1. \A k \in 1 .. Len(u) : u[k] = v[k]
    BY <1>2, <1>3
  <2> QED
    BY <1>2, <2>1, SeqEqual
<1> QED
  BY <1>4, <1>5
=============================================================================
