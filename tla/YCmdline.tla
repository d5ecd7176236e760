------------------------------ MODULE YCmdline ------------------------------
(***************************************************************************)
(* The command line of cmdline.c, run by _cmdline_task of main.c: print    *)
(* the prompt, read a line, cut it into arguments in place, run the        *)
(* command, print its answer, for ever. A step of _make_args is one turn   *)
(* of its loop. What a command prints is so many messages; atoi and the    *)
(* texts are left out.                                                     *)
(***************************************************************************)
EXTENDS YBasicIo

CONSTANTS
  Blanks, Quotes,      \* CMDLINE_BLANK_CHARS, CMDLINE_QUOTE_CHARS
  MaxParaCnt,          \* CMDLINE_MAX_PARA_CNT
  NameOf,              \* the name of each command, as the characters of it
  TaskCount            \* tasks that yos_get_task_info knows of

Commands == {"help", "echo", "si", "sleep", "ts", "exit"}

ASSUME BlanksAssumption ==
  /\ Blanks \cup Quotes \subseteq Chars /\ EOL \in Blanks
  /\ Blanks \cap Quotes = {} /\ NUL \notin Blanks \cup Quotes
ASSUME ParaAssumption == MaxParaCnt \in Nat \ {0}
ASSUME TaskCountAssumption == TaskCount \in Nat
ASSUME NamesAssumption ==
  /\ NameOf \in [Commands -> Seq(Chars)]
  /\ \A c, d \in Commands : NameOf[c] = NameOf[d] => c = d

VARIABLES
  at,              \* where _cmdline_task is
  pos, cmdlen,     \* of _make_args
  argv,            \* _ARGV[0 .. argc - 1], as places in _cmdline
  last_cmd_ret     \* _last_cmd_ret

cmdvars == <<iovars, at, pos, cmdlen, argv, last_cmd_ret>>

(***************************************************************************)
(*   banner     the greeting of do_cmdline                                 *)
(*   prompt     name and mark                                              *)
(*   read       in basic_io_readline                                       *)
(*   args       in _make_args                                              *)
(*   do         in _do_cmds                                                *)
(*   sleep      in _cmd_sleep, before yos_task_msleep returns              *)
(***************************************************************************)
Places == {"banner", "prompt", "read", "args", "do", "sleep"}

CmdInit ==
  /\ IoInit
  /\ at = "banner"
  /\ pos = 0 /\ cmdlen = 0
  /\ argv = <<>>
  /\ last_cmd_ret = 0
-----------------------------------------------------------------------------
SendByte ==
  /\ WriteByte
  /\ UNCHANGED <<at, pos, cmdlen, argv, last_cmd_ret>>

\* do_cmdline begins, once everything before has been accepted.
Greeted ==
  /\ at = "banner" /\ unsent = 0
  /\ at' = "prompt"
  /\ Printf(3)
  /\ UNCHANGED <<buf, byte_read, line, pos, cmdlen, argv, last_cmd_ret>>

Prompted ==
  /\ at = "prompt" /\ unsent = 0
  /\ at' = "read"
  /\ Printf(1)
  /\ ReadLine
  /\ UNCHANGED <<buf, pos, cmdlen, argv, last_cmd_ret>>

Reading(c) ==
  /\ at = "read" /\ unsent = 0
  /\ ReadByte(c)
  /\ UNCHANGED <<at, pos, cmdlen, argv, last_cmd_ret>>

\* readline returns: it has not been given NULL, so it is no error. Variables
\* that are local to a function in the code are cleared when it returns.
MakeArgs ==
  /\ at = "read" /\ LineRead
  /\ at' = "args"
  /\ pos' = 0
  /\ cmdlen' = StrLen(buf, 0)
  /\ argv' = <<>>
  /\ byte_read' = 0
  /\ UNCHANGED <<buf, unsent, line, last_cmd_ret>>
-----------------------------------------------------------------------------
\* Mistake: an unquoted token ends at a quote, which is then written over.
EndAtQuote(from) ==
  Min({cmdlen} \cup {e \in from .. cmdlen - 1 : buf[e] \in Blanks \cup Quotes})

\* Where an unquoted token that starts before from ends.
EndOfWord(from) ==
  Min({cmdlen} \cup {e \in from .. cmdlen - 1 : buf[e] \in Blanks})

\* Where a token in quotes q ends: at the next q, or with the line.
EndOfQuoted(q, from) ==
  Min(Terminators(buf, from) \cup {e \in from .. cmdlen - 1 : buf[e] = q})

Token(start, end) ==
  /\ buf' = [buf EXCEPT ![end] = NUL]
  /\ argv' = Append(argv, start)
  /\ pos' = end + 1

\* Mistake: _ARGV is taken to have room.
MoreArgsAlways == pos < cmdlen /\ buf[pos] # NUL

MoreArgs == pos < cmdlen /\ buf[pos] # NUL /\ Len(argv) < MaxParaCnt

\* Mistake: the loop does not step over a blank.
ScanStuck ==
  CASE buf[pos] \in Blanks -> UNCHANGED <<pos, buf, argv>>
    [] buf[pos] \in Quotes -> Token(pos + 1, EndOfQuoted(buf[pos], pos + 1))
    [] OTHER               -> Token(pos, EndOfWord(pos + 1))

\* One turn of the loop.
Scan ==
  CASE buf[pos] \in Blanks -> pos' = pos + 1 /\ UNCHANGED <<buf, argv>>
    [] buf[pos] \in Quotes -> Token(pos + 1, EndOfQuoted(buf[pos], pos + 1))
    [] OTHER               -> Token(pos, EndOfWord(pos + 1))

ArgsTurn ==
  /\ at = "args" /\ MoreArgs
  /\ Scan
  /\ UNCHANGED <<byte_read, unsent, line, at, cmdlen, last_cmd_ret>>

ArgsDone ==
  /\ at = "args" /\ ~MoreArgs
  /\ at' = "do"
  /\ pos' = 0 /\ cmdlen' = 0
  /\ UNCHANGED <<iovars, argv, last_cmd_ret>>
-----------------------------------------------------------------------------
Args == [k \in DOMAIN argv |-> CString(buf, argv[k])]

\* _find_cmd_item_by_name finds it.
Known(name) == \E c \in Commands : NameOf[c] = name

HelpReturns ==
  CASE Len(argv) = 1 -> 0
    [] Len(argv) = 2 -> IF Known(Args[2]) THEN 0 ELSE -1
    [] OTHER         -> -2

Returns(c) == IF c = "help" THEN HelpReturns ELSE 0

\* The messages of a command that returns when it has printed them.
Messages(c) ==
  CASE c = "help"  -> IF Len(argv) = 1 THEN Cardinality(Commands)
                      ELSE IF Len(argv) = 2 THEN 1 ELSE 5
    [] c = "echo"  -> Len(argv) + 2
    [] c = "si"    -> 10
    [] c = "sleep" -> 0
    [] c = "ts"    -> 1 + TaskCount
    [] c = "exit"  -> 1

\* _do_cmds: an empty line and an unknown command leave _last_cmd_ret alone.
NoCommand ==
  /\ at = "do"
  /\ argv # <<>> => ~Known(Args[1])
  /\ at' = "prompt"
  /\ Printf(IF argv = <<>> THEN 0 ELSE 1)
  /\ line' = <<>> /\ argv' = <<>>
  /\ UNCHANGED <<buf, byte_read, pos, cmdlen, last_cmd_ret>>

\* After exit do_cmdline returns to _cmdline_task, which calls it again.
DoCommand(c) ==
  /\ at = "do" /\ argv # <<>>
  /\ Args[1] = NameOf[c]
  /\ last_cmd_ret' = Returns(c)
  /\ IF c = "sleep" /\ Len(argv) = 2 THEN at' = "sleep" /\ Printf(1)
     ELSE at' = (IF c = "exit" THEN "banner" ELSE "prompt") /\ Printf(Messages(c))
  /\ line' = <<>> /\ argv' = <<>>
  /\ UNCHANGED <<buf, byte_read, pos, cmdlen>>

\* yos_task_msleep returns.
Slept ==
  /\ at = "sleep" /\ unsent = 0
  /\ at' = "prompt"
  /\ Printf(1)
  /\ UNCHANGED <<buf, byte_read, line, pos, cmdlen, argv, last_cmd_ret>>

Working ==
  \/ SendByte \/ Greeted \/ Prompted
  \/ MakeArgs \/ ArgsTurn \/ ArgsDone
  \/ NoCommand \/ Slept \/ \E c \in Commands : DoCommand(c)

Typing == \E c \in Chars : Reading(c)

CmdNext == Working \/ Typing

CmdSpec == CmdInit /\ [][CmdNext]_cmdvars

(***************************************************************************)
(* The port accepts a byte sooner or later, the kernel gives the task its  *)
(* turns and ends its sleeps, and somebody goes on typing.                 *)
(***************************************************************************)
FairCmdSpec == CmdSpec /\ WF_cmdvars(Working) /\ WF_cmdvars(Typing)
-----------------------------------------------------------------------------
CmdTypeOK ==
  /\ IoTypeOK
  /\ at \in Places
  /\ pos \in 0 .. BufLen /\ cmdlen \in 0 .. BufLen - 1
  /\ argv \in Seq(0 .. BufLen - 1) /\ Len(argv) <= MaxParaCnt
  /\ last_cmd_ret \in {0, -1, -2}

(***************************************************************************)
(* A line comes back as it was typed: the bytes of it in order, none of    *)
(* the line before behind them, and a terminator inside the buffer. EOL is *)
(* not among them; nor is the last byte of a line that fills the buffer,   *)
(* which is lost (basic_io.c:108), so that what follows is a line of its   *)
(* own.                                                                    *)
(***************************************************************************)
Typed ==
  LET kept == IF Last(line) = EOL \/ Len(line) = BufLen THEN Front(line) ELSE line
      nuls == {k \in DOMAIN kept : kept[k] = NUL}
  IN IF nuls = {} THEN kept ELSE SubSeq(kept, 1, Min(nuls) - 1)

LineIsAsTyped ==
  at = "read" /\ LineRead =>
    /\ Terminators(buf, 0) # {}
    /\ byte_read = Len(line)
    /\ CString(buf, 0) = Typed

(***************************************************************************)
(* What the words of a line s are, as a reader of the source would say it, *)
(* given the places they start at: each comes after blanks, and after the  *)
(* character that ended the one before; a quote opens a word that the next *)
(* quote of its kind ends, or the line; another word ends at a blank;      *)
(* words beyond the first MaxParaCnt are dropped. No line has two such     *)
(* sequences of words.                                                     *)
(***************************************************************************)
BlankBetween(s, from, to) == \A p \in from .. to - 1 : s[p + 1] \in Blanks

Behind(starts, words, k) ==
  IF k = 0 THEN 0 ELSE starts[k] + Len(words[k]) + 1

PlainWord(s, from, start, word) ==
  /\ from <= start /\ BlankBetween(s, from, start)
  /\ word # <<>> /\ word[1] \notin Quotes
  /\ \A i \in DOMAIN word : word[i] \notin Blanks
  /\ start + Len(word) < Len(s) => s[start + Len(word) + 1] \in Blanks

QuotedWord(s, from, start, word) ==
  /\ from < start /\ BlankBetween(s, from, start - 1)
  /\ s[start] \in Quotes
  /\ \A i \in DOMAIN word : word[i] # s[start]
  /\ start + Len(word) < Len(s) => s[start + Len(word) + 1] = s[start]

IsWord(s, from, start, word) ==
  /\ start + Len(word) <= Len(s)
  /\ \A i \in DOMAIN word : word[i] = s[start + i]
  /\ PlainWord(s, from, start, word) \/ QuotedWord(s, from, start, word)

AreWords(s, starts, words) ==
  \A k \in DOMAIN starts :
    IsWord(s, Behind(starts, words, k - 1), starts[k], words[k])

AreTheWords(s, starts, words) ==
  /\ AreWords(s, starts, words)
  /\ \/ Len(starts) = MaxParaCnt
     \/ BlankBetween(s, Behind(starts, words, Len(starts)), Len(s))

(***************************************************************************)
(* A command is given the arguments that were typed on its line, although  *)
(* they are cut in place, in a buffer that still holds the lines before,   *)
(* and none of them reaches beyond it.                                     *)
(***************************************************************************)
ArgsAsTyped ==
  at = "do" => /\ \A k \in DOMAIN argv : Terminators(buf, argv[k]) # {}
               /\ AreTheWords(Typed, argv, Args)

(***************************************************************************)
(* Whatever is typed, the command line comes back to its prompt: readline  *)
(* ends when the buffer is full, and _make_args gets past every character. *)
(***************************************************************************)
PromptComesBack == at # "prompt" ~> at = "prompt"
-----------------------------------------------------------------------------
(***************************************************************************)
(* The inductive invariant behind the types and the first of these: while  *)
(* a line is read the front of the buffer holds it with its terminators    *)
(* put in; while it is cut, the terminator at its end stays where it is,   *)
(* and every argument found ends at a terminator.                          *)
(***************************************************************************)
LineInBuffer ==
  at = "read" =>
    /\ byte_read = Len(line)
    /\ \A k \in 1 .. Len(line) :
         buf[k - 1] = IF line[k] = EOL \/ k = BufLen THEN NUL ELSE line[k]
    /\ \A k \in 1 .. Len(line) - 1 : line[k] # EOL

LineEnds == at = "args" => buf[cmdlen] = NUL /\ pos <= cmdlen + 1

ArgumentsEnd ==
  at \in {"args", "do"} =>
    \A k \in DOMAIN argv : Terminators(buf, argv[k]) # {}

CmdInv == CmdTypeOK /\ LineInBuffer /\ LineEnds /\ ArgumentsEnd

(***************************************************************************)
(* The inductive invariant behind the arguments, on top of it: the part of *)
(* the line before pos has been cut into words and blanks, the part after  *)
(* it is still as it was typed, and no step changes a word once it is cut. *)
(***************************************************************************)
RestAsTyped ==
  /\ cmdlen = Len(Typed)
  /\ \A p \in 0 .. cmdlen - 1 : Typed[p + 1] # NUL
  /\ \A p \in pos .. cmdlen - 1 : buf[p] = Typed[p + 1]

WordsSoFar ==
  /\ AreWords(Typed, argv, Args)
  /\ \A k \in 0 .. Len(argv) : Behind(argv, Args, k) <= pos
  /\ BlankBetween(Typed, Behind(argv, Args, Len(argv)),
                  IF pos < cmdlen THEN pos ELSE cmdlen)

LineIsCut == at = "args" => RestAsTyped /\ WordsSoFar

ArgsInv == CmdInv /\ LineIsCut /\ ArgsAsTyped
=============================================================================
