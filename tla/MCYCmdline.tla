----------------------------- MODULE MCYCmdline -----------------------------
(* A small line buffer, two letters and two kinds of quotes, for TLC. *)
EXTENDS YCmdline

MCChars  == {"h", "x", "blank", "quote", "apostrophe", "eol", "nul"}
MCBlanks == {"blank", "eol"}
MCQuotes == {"quote", "apostrophe"}
MCNameOf ==
  [help |-> <<"h">>, echo |-> <<"x">>, si |-> <<"h", "h">>, sleep |-> <<"h", "x">>,
   ts |-> <<"x", "h">>, exit |-> <<"x", "x">>]
=============================================================================
