SPECIFICATION FairCmdSpec
CONSTANTS
  BufLen = 6
  Chars <- MCChars
  EOL = "eol"
  NUL = "nul"
  MessageLen = 1
  TaskCount = 2
  Blanks <- MCBlanks
  Quotes <- MCQuotes
  MaxParaCnt = 2
  NameOf <- MCNameOf
INVARIANTS
  CmdTypeOK
  LineIsAsTyped
  ArgsAsTyped
PROPERTIES
  PromptComesBack
