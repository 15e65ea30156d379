CONSTANTS
  a = a
  newline = newline
  eof = eof
  nul = nul
  zero = zero
  Letters = {a}
  Newline = newline
  EndOfFile = eof
  Nul = nul
  Zero = zero
  Texts <- SomeTexts
  Completions <- SomeCompletions
  MaxLine = 3
  MaxHistories = 2
  MaxEntries = 1
SPECIFICATION Spec
CHECK_DEADLOCK FALSE
INVARIANTS
  TypeOK
  UndefinedOnlyByMisuse
  TerminalIsGivenBack
  AddedIsRecalled
  CompleteMeansEntered
