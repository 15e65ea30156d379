CONSTANTS
  shell = shell
  program = program
  Process = {shell, program}
  Ignoring = {shell}
  Keys = {"lflag"}
  Slots = {"VMIN"}
  Width = 2
  Longs <- SomeLongs
  MaxEdits = 1
SPECIFICATION HSpec
INVARIANTS
  TypeOK
  SilenceMeansSuccess
PROPERTIES
  SetsPutBackWhatWasRead
