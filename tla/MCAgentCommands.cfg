\* One command, two runs, one fault of any kind.
SPECIFICATION LiveSpec
CONSTANTS
  c1 = c1
  c2 = c2
  Command = {c1}
  NoCommand = NoCommand
  MaxRun = 2
  MaxFault = 1
INVARIANTS
  CommandsInv
  OneActiveRun
  CompletedHasSnapshot
PROPERTIES
  CommandsEndOnce
  ActiveRunsEnd
