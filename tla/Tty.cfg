CONSTANTS
  NConsoles = 2
  Width = 3
  Height = 2
  MemLimit = 8
  BootCursor = 1
  InBytes = 2
  Keys = {"x", "backspace", "up", "down", "prtscr"}
  Typed = {0}
  Selected = {0, 1}
  Printed = {1}
  Strings <- MCLines
  NoteLength = 3
  GsWords = 5

SPECIFICATION FairSpec
INVARIANT BlankAhead
INVARIANT DisplayOnCurrent
INVARIANT StartBounded
INVARIANT KeysDrained
PROPERTY KeptText
PROPERTY Served
CHECK_DEADLOCK FALSE
