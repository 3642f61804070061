CONSTANTS
  Keys = {"a", "shift_l", "shift_r", "seven", "num", "up", "prtscr", "pause"}
  Size = 32
  Backlog = 2
SPECIFICATION FairSpec
INVARIANT InStep
INVARIANT ShiftFollows
PROPERTY ReaderBack
