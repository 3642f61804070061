CONSTANTS
  NConsoles = 2
  Width = 3
  Height = 2
  MemLimit = 10
  BootCursor = 2
  InBytes = 2
  Keys = {"x"}
  Typed = {0, 1}
  Selected = {0, 1}
  Printed = {0, 1}
  Strings <- MCStrings
  NoteLength = 3
  GsWords = 5

SPECIFICATION Spec
PROPERTY KeptText
