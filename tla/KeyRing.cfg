CONSTANTS
  Size = 3
  Bytes = {b0, b1, b2}
SPECIFICATION Spec
INVARIANTS
  TypeOK
  RingExact
PROPERTIES
  ImplementsQueue
