CONSTANTS
  Procs = {tty, sys, testA, testB, testC}
  FirstProc = tty
  Callers = {sys, testA, testB, testC}
  Bodies = {b0, b1}
  Zero = b0
  ANY = ANY
  NO_TASK = NO_TASK
  NULL = NULL
SPECIFICATION Spec
SYMMETRY CallerSymmetry
INVARIANTS
  TypeOK
  PcbConsistent
  QueueExact
  NoSendCycle
  NoMissedRendezvous
  RunningNotBlocked
PROPERTIES
  Implements
  Handoff
  BlockedBufferStable
CHECK_DEADLOCK FALSE
