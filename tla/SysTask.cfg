CONSTANTS
  Procs = {tty, sys, testA, testB, testC}
  FirstProc = tty
  Callers = {sys, testA, testB, testC}
  Clients = {testA, testB, testC}
  SYS = sys
  MaxTicks = 2
  Bodies <- MCBodies
  Zero <- MCZero
  ANY = ANY
  NO_TASK = NO_TASK
  NULL = NULL
SPECIFICATION SSpec
INVARIANTS
  NeverHalts
  TicksFresh
  AnswerExpected
PROPERTIES
  Answered
