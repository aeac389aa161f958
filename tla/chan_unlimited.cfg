SPECIFICATION BoundSpec
CONSTANTS
  s1 = s1  s2 = s2  r1 = r1  r2 = r2
  Threads = {s1, s2, r1, r2}
  Msgs = {m1, m2}
  MaxItems = 0
  Does <- PollingToo
  MaxPending = 3
  Spurious = TRUE
  NoThread = NoThread
  NoMsg = NoMsg
SYMMETRY Messages
INVARIANTS RingConsistent NoLostWakeup
PROPERTIES ImplementsQueue
CHECK_DEADLOCK FALSE
