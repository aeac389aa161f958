SPECIFICATION ServedSpec
CONSTANTS
  s1 = s1  s2 = s2  r1 = r1  r2 = r2
  Threads = {s1, r1, r2}
  Msgs = {m1, m2}
  MaxItems = 2
  Does <- Everything
  MaxPending = 0
  Spurious = TRUE
  NoThread = NoThread
  NoMsg = NoMsg
PROPERTIES ImplementsQueue SendReturns RecvUnblocks
CHECK_DEADLOCK FALSE
