SPECIFICATION Spec
CONSTANTS
  s1 = s1  s2 = s2  r1 = r1  r2 = r2
  Threads = {s1, s2, r1}
  Msgs = {m1}
  MaxItems = 1
  Does <- Blocking
  MaxPending = 0
  Spurious = FALSE
  NoThread = NoThread
  NoMsg = NoMsg
INVARIANTS AllAsleepJustified
CHECK_DEADLOCK FALSE
