SPECIFICATION MCSpec
CONSTANTS
  s1 = s1  s2 = s2  r1 = r1  r2 = r2
  m1 = m1  m2 = m2
  Threads = {s1, s2, r1, r2}
  Msgs = {m1, m2}
  Sizes = {1, 2}
  Does <- Mixed
  Spurious = TRUE
  NoThread = NoThread
  NoMsg = NoMsg
INVARIANTS TypeOK
PROPERTIES ImplementsQueue UnbufferedWakes
CHECK_DEADLOCK FALSE
