SPECIFICATION FairSpec
CONSTANTS
  s1 = s1  s2 = s2  r1 = r1  r2 = r2
  m1 = m1  m2 = m2
  Threads = {s1, r1}
  Msgs = {m1}
  Sizes = {2}
  Does <- Blocking
  Spurious = FALSE
  NoThread = NoThread
  NoMsg = NoMsg
PROPERTIES RecvWakes
CHECK_DEADLOCK FALSE
