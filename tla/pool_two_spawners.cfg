SPECIFICATION Spec
CONSTANTS
  m1 = m1  k1 = k1  k2 = k2  k3 = k3  w2 = w2  w3 = w3
  Mains = {m1}
  Slaves = {w1, w2}
  Tasks = {k1, k2, k3}
  Parent <- Nested
  Awaited = {}
  Records = 2
  Processors = 1
  MinPoolSize = 1
  PoolSizes = {}
  Advice = {"doNothing"}
  QueueSize = 1
  Does <- OnlySpawns
  Nil = Nil
PROPERTIES StartedIsMine
CHECK_DEADLOCK FALSE
