SPECIFICATION BoundSpec
CONSTANTS
  m1 = m1  k1 = k1  k2 = k2  k3 = k3  w2 = w2  w3 = w3
  Mains = {m1}
  Slaves = {w1, w2, w3}
  Tasks = {k1, k2, k3}
  Parent <- Nested
  Awaited = {k1, k2}
  Records = 3
  Processors = 1
  MinPoolSize = 1
  PoolSizes = {1, 2}
  Advice = {"doNothing", "doCreateThread", "doShutdownThread"}
  QueueSize = 1
  Does <- SyncAndResize
  Nil = Nil
INVARIANTS TypeOK ArgumentsAlive NoStrandedSpawner SlavesCounted LastDoesNotWait
PROPERTIES StartedIfAlone SyncWaits SpawnReturns
CHECK_DEADLOCK FALSE
