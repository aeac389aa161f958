CONSTANTS
  NTasks = 2
  Sockets = {s1}
  MaxFutures = 4
  SendSizes = {1, 2}
  SendRoom = 1
  MaxInbox = 1
  Delays = {1}
  PollTimeout = 2
  s1 = s1 s2 = s2
SPECIFICATION Spec
INVARIANTS WatchedAlways
