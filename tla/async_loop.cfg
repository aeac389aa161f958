CONSTANTS
  NTasks = 2
  Sockets = {s1, s2}
  MaxFutures = 5
  SendSizes = {1, 2}
  SendRoom = 1
  MaxInbox = 1
  Delays = {1}
  PollTimeout = 2
  s1 = s1 s2 = s2
SPECIFICATION MCSpec
INVARIANTS TypeOK OperationsKept ResumedOnce NothingOverlooked ServedInOrder AnswersTell NeverIdle
PROPERTIES TimeoutsAnswer MessagesReachReceivers
