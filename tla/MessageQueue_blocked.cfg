SPECIFICATION FairSpec
CONSTANTS
  q1 = q1
  q2 = q2
  q3 = q3
  Threads = {main, t1}
  Main = main
  Queues = {q1, q2, q3}
  NoQueue = NoQueue
  EventOf <- OneSharedEvent
  EVENT_MIN = 1
  EVENT_MAX = 3
  SEM_VALUE_MAX = 2
  InitTokens <- EitherBuild
  Msgs = {m1}
  NoMsg = NoMsg
  MaxQueue = 2
  MaxEvents = 2
PROPERTIES
  NoQueueBlocked
