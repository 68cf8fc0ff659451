SPECIFICATION FairSpec
CONSTANTS
  NClients = 2
  m_nRetryCount = 1
  m_bThreadSafe = TRUE
  SyncCalls = TRUE
  MaxReqs = 2
  MaxResets = 1
INVARIANTS
  TypeOK
  NoneLostNoneTwice
  EnoughTokens
  ResponseSignalled
  OneQueryAtATime
CHECK_DEADLOCK FALSE
PROPERTIES
  EveryRequestHandled
  ImplementsService
