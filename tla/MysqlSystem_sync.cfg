SPECIFICATION Spec
CONSTANTS
  NClients = 1
  m_nRetryCount = 1
  m_bThreadSafe = TRUE
  SyncCalls = TRUE
  MaxReqs = 1
  MaxResets = 0
INVARIANTS
  FailedMeansRetried
CHECK_DEADLOCK FALSE
