SPECIFICATION Spec
CONSTANTS
  NClients = 1
  m_nRetryCount = 1
  m_bThreadSafe = TRUE
  SyncCalls = FALSE
  MaxReqs = 1
  MaxResets = 0
INVARIANTS
  IdleMeansIdle
CHECK_DEADLOCK FALSE
