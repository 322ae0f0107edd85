CONSTANTS
  PoolSize <- MCPoolSize
  IdleValues <- MCIdleValues
  LateRemoteEvents = TRUE
SPECIFICATION Spec
CHECK_DEADLOCK FALSE
INVARIANT NoNullInput
