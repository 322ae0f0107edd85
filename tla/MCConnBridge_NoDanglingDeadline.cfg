CONSTANTS
  PoolSize <- MCPoolSize
  IdleValues <- MCIdleValues
  LateRemoteEvents = FALSE
SPECIFICATION Spec
CHECK_DEADLOCK FALSE
INVARIANT NoDanglingDeadline
