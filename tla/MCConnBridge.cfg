CONSTANTS
  PoolSize <- MCPoolSize
  IdleValues <- MCIdleValues
  LateRemoteEvents = TRUE
SPECIFICATION Spec
\* on_ziti_close frees the bridge and nothing runs after that.
CHECK_DEADLOCK FALSE
INVARIANTS
  TypeOK
  ReadControl
  BufferOwnership
  HalfCloseStateMachine
PROPERTIES
  ImplementsSession
  ResumeOnlyOnCompletion
