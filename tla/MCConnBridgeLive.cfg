CONSTANTS
  PoolSize <- MCPoolSize
  IdleValues <- MCIdleValues
  LateRemoteEvents = FALSE
SPECIFICATION FairSpec
\* on_ziti_close frees the bridge and nothing runs after that.
CHECK_DEADLOCK FALSE
PROPERTIES
  ThrottleReleased
  TeardownCompletes
