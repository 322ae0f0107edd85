CONSTANTS
  MaxBytes = 3
  MaxAlloc = 2
  MaxWrites = 2
SPECIFICATION Spec
\* After ziti_src_release nothing calls into the source any more.
CHECK_DEADLOCK FALSE
INVARIANT NoUninitializedConn
