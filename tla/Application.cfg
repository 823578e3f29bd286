SPECIFICATION FairSpec
CONSTANTS
  Request = {r1, r2}
  ConnAttempts = 3
  BaseRetryDelay = 1
  MaxRetryDelay = 3
  Failures <- AnyFailure
INVARIANTS AppTypeOK PoolOutlivesWork CauseKept
PROPERTIES WorkStops FailedEnds ServerStops
CHECK_DEADLOCK FALSE
