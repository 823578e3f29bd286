SPECIFICATION FairSpec
CONSTANTS
  Request = {r1}
  ConnAttempts = 1
  BaseRetryDelay = 1
  MaxRetryDelay = 1
  Failures <- NoFailure
PROPERTIES SignalEnds
CHECK_DEADLOCK FALSE
