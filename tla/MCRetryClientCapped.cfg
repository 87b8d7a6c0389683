CONSTANTS
  CfgAttempts = {0}
  BaseDelay = 1
  MaxDelay = 3
  Second = 1
  Half = 32
  Statuses <- MCStatuses
  RetryAfters <- MCHugeRetryAfters
SPECIFICATION Spec
INVARIANT RetryAfterCapped
