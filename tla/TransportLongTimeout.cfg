CONSTANTS
  none = none
  NoHeader = none
  NotText = none
  NaN = none
  ErrorBodies <- SampleErrorBodies
  Timeouts <- LongTimeout
  RetryAfters = {0, 2, 120}
  TimerMax = 100000
  MaxRetries = 3
  MaxRetryAfter = 60
  Jitters = {0, 999}
SPECIFICATION Spec
CHECK_DEADLOCK FALSE
INVARIANT TimeoutIsHonest
