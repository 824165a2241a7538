CONSTANTS
  none = none
  NoHeader = none
  NotText = none
  NaN = none
  ErrorBodies <- SampleErrorBodies
  Timeouts <- UsualTimeouts
  RetryAfters = {0, 2, 120}
  TimerMax = 100000
  MaxRetries = 3
  MaxRetryAfter = 60
  Jitters = {0, 999}
SPECIFICATION FairSpec
CHECK_DEADLOCK FALSE
INVARIANTS
  TypeOK
  ExecutedAtMostOnce
  CallBounded
  TimeoutIsHonest
  AnswersSurface
  ErrorsKeepTheirCode
PROPERTIES
  RetryAfterHonoured
  Settles
  ImplementsRemoteCall
