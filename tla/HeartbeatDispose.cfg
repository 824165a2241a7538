CONSTANTS
  s1 = s1
  s2 = s2
  nan = nan
  null = null
  NotANumber = nan
  NoDuration = null
  Starts = {s1}
  Requests <- AllRequests
  MinInterval = 1000
  MaxInterval = 4000
  DefaultWindow = 3000
  DefaultDivisor = 3
  MaxLatency = 500
  MaxLost = 2
  MaxAge = 4000
SPECIFICATION Spec
INVARIANT DisposeIsFinal
