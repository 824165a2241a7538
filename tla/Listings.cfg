SPECIFICATION Spec
CONSTANTS
  MAX_PAGE_SIZE = 2
  PageCap = 2
  DefaultPage = 1
  MaxPages = 3
  Limits = {NoLimit, 1, 2, 3}
  NoLimit = NoLimit
  MaxRows = 8
CHECK_DEADLOCK FALSE
INVARIANTS
  TypeOK
  FindsWhatStays
  NotFoundIsAuthoritative
