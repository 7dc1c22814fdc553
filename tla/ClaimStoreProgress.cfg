CONSTANTS
  NoClaim = NoClaim
  NoTask = NoTask
  Proc = {p1, p2}
  Claim = {c, d}
  Task = {t1}
  Stale = 1
  Timeout = 1
  Lease = 1
  MaxNow = 3
  Commands <- MCClaims
SPECIFICATION FairSpec
PROPERTIES CallsEnd
CHECK_DEADLOCK FALSE
