CONSTANTS
  NoClaim = NoClaim
  NoTask = NoTask
  Proc = {p1, p2}
  Claim = {c, d}
  Task = {t1}
  Stale = 1
  Timeout = 1
  Lease = 3
  MaxNow = 2
  Commands <- MCClaims
SPECIFICATION Spec
SYMMETRY Symmetry
INVARIANTS OneGrantPerTask
CHECK_DEADLOCK FALSE
