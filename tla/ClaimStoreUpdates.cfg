CONSTANTS
  NoClaim = NoClaim
  NoTask = NoTask
  Proc = {p1, p2}
  Claim = {c, d}
  Task = {t1}
  Stale = 1
  Timeout = 1
  Lease = 1
  MaxNow = 2
  Commands <- MCUpdates
SPECIFICATION Spec
SYMMETRY Symmetry
INVARIANTS TypeOK UpdatesExclude GrantsAreRecorded OneOpenClaim UnreadableIsNoticed
CHECK_DEADLOCK FALSE
