CONSTANTS
  NoToken = NoToken
  NoTask = NoTask
  Proc = {p1, p2}
  Token = {a, b, c}
  Task = {t1}
  MaxNow = 1
SPECIFICATION Spec
SYMMETRY Symmetry
INVARIANTS TypeOK NoTaskStranded NoClaimLeftBehind
PROPERTIES StatusFollowsProfile RecoveryMakesClaimable ImplementsAuthority
CHECK_DEADLOCK FALSE
