CONSTANTS
  NoToken = NoToken
  NoTarget = NoTarget
  Proc = {p1, p2}
  Token = {a, b}
  Target = {tgA, tgB}
  Path = {f1}
  Scope = {s1}
  ScopeOf <- MCSharedScope
  ClaimTtls = {1}
  RenewTtl = 1
  MaxNow = 1
  Commands <- MCOwnership
SPECIFICATION Spec
SYMMETRY Symmetry
INVARIANTS TypeOK NoOrphans OneClaimPerTarget LiveMeansRunning
PROPERTIES EndingIsLogged OnlyOwnerEndsActive ImplementsAuthority
CHECK_DEADLOCK FALSE
