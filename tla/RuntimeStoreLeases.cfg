CONSTANTS
  NoToken = NoToken
  NoTarget = NoTarget
  Proc = {p1, p2}
  Token = {a, b}
  Target = {tgA, tgB}
  Path = {}
  Scope = {s1}
  ScopeOf <- MCSharedScope
  ClaimTtls = {1}
  RenewTtl = 2
  MaxNow = 1
  Commands <- MCLeases
SPECIFICATION Spec
SYMMETRY Symmetry
INVARIANTS PolicyLocksCompatible
CHECK_DEADLOCK FALSE
