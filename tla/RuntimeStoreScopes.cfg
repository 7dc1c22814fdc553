CONSTANTS
  NoToken = NoToken
  NoTarget = NoTarget
  Proc = {p1, p2}
  Token = {a, b}
  Target = {tgA, tgB}
  Path = {}
  Scope = {s1, s2}
  ScopeOf <- MCOwnScope
  ClaimTtls = {1}
  RenewTtl = 1
  MaxNow = 0
  Commands <- MCScopes
SPECIFICATION Spec
SYMMETRY SymmetryOwnScope
INVARIANT ScopeLocksCompatible
CHECK_DEADLOCK FALSE
