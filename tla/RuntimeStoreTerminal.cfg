CONSTANTS
  NoToken = NoToken
  NoTarget = NoTarget
  Proc = {p1, p2}
  Token = {a, b}
  Target = {tgA, tgB}
  Path = {f1}
  Scope = {s1}
  ScopeOf <- MCSharedScope
  ClaimTtls = {1}
  RenewTtl = 1
  MaxNow = 1
  Commands <- MCTerminal
SPECIFICATION Spec
SYMMETRY Symmetry
INVARIANT TerminalEntriesAreLast
CHECK_DEADLOCK FALSE
