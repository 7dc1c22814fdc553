CONSTANTS
  NoToken = NoToken
  NoTask = NoTask
  Proc = {p1}
  Token = {a}
  Task = {t1}
  MaxNow = 0
SPECIFICATION Spec
PROPERTY HaltPausesByProfile
CHECK_DEADLOCK FALSE
