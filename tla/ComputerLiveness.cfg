SPECIFICATION LiveSpec
CONSTANTS
  a = a
  b = b
  c = c
  x = x
  y = y
  r1 = r1
  r2 = r2
  s = s
  k = k
  Procs = {a, b, c}
  Ids = {a, b, c}
  Bots = {x, y}
  Refs = {r1, r2}
  Sleepers = {s}
  Stoppers = {k}
  StopBot = x
  Settings <- Alone
  NoRef = NoRef
  NoProc = NoProc
PROPERTY BootIsReclaimed
CHECK_DEADLOCK FALSE
