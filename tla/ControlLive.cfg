SPECIFICATION TeachFairSpec
CONSTANTS
  x = x
  y = y
  p = p
  q = q
  Bots = {x, y}
  Procs = {p, q}
  MaxLeases = 2
  Settings <- Alone
  NoBot = NoBot
  Teacher = x
  Skills = {s}
  NoSkill = NoSkill
PROPERTIES  DraftIsPosted
CHECK_DEADLOCK FALSE
