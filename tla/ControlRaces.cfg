SPECIFICATION TeachSpec
CONSTANTS
  x = x
  y = y
  p = p
  q = q
  Bots = {x, y}
  Procs = {p, q}
  MaxLeases = 2
  Settings <- Races
  NoBot = NoBot
  Teacher = x
  Skills = {s}
  NoSkill = NoSkill
INVARIANTS TeachTypeOK
  
SYMMETRY Symmetry
CHECK_DEADLOCK FALSE
