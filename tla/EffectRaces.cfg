SPECIFICATION LiveSpec
CONSTANTS
  e1 = e1
  e2 = e2
  k1 = k1
  k2 = k2
  c1 = c1
  c2 = c2
  Effects = {e1, e2}
  Tools = {k1, k2}
  ToolOf <- Tool
  Slots = {c1, c2}
  MaxTurns = 3
  Settings <- Races
  NoEffect = NoEffect
INVARIANTS TypeOK AskIsAnswerable
PROPERTY KeepsPromise 
CHECK_DEADLOCK FALSE
