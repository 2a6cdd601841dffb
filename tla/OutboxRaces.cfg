SPECIFICATION Spec
CONSTANTS
  Drains <- TwoDrains
  Direct <- OneDirect
  Group <- OneGroup
  Invites <- TwoInvites
  Capped = TRUE
  Cap = 1
  MaxAttempts = 2
  MaxFaults = 0
  MaxCrashes = 1
  MaxTimeouts = 0
  NoDrain = NoDrain
  NoRow = NoRow
  d1 = d1
  d2 = d2
  m1 = m1
  g1 = g1
  i1 = i1
  i2 = i2
SYMMETRY Symmetry
INVARIANTS AcceptedOnce CapMargin
PROPERTY InviteIsCurrent
