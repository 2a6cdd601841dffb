SPECIFICATION LiveSpec
CONSTANTS
  Drains <- OneDrain
  Direct <- OneDirect
  Group <- Nothing
  Invites <- OneInvite
  Capped = TRUE
  Cap = 1
  MaxAttempts = 2
  MaxFaults = 3
  MaxCrashes = 0
  MaxTimeouts = 1
  NoDrain = NoDrain
  NoRow = NoRow
  d1 = d1
  d2 = d2
  m1 = m1
  g1 = g1
  i1 = i1
  i2 = i2
INVARIANT TypeOK
PROPERTY PendingIsSettled
