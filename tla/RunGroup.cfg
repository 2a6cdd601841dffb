CONSTANTS
  r1 = r1
  r2 = r2
  w1 = w1
  w2 = w2
  api = api
  NoRun = NoRun
  NoOwner = NoOwner
  Runs = {r1}
  Workers = {w1, w2}
  Owners = {w1, w2, api}
  OwnerOf <- SharedProcess
  MaxSeq = 1
  ChannelSeqs = {}
  MaxFence = 2
  GroupThread = TRUE
SPECIFICATION FairSpec
CHECK_DEADLOCK FALSE
INVARIANTS
  TypeOK
  AttemptAvailable
PROPERTIES
  QueuedIsServed
