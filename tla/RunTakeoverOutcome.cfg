CONSTANTS
  r1 = r1
  r2 = r2
  w1 = w1
  w2 = w2
  api = api
  NoRun = NoRun
  NoOwner = NoOwner
  Runs = {r1}
  Workers = {w1, w2}
  Owners = {w1, w2, api}
  OwnerOf <- OwnProcess
  MaxSeq = 1
  ChannelSeqs = {}
  MaxFence = 3
  GroupThread = FALSE
SPECIFICATION Spec
CHECK_DEADLOCK FALSE
SYMMETRY RunSymmetry
PROPERTIES
  OutcomeDelivered
