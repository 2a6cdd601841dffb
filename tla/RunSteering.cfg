CONSTANTS
  r1 = r1
  r2 = r2
  w1 = w1
  w2 = w2
  api = api
  NoRun = NoRun
  NoOwner = NoOwner
  Runs = {r1, r2}
  Workers = {w1}
  Owners = {w1, w2, api}
  OwnerOf <- OwnProcess
  MaxSeq = 2
  ChannelSeqs = {1}
  MaxFence = 2
  GroupThread = FALSE
SPECIFICATION Spec
CHECK_DEADLOCK FALSE
SYMMETRY RunSymmetry

  
PROPERTIES
  AnsweredWasSeen
  TerminalIsFinal
