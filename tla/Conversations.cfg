SPECIFICATION ConversationSpec
CONSTANTS
  b1 = b1
  b2 = b2
  d1 = d1
  d2 = d2
  j1 = j1
  j2 = j2
  ann = ann
  ben = ben
  cal = cal
  rec1 = rec1
  rec2 = rec2
  NoBot = NoBot
  Bridges = {b1, b2}
  Deliveries = {d1, d2}
  Chats <- ChatScenes
  Jobs = {j1, j2}
  MaxSeq = 5
  Window = 1
  Batch = 2
  Legacy = 3
  Threads <- ThreadScenes
  Bots = {ann, ben, cal}
  Recs = {rec1, rec2}
  MaxRuns = 5
  BOT_MESSAGE_MAX_HOPS = 2
  Teams <- TeamScenes
INVARIANTS ConversationTypeOK HistoryIsWhole OutcomeToldOnce
PROPERTIES  MessageSettles OutcomesAreTold
CHECK_DEADLOCK FALSE
