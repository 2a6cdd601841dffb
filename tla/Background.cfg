SPECIFICATION BackgroundSpec
CONSTANTS
  w1 = w1
  w2 = w2
  n1 = n1
  n2 = n2
  n3 = n3
  p1 = p1
  p2 = p2
  j1 = j1
  j2 = j2
  j3 = j3
  j4 = j4
  k1 = k1
  NoWorker = NoWorker
  NoPoller = NoPoller
  NoKey = NoKey
  NoJob = NoJob
  Workers = {w1, w2}
  RunIds = {n1, n2, n3}
  Horizon = 2
  Routines <- Scenes
  Pollers = {p1, p2}
  MaxReplies = 2
  Agents <- Lives
  Jobs = {j1, j2, j3, j4}
  Keys = {k1}
  KeyOf <- Key
  Delayed = {j4}
  Queues <- Qs
  t1 = t1
  t2 = t2
  Writers = {t1, t2}
  EVENT_BATCH_SIZE = 1
  Feeds <- FeedScenes
INVARIANTS BackgroundTypeOK FiresAsAsked  ViewIsWhole
PROPERTIES DueBegins  AgentSettles QueueKeepsItsWord ViewConverges
CHECK_DEADLOCK FALSE
