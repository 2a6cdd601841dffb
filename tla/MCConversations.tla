--------------------------- MODULE MCConversations ---------------------------
(* What happens around the conversations, for TLC: one message of a team   *)
(* chat, the compaction of a thread's history, and messages between bots.  *)
(* They share no row, so that a behaviour lets one of them work and keeps  *)
(* the others at rest.                                                     *)
EXTENDS TeamChatBridge, HistoryCompaction, BotMessages, TLC
CONSTANTS b1, b2, d1, d2, j1, j2, ann, ben, cal, rec1, rec2

-----------------------------------------------------------------------------
(* Team chats. Delivery d1 arrives at bridge b1, d2 at b2. *)
Chat(ambient, wakes, deliveries, faults, crashes) ==
  [ambient |-> ambient, wakes |-> wakes, routine |-> BOOLEAN, home |-> d1 :> b1 @@ d2 :> b2,
   bridges |-> {b1, b2}, deliveries |-> deliveries, faults |-> faults, renewals |-> FALSE,
   stalls |-> FALSE, crashes |-> crashes]
NoChat == Chat(FALSE, FALSE, {}, 0, 0)

(* The webhook is delivered twice, and the message may wake a routine. *)
Redelivered == Chat(FALSE, TRUE, {d1, d2}, 0, 0)
(* A wake, a statement that fails and a process that dies. *)
WokenOnce == [Chat(FALSE, TRUE, {d1}, 1, 1) EXCEPT !.routine = {TRUE}]
(* The judge decides, or a routine. *)
Judged == Chat(TRUE, TRUE, {d1}, 1, 0)
(* No routine: the bot answers, by one process that fails and dies, or by  *)
(* one of two of which one may die.                                        *)
Answered == [Chat(FALSE, FALSE, {d1}, 1, 1) EXCEPT !.bridges = {b1}]
Overheard == Chat(TRUE, FALSE, {d1}, 0, 1)
(* The renewal of a reservation may be what fails. *)
Renewed == [Chat(FALSE, TRUE, {d1}, 1, 0) EXCEPT !.routine = {TRUE}, !.renewals = TRUE]
(* A handler that outlasts its reservation. *)
Stalled == [Chat(FALSE, TRUE, {d1}, 1, 0) EXCEPT !.stalls = TRUE]
ChatScenes == {NoChat, Redelivered, WokenOnce, Judged, Answered, Overheard, Renewed, Stalled}

-----------------------------------------------------------------------------
(* Histories *)
Thread(next, cursor, first, jobs, clears, faults) ==
  [next |-> next, cursor |-> cursor, since |-> first, jobs |-> jobs, memory |-> TRUE,
   recalls |-> FALSE, clears |-> clears, faults |-> faults]
NoThread == Thread(MaxSeq, NOTHING_COMPACTED, 0, {}, 0, 0)
(* Two jobs at once and a clear. *)
Fresh == Thread(2, NOTHING_COMPACTED, 0, {j1, j2}, 1, 0)
(* Threads of before the local summaries, one of them cleared then. *)
Old == Thread(2, 0, 0, {j1, j2}, 2, 0)
OldCleared == Thread(3, 1, 1, {j1, j2}, 1, 1)
(* A job at a time, two clears and a fault. *)
Failing == Thread(2, NOTHING_COMPACTED, 0, {j1}, 2, 1)
(* The memory recalls something. *)
Recalled == [OldCleared EXCEPT !.recalls = TRUE, !.jobs = {j1}]
ThreadScenes == {NoThread, Fresh, Old, OldCleared, Failing, Recalled}

-----------------------------------------------------------------------------
(* Bots: who may be written to, the messages they send, the reconcilers. *)
Team(bots, sends, recs) ==
  [bots |-> bots, asks |-> {ann}, sends |-> sends, recs |-> recs, intents |-> {"request", "result"},
   texts |-> BOOLEAN, archives |-> {}, stops |-> FALSE, setbacks |-> 0]
NoTeam == [Team({}, 0, {}) EXCEPT !.asks = {}]
(* A request; its run is stopped, or telling its outcome fails. *)
Stopped == [Team({ann, ben}, 1, {rec1}) EXCEPT !.stops = TRUE, !.setbacks = 1]
TwoRecs == [Team({ann, ben}, 1, {rec1, rec2}) EXCEPT !.setbacks = 1]
(* ben passes the request on, and is archived: cal cannot tell it anything. *)
PassedOn == [Team({ben, cal}, 2, {rec1}) EXCEPT !.intents = {"request"}, !.texts = {FALSE}, !.archives = {ben}]
Gone == [Team({ann, ben}, 1, {rec1}) EXCEPT !.archives = {ben}]
(* ben may send a result itself; only the executor tells, or the reconciler. *)
ByExecutor == [Team({ann, ben}, 2, {}) EXCEPT !.texts = {TRUE}]
ByReconciler == [Team({ann, ben}, 2, {rec1}) EXCEPT !.texts = {FALSE}]
TeamScenes == {NoTeam, Stopped, TwoRecs, PassedOn, Gone, ByExecutor, ByReconciler}

-----------------------------------------------------------------------------
(* The three type invariants. *)
ConversationTypeOK == ChatTypeOK /\ HistoryTypeOK /\ TeamTypeOK

ConversationInit ==
  /\ ChatInit /\ HistoryInit /\ TeamInit
  /\ \/ history = NoThread /\ team = NoTeam
     \/ chat = NoChat /\ team = NoTeam
     \/ chat = NoChat /\ history = NoThread

ConversationNext ==
  \/ ChatNext /\ UNCHANGED historyVars /\ UNCHANGED teamVars
  \/ HistoryNext /\ UNCHANGED chatVars /\ UNCHANGED teamVars
  \/ TeamNext /\ UNCHANGED chatVars /\ UNCHANGED historyVars

conversationVars == <<chatVars, historyVars, teamVars>>
ConversationSpec ==
  /\ ConversationInit /\ [][ConversationNext]_conversationVars
  /\ ChatFairness /\ HistoryFairness /\ TeamFairness
=============================================================================
