---------------------------- MODULE MCBackground ----------------------------
(* What runs in the background, for TLC: the routines with the reconciler, *)
(* the cloud agents, the in-memory queue and the feed of a thread. They    *)
(* share no row, so that a behaviour lets one of them work and keeps the   *)
(* others at rest.                                                         *)
EXTENDS RoutineWakeups, CloudAgent, JobQueue, ThreadFeed, TLC
CONSTANTS w1, w2, n1, n2, n3, p1, p2, j1, j2, j3, j4, k1, t1, t2

-----------------------------------------------------------------------------
(* Routines *)
Scene(workers, recs, horizon, asks, failures, deaths) ==
  [once |-> FALSE, durable |-> TRUE, workers |-> workers, recs |-> recs, first |-> 1, horizon |-> horizon,
   asks |-> asks, failures |-> failures, deaths |-> deaths]
NoRoutine == Scene({}, {}, 0, {}, 0, 0)

(* Two workers fire one routine; one of them dies. *)
Doubled == Scene({w1, w2}, {w1}, 1, {}, 0, 1)
(* Two reconcilers; the leader dies or loses its session. *)
Elected == Scene({w1}, {w1, w2}, 1, {}, 0, 1)
(* The queue is in the memory of a worker that dies; a call of it fails. *)
InMemory == [Scene({w1}, {w1}, 2, {}, 1, 1) EXCEPT !.durable = FALSE, !.first = 2]
(* The user turns a routine off, edits it, removes it, makes a one-shot. *)
TurnedOff == Scene({w1}, {w1}, 1, {"off"}, 1, 0)
Edited == Scene({w1}, {w1}, 1, {"remove", "reschedule"}, 1, 0)
Once == [Scene({w1}, {w1}, 1, {"off", "rename"}, 1, 0) EXCEPT !.once = TRUE]
Created == [Scene({w1}, {w1}, 1, {"create", "off", "on"}, 0, 0) EXCEPT !.once = TRUE]
Scenes == {NoRoutine, Doubled, Elected, InMemory, TurnedOff, Edited, Once, Created}

-----------------------------------------------------------------------------
(* Cloud agents *)
Life(pollers, replies, stops, lapses, lost, dies) ==
  [launched |-> TRUE, pollers |-> pollers, gap |-> FALSE, replies |-> replies,
   cancels |-> stops, detaches |-> stops, lapses |-> lapses, lost |-> lost, dies |-> dies]
NoAgent == [Life({}, 0, FALSE, 0, 0, 0) EXCEPT !.launched = FALSE]
(* Two polls, one of which outlasts its lease; an answer is lost. *)
Polled == Life({p1, p2}, 1, FALSE, 1, 1, 0)
(* One poll at a time; requests are lost, it dies, the bot or the user stops it. *)
Broken == Life({p1}, 1, TRUE, 0, 1, 1)
(* Two polls of an agent that is stopped at once. *)
Dropped == Life({p1, p2}, 0, TRUE, 1, 0, 0)
(* A poll is overtaken between its read and its claim. *)
Overtaken == [Life({p1, p2}, 1, FALSE, 0, 1, 0) EXCEPT !.gap = TRUE]
Lives == {NoAgent, Polled, Broken, Dropped, Overtaken}

-----------------------------------------------------------------------------
(* The queue *)
Key == j1 :> k1 @@ j2 :> k1 @@ j3 :> NoKey @@ j4 :> k1
Process(jobs, started, overlap, stops, closes) ==
  [jobs |-> jobs, started |-> started, overlap |-> overlap, stops |-> stops, closes |-> closes]
NoQueue == Process({}, TRUE, FALSE, FALSE, FALSE)
Drained == Process({j1, j2, j3, j4}, TRUE, FALSE, TRUE, TRUE)
Overlapped == Process({j1, j2, j3}, TRUE, TRUE, FALSE, TRUE)
Unstarted == Process({j1, j2, j4}, FALSE, FALSE, TRUE, TRUE)
Qs == {NoQueue, Drained, Overlapped, Unstarted}

-----------------------------------------------------------------------------
(* The feed of a thread *)
Feed(messages, clears, refreshes, drops, cuts) ==
  [opened |-> TRUE, messages |-> messages, clears |-> clears, push |-> FALSE, 
   refreshes |-> refreshes, lost |-> 0, drops |-> drops, cuts |-> cuts]
NoFeed == [Feed(0, 0, 0, 0, 0) EXCEPT !.opened = FALSE]
(* Events are announced while the listener's connection ends or fails. *)
Pushed == [Feed(2, 0, 0, 1, 0) EXCEPT !.push = TRUE]
(* The stream or a request fails as well. *)
Cut == [Feed(1, 0, 0, 1, 1) EXCEPT !.push = TRUE]
(* Of a message and a clear one announcement is lost. *)
Unheard == [Feed(1, 1, 0, 0, 0) EXCEPT !.push = TRUE, !.lost = 1]
(* A process without a fanout: the client refreshes, requests fail. *)
PolledOnly == Feed(2, 1, 1, 0, 1)
Refreshed == Feed(2, 0, 1, 0, 2)
FeedScenes == {NoFeed, Pushed, Cut, Unheard, PolledOnly, Refreshed}

-----------------------------------------------------------------------------
(* The four type invariants. *)
BackgroundTypeOK == RoutineTypeOK /\ AgentTypeOK /\ QueueTypeOK /\ FeedTypeOK

BackgroundInit ==
  /\ RoutineInit /\ AgentInit /\ QueueInit /\ FeedInit
  /\ \/ life = NoAgent /\ qscene = NoQueue /\ feed = NoFeed
     \/ scene = NoRoutine /\ qscene = NoQueue /\ feed = NoFeed
     \/ scene = NoRoutine /\ life = NoAgent /\ feed = NoFeed
     \/ scene = NoRoutine /\ life = NoAgent /\ qscene = NoQueue

BackgroundNext ==
  \/ RoutineNext /\ UNCHANGED <<agentVars, queueVars, feedVars>>
  \/ AgentNext /\ UNCHANGED <<routineVars, queueVars, feedVars>>
  \/ QueueNext /\ UNCHANGED <<routineVars, agentVars, feedVars>>
  \/ FeedNext /\ UNCHANGED <<routineVars, agentVars, queueVars>>

backgroundVars == <<routineVars, agentVars, queueVars, feedVars>>
BackgroundSpec ==
  /\ BackgroundInit /\ [][BackgroundNext]_backgroundVars
  /\ RoutineFairness /\ AgentFairness /\ QueueFairness /\ FeedFairness
=============================================================================
