------------------------------ MODULE JobQueue ------------------------------
(***************************************************************************)
(* The in-memory job queue of a process: keyed and delayed jobs on timers, *)
(* their replacement and cancellation, and the drain of stop and close,    *)
(* during which running handlers go on enqueueing. An action is what the   *)
(* process does between two awaits.                                        *)
(*   packages/adapters/src/wakeup.ts (InMemoryJobQueue)                    *)
(***************************************************************************)
EXTENDS Naturals, FiniteSets

CONSTANTS
  Jobs,      \* calls of enqueue, each with the job it brings
  Keys,
  KeyOf,     \* the replaceKey of a job, or NoKey
  Delayed,   \* jobs with an availableAt that has not come
  Queues,    \* what the process may do, see QueueAssumption
  NoKey, NoJob

ASSUME QueueAssumption ==
  /\ KeyOf \in [Jobs -> Keys \cup {NoKey}] /\ NoKey \notin Keys /\ NoJob \notin Jobs
  /\ Delayed \subseteq Jobs
  /\ Queues \subseteq
       [jobs : SUBSET Jobs,
        started : BOOLEAN,  \* the handlers are there from the start
        overlap : BOOLEAN,  \* two calls for one key may be in progress at once
        stops : BOOLEAN,    \* the process starts and stops the queue
        closes : BOOLEAN]

VARIABLES
  qscene,   \* which of the queues this is
  queue,    \* timers, the timer of each key, running jobs, closingJobs and the flags
  enq,      \* each job's call of enqueue, and what has become of the job
  drain     \* performDrain: how far it is, and the jobs it waits for

queueVars == <<qscene, queue, enq, drain>>

QueueTypeOK ==
  /\ queue.timers \subseteq Jobs /\ queue.active \subseteq Jobs /\ queue.held \subseteq Jobs
  /\ queue.keyed \in [Keys -> Jobs \cup {NoJob}]
  /\ \A f \in {"handlers", "closed", "stopped", "closing", "accepting", "closeRequested"} :
       queue[f] \in BOOLEAN
  /\ enq \in [Jobs -> {"none", "cancelled", "accepted", "refused", "discarded", "replaced",
                        "lost", "runs", "ran"}]
  /\ drain.pc \in {"idle", "first", "second"} /\ drain.waits \subseteq Jobs

QueueInit ==
  /\ qscene \in Queues
  /\ queue = [timers |-> {}, keyed |-> [k \in Keys |-> NoJob], active |-> {}, held |-> {},
              handlers |-> qscene.started, closed |-> FALSE, stopped |-> FALSE, closing |-> FALSE,
              accepting |-> FALSE, closeRequested |-> FALSE]
  /\ enq = [j \in Jobs |-> "none"]
  /\ drain = [pc |-> "idle", waits |-> {}]

(* What cancel(key) removes: one job held for the close, and the timer the *)
(* key has now.                                                            *)
HeldOf(k) == {j \in queue.held : KeyOf[j] = k}
TimerOf(k) == {queue.keyed[k]} \ {NoJob}
(* Mutant: the timer is forgotten but not cleared. *)
WithoutClear(q, k) == [q EXCEPT !.held = @ \ HeldOf(k), !.keyed[k] = NoJob]
Without(q, k) == [q EXCEPT !.held = @ \ HeldOf(k), !.timers = @ \ TimerOf(k), !.keyed[k] = NoJob]
Replaced(k) == HeldOf(k) \cup TimerOf(k)

Kept(js) == js \ Delayed

(* enqueueWhileClosing: a later job of the key takes the place of the held *)
(* one even if it is then discarded itself.                                *)
Holds(j) ==
  LET held == IF KeyOf[j] = NoKey THEN {} ELSE HeldOf(KeyOf[j])
      fate == IF j \notin Kept({j}) THEN "discarded"
              ELSE IF queue.accepting THEN "accepted" ELSE "refused" IN
  /\ queue' = [queue EXCEPT !.held = (@ \ held) \cup (IF fate = "accepted" THEN {j} ELSE {})]
  /\ enq' = [i \in Jobs |-> IF i = j THEN fate ELSE IF i \in held THEN "replaced" ELSE enq[i]]

SetsTimer(j) ==
  /\ queue' = [queue EXCEPT !.timers = @ \cup {j},
       !.keyed = IF KeyOf[j] = NoKey THEN @ ELSE [@ EXCEPT ![KeyOf[j]] = j]]
  /\ enq' = [enq EXCEPT ![j] = "accepted"]

enqueue(j) ==
  LET k == KeyOf[j] IN
  /\ enq[j] = "none" /\ j \in qscene.jobs
  /\ ~qscene.overlap => ~\E i \in Jobs : enq[i] = "cancelled" /\ KeyOf[i] = k
  /\ CASE queue.closed \/ queue.stopped ->
            enq' = [enq EXCEPT ![j] = "refused"] /\ UNCHANGED queue
       [] ~queue.closed /\ ~queue.stopped /\ queue.closing -> Holds(j)
       [] OTHER -> IF k = NoKey THEN SetsTimer(j)
                   ELSE /\ queue' = Without(queue, k)
                        /\ enq' = [i \in Jobs |-> IF i = j THEN "cancelled"
                                     ELSE IF i \in Replaced(k) THEN "replaced" ELSE enq[i]]
  /\ UNCHANGED <<qscene, drain>>

Reopen == ~queue.closed /\ ~queue.stopped

(* After the await of cancel. *)
enqueueResumes(j) ==
  /\ enq[j] = "cancelled"
  /\ CASE ~Reopen -> enq' = [enq EXCEPT ![j] = "refused"] /\ UNCHANGED queue
       [] Reopen /\ queue.closing -> Holds(j)
       [] OTHER -> SetsTimer(j)
  /\ UNCHANGED <<qscene, drain>>

cancel(k) ==
  /\ \E j \in qscene.jobs : KeyOf[j] = k
  /\ Replaced(k) # {}
  /\ queue' = Without(queue, k)
  /\ enq' = [i \in Jobs |-> IF i \in Replaced(k) THEN "replaced" ELSE enq[i]]
  /\ UNCHANGED <<qscene, drain>>

timerFires(j) ==
  /\ j \in queue.timers
  /\ queue' = [queue EXCEPT !.timers = @ \ {j},
       !.keyed = [k \in Keys |-> IF @[k] = j THEN NoJob ELSE @[k]],
       !.active = IF queue.handlers THEN @ \cup {j} ELSE @]
  /\ enq' = [enq EXCEPT ![j] = IF queue.handlers THEN "runs" ELSE "lost"]
  /\ UNCHANGED <<qscene, drain>>

(* Its error, if it has one, is swallowed. *)
handlerEnds(j) ==
  /\ j \in queue.active
  /\ queue' = [queue EXCEPT !.active = @ \ {j}]
  /\ enq' = [enq EXCEPT ![j] = "ran"]
  /\ UNCHANGED <<qscene, drain>>

start ==
  /\ qscene.stops
  /\ queue' = [queue EXCEPT !.handlers = TRUE, !.stopped = FALSE]
  /\ UNCHANGED <<qscene, enq, drain>>

(* performDrain: every timer goes, an immediate job is held. A stop or a   *)
(* close during it waits for its end.                                      *)
Drains(q) ==
  /\ queue' = [q EXCEPT !.closing = TRUE, !.accepting = TRUE, !.timers = {},
                        !.keyed = [k \in Keys |-> NoJob], !.held = @ \cup Kept(q.timers)]
  /\ enq' = [j \in Jobs |-> IF j \in q.timers \ Kept(q.timers) THEN "discarded" ELSE enq[j]]
  /\ drain' = [pc |-> "first", waits |-> q.active]

stop ==
  /\ qscene.stops
  /\ drain.pc = "idle" /\ Drains(queue)
  /\ UNCHANGED qscene

close ==
  /\ qscene.closes /\ ~queue.closed /\ ~queue.closeRequested
  /\ IF drain.pc = "idle" THEN Drains([queue EXCEPT !.closeRequested = TRUE])
     ELSE queue' = [queue EXCEPT !.closeRequested = TRUE] /\ UNCHANGED <<enq, drain>>
  /\ UNCHANGED qscene

(* Mutant: what is held is not run. *)
DispatchedNone == {}
Dispatched == queue.held

drainDispatches ==
  /\ drain.pc = "first" /\ drain.waits \cap queue.active = {}
  /\ IF queue.handlers \/ queue.held = {}
     THEN /\ queue' = [queue EXCEPT !.accepting = FALSE, !.held = {}, !.active = @ \cup Dispatched]
          /\ enq' = [j \in Jobs |-> IF j \in queue.held THEN "runs" ELSE enq[j]]
          /\ drain' = [pc |-> "second", waits |-> queue'.active]
     ELSE /\ queue' = [queue EXCEPT !.accepting = FALSE, !.held = {}]
          /\ enq' = [j \in Jobs |-> IF j \in queue.held THEN "lost" ELSE enq[j]]
          /\ drain' = [pc |-> "idle", waits |-> {}]
  /\ UNCHANGED qscene

drainEnds ==
  /\ drain.pc = "second" /\ drain.waits \cap queue.active = {}
  /\ queue' = [queue EXCEPT !.handlers = FALSE, !.closing = FALSE,
                            !.closed = queue.closeRequested, !.stopped = ~queue.closeRequested]
  /\ drain' = [pc |-> "idle", waits |-> {}]
  /\ UNCHANGED <<qscene, enq>>

-----------------------------------------------------------------------------
QueueNext ==
  \/ \E j \in Jobs : enqueue(j) \/ enqueueResumes(j) \/ timerFires(j) \/ handlerEnds(j)
  \/ \E k \in Keys : cancel(k)
  \/ start \/ stop \/ close \/ drainDispatches \/ drainEnds

QueueSpec == QueueInit /\ [][QueueNext]_queueVars

(* The event loop turns, and handlers end. *)
QueueFairness ==
  /\ WF_queueVars(\E j \in Jobs : enqueueResumes(j) \/ timerFires(j) \/ handlerEnds(j))
  /\ WF_queueVars(drainDispatches \/ drainEnds)

-----------------------------------------------------------------------------
(* Properties *)

(* A closed queue is quiet: nothing runs, waits or will be set by a call   *)
(* that was in progress ("rejects a keyed enqueue that resumes after       *)
(* close", wakeup.test.ts). Before that a key has one job that waits, on a *)
(* timer or for the close, and it is the one that cancel(key) finds. (Two  *)
(* calls of enqueue for one key in the same turn of the event loop both    *)
(* set a timer: README, Disagreements.)                                    *)
Waiting == queue.timers \cup queue.held
ClosedIsQuiet ==
  /\ queue.closed \/ queue.stopped => Waiting \cup queue.active = {}
  /\ ~qscene.overlap => \A j \in Waiting : KeyOf[j] # NoKey => Replaced(KeyOf[j]) = {j}

(* An immediate job that was accepted is run to its end, before or during  *)
(* the drain, or replaced by a later one of its key; none is dropped       *)
(* because its timer or the drain found no handlers. (One that comes       *)
(* before the first start is: README, Disagreements.)                      *)
Pending(j) == enq[j] \in {"accepted", "runs", "lost"}
AcceptedRuns ==
  qscene.started =>
    ((\E j \in Jobs \ Delayed : Pending(j)) ~> (\A j \in Jobs \ Delayed : ~Pending(j)))

(* What the queue accepted is run, and what it closed stays quiet.         *)
QueueKeepsItsWord == []ClosedIsQuiet /\ AcceptedRuns
=============================================================================
