--------------------------- MODULE BackgroundProofs ---------------------------
(***************************************************************************)
(* The background work, for any number of jobs, workers, runs and calls.   *)
(* The job queue: a closed queue is quiet and a key has one job that       *)
(* waits. The invariant says what the flags of the drain mean for the      *)
(* jobs, and that a call of enqueue which has cancelled and not resumed is *)
(* the only one that may put a job of its key back. A routine: without     *)
(* edits and failures its row has gone past whatever was fired, and where  *)
(* it is off neither the row nor the request in progress has a date or a   *)
(* state to give back. The cloud agents: what a poll may write, from the   *)
(* row that it has read, is what the provider's agent is; so a follow-up   *)
(* is sent once and an agent that is over is over. A thread that is open   *)
(* in a client: a snapshot is one state of the thread, and what lies       *)
(* between it and the client's place in the stream is in hand.             *)
(***************************************************************************)
EXTENDS MCBackground, FiniteSetTheorems, WellFoundedInduction, TLAPS

-----------------------------------------------------------------------------
(* The inductive invariant *)

Fates == {"none", "cancelled", "accepted", "refused", "discarded", "replaced", "lost", "runs",
          "ran"}
QueueState ==
  [timers : SUBSET Jobs, keyed : [Keys -> Jobs \cup {NoJob}], active : SUBSET Jobs,
   held : SUBSET Jobs, handlers : BOOLEAN, closed : BOOLEAN, stopped : BOOLEAN,
   closing : BOOLEAN, accepting : BOOLEAN, closeRequested : BOOLEAN]
QueueTyped ==
  /\ qscene \in Queues /\ queue \in QueueState /\ enq \in [Jobs -> Fates]
  /\ drain \in [pc : {"idle", "first", "second"}, waits : SUBSET Jobs]

(* What the flags say of the jobs. *)
ShutIsEmpty ==
  queue.closed \/ queue.stopped => queue.timers = {} /\ queue.held = {} /\ queue.active = {}
ClosingHasNoTimer == queue.closing => queue.timers = {}
HeldIsAccepted == queue.held # {} => queue.accepting
AcceptingIsFirst == queue.accepting => drain.pc = "first"
DrainWaitsForAll == drain.pc # "idle" => queue.closing /\ queue.active \subseteq drain.waits

(* The map of the keys leads to timers, each of its own key. *)
KeyedIsSet ==
  \A k \in Keys : queue.keyed[k] # NoJob => queue.keyed[k] \in queue.timers /\ KeyOf[queue.keyed[k]] = k

(* With one call per key in progress: no timer is out of cancel's reach,   *)
(* the held jobs have different keys, and between a call's cancel and its  *)
(* set nothing of its key waits.                                           *)
TimersAreKeyed == \A j \in queue.timers : KeyOf[j] # NoKey => queue.keyed[KeyOf[j]] = j
HeldIsSingle == \A i, j \in queue.held : KeyOf[i] = KeyOf[j] /\ KeyOf[i] # NoKey => i = j
CancelledIsAlone ==
  \A i \in Jobs : enq[i] = "cancelled" =>
    /\ KeyOf[i] # NoKey
    /\ \A j \in Waiting : KeyOf[j] # KeyOf[i]
    /\ \A j \in Jobs : enq[j] = "cancelled" /\ KeyOf[j] = KeyOf[i] => i = j
Orderly == TimersAreKeyed /\ HeldIsSingle /\ CancelledIsAlone

QueueInv ==
  /\ QueueTyped /\ ShutIsEmpty /\ ClosingHasNoTimer /\ HeldIsAccepted /\ AcceptingIsFirst
  /\ DrainWaitsForAll /\ KeyedIsSet
  /\ ~qscene.overlap => Orderly

-----------------------------------------------------------------------------
(* What the steps do, field by field *)

(* A refused call changes what is known of its job and nothing else. *)
Refuses(j) == enq' = [enq EXCEPT ![j] = "refused"] /\ UNCHANGED queue

LEMMA EnqueueCases ==
  ASSUME NEW j \in Jobs, enqueue(j)
  PROVE  /\ enq[j] = "none"
         /\ ~qscene.overlap => \A i \in Jobs : enq[i] = "cancelled" => KeyOf[i] # KeyOf[j]
         /\ qscene' = qscene /\ drain' = drain
         /\ \/ Refuses(j)
            \/ Reopen /\ queue.closing /\ Holds(j)
            \/ Reopen /\ ~queue.closing /\ KeyOf[j] = NoKey /\ SetsTimer(j)
            \/ /\ Reopen /\ ~queue.closing /\ KeyOf[j] # NoKey
               /\ queue' = Without(queue, KeyOf[j])
               /\ enq' = [i \in Jobs |-> IF i = j THEN "cancelled"
                            ELSE IF i \in Replaced(KeyOf[j]) THEN "replaced" ELSE enq[i]]
<1>1. CASE queue.closed \/ queue.stopped
  BY <1>1, Zenon DEF enqueue, Refuses
<1>2. CASE ~queue.closed /\ ~queue.stopped /\ queue.closing
  BY <1>2, Zenon DEF enqueue, Reopen
<1>3. CASE ~queue.closed /\ ~queue.stopped /\ ~queue.closing
  BY <1>3, Zenon DEF enqueue, Reopen
<1> QED BY <1>1, <1>2, <1>3

LEMMA ResumesCases ==
  ASSUME NEW j \in Jobs, enqueueResumes(j)
  PROVE  /\ enq[j] = "cancelled"
         /\ qscene' = qscene /\ drain' = drain
         /\ \/ Refuses(j)
            \/ Reopen /\ queue.closing /\ Holds(j)
            \/ Reopen /\ ~queue.closing /\ SetsTimer(j)
<1>1. CASE ~Reopen
  BY <1>1, Zenon DEF enqueueResumes, Refuses
<1>2. CASE Reopen /\ queue.closing
  BY <1>2, Zenon DEF enqueueResumes
<1>3. CASE Reopen /\ ~queue.closing
  BY <1>3, Zenon DEF enqueueResumes
<1> QED BY <1>1, <1>2, <1>3

LEMMA HoldsDoes ==
  ASSUME QueueTyped, NEW j \in Jobs, Holds(j)
  PROVE  /\ queue' \in QueueState /\ enq' \in [Jobs -> Fates]
         /\ queue'.timers = queue.timers /\ queue'.keyed = queue.keyed
         /\ queue'.active = queue.active /\ queue'.closed = queue.closed
         /\ queue'.stopped = queue.stopped /\ queue'.closing = queue.closing
         /\ queue'.accepting = queue.accepting
         /\ queue'.held \subseteq queue.held \cup {j}
         /\ j \in queue'.held => queue.accepting \/ j \in queue.held
         /\ j \in queue'.held /\ KeyOf[j] # NoKey =>
              \A i \in queue'.held : KeyOf[i] = KeyOf[j] => i = j
         /\ \A i \in Jobs : enq'[i] = "cancelled" => enq[i] = "cancelled" /\ i # j
<1> DEFINE held == IF KeyOf[j] = NoKey THEN {} ELSE HeldOf(KeyOf[j])
           fate == IF j \notin Kept({j}) THEN "discarded"
                   ELSE IF queue.accepting THEN "accepted" ELSE "refused"
           new == (queue.held \ held) \cup (IF fate = "accepted" THEN {j} ELSE {})
<1>1. queue' = [queue EXCEPT !.held = new]
  BY DEF Holds
<1>2. enq' = [i \in Jobs |-> IF i = j THEN fate ELSE IF i \in held THEN "replaced" ELSE enq[i]]
  BY DEF Holds
<1>3. fate \in {"discarded", "accepted", "refused"} /\ (fate = "accepted" => queue.accepting)
  OBVIOUS
<1>4. new \subseteq queue.held \cup {j}
  OBVIOUS
<1>5. KeyOf[j] # NoKey => \A i \in new : KeyOf[i] = KeyOf[j] => i = j
  BY DEF HeldOf
<1>6. j \in new => queue.accepting \/ j \in queue.held
  OBVIOUS
<1>7. queue.held \subseteq Jobs
  BY DEF QueueTyped, QueueState
<1> HIDE DEF new, fate, held
<1>8. new \in SUBSET Jobs
  BY <1>4, <1>7
<1>9. queue' \in QueueState /\ queue'.held = new
  BY <1>1, <1>8 DEF QueueTyped, QueueState
<1>10. /\ queue'.timers = queue.timers /\ queue'.keyed = queue.keyed
       /\ queue'.active = queue.active /\ queue'.closed = queue.closed
       /\ queue'.stopped = queue.stopped /\ queue'.closing = queue.closing
       /\ queue'.accepting = queue.accepting
  BY <1>1 DEF QueueTyped, QueueState
<1>11. enq' \in [Jobs -> Fates]
  BY <1>2, <1>3 DEF QueueTyped, Fates
<1>12. \A i \in Jobs : enq'[i] = "cancelled" => enq[i] = "cancelled" /\ i # j
  BY <1>2, <1>3
<1> QED BY <1>4, <1>5, <1>6, <1>9, <1>10, <1>11, <1>12

LEMMA SetsTimerDoes ==
  ASSUME QueueTyped, NEW j \in Jobs, SetsTimer(j)
  PROVE  /\ queue' \in QueueState /\ enq' \in [Jobs -> Fates]
         /\ queue'.timers = queue.timers \cup {j}
         /\ queue'.keyed \in [Keys -> Jobs \cup {NoJob}]
         /\ \A k \in Keys : queue'.keyed[k] = IF k = KeyOf[j] THEN j ELSE queue.keyed[k]
         /\ queue'.active = queue.active /\ queue'.closed = queue.closed
         /\ queue'.held = queue.held
         /\ queue'.stopped = queue.stopped /\ queue'.closing = queue.closing
         /\ queue'.accepting = queue.accepting
         /\ \A i \in Jobs : enq'[i] = "cancelled" => enq[i] = "cancelled" /\ i # j
<1> DEFINE new == IF KeyOf[j] = NoKey THEN queue.keyed ELSE [queue.keyed EXCEPT ![KeyOf[j]] = j]
           more == queue.timers \cup {j}
<1>1. queue' = [queue EXCEPT !.timers = more, !.keyed = new]
  BY DEF SetsTimer
<1>2. enq' = [enq EXCEPT ![j] = "accepted"]
  BY DEF SetsTimer
<1>3. queue.keyed \in [Keys -> Jobs \cup {NoJob}] /\ more \in SUBSET Jobs
  BY DEF QueueTyped, QueueState
<1>4. /\ new \in [Keys -> Jobs \cup {NoJob}]
      /\ \A k \in Keys : new[k] = IF k = KeyOf[j] THEN j ELSE queue.keyed[k]
  BY <1>3, QueueAssumption
<1> HIDE DEF new, more
<1>5. queue' \in QueueState /\ queue'.timers = more /\ queue'.keyed = new
  BY <1>1, <1>3, <1>4 DEF QueueTyped, QueueState
<1>6. /\ queue'.active = queue.active /\ queue'.closed = queue.closed
      /\ queue'.held = queue.held
      /\ queue'.stopped = queue.stopped /\ queue'.closing = queue.closing
      /\ queue'.accepting = queue.accepting
  BY <1>1 DEF QueueTyped, QueueState
<1>7. enq' \in [Jobs -> Fates] /\ \A i \in Jobs : enq'[i] = "cancelled" => enq[i] = "cancelled" /\ i # j
  BY <1>2 DEF QueueTyped, Fates
<1> QED BY <1>4, <1>5, <1>6, <1>7 DEF more

LEMMA WithoutDoes ==
  ASSUME QueueTyped, KeyedIsSet, NEW k \in Keys, queue' = Without(queue, k)
  PROVE  /\ queue' \in QueueState
         /\ queue'.timers = queue.timers \ TimerOf(k)
         /\ queue'.held = queue.held \ HeldOf(k)
         /\ \A l \in Keys : queue'.keyed[l] = IF l = k THEN NoJob ELSE queue.keyed[l]
         /\ queue'.active = queue.active /\ queue'.closed = queue.closed
         /\ queue'.stopped = queue.stopped /\ queue'.closing = queue.closing
         /\ queue'.accepting = queue.accepting
<1> DEFINE new == [queue.keyed EXCEPT ![k] = NoJob]
           less == queue.timers \ TimerOf(k)
           free == queue.held \ HeldOf(k)
<1>1. queue' = [queue EXCEPT !.held = free, !.timers = less, !.keyed = new]
  BY DEF Without
<1>2. /\ new \in [Keys -> Jobs \cup {NoJob}] /\ less \in SUBSET Jobs /\ free \in SUBSET Jobs
      /\ \A l \in Keys : new[l] = IF l = k THEN NoJob ELSE queue.keyed[l]
  BY DEF QueueTyped, QueueState
<1> HIDE DEF new, less, free
<1>3. queue' \in QueueState /\ queue'.timers = less /\ queue'.keyed = new /\ queue'.held = free
  BY <1>1, <1>2 DEF QueueTyped, QueueState
<1>4. /\ queue'.active = queue.active /\ queue'.closed = queue.closed
      /\ queue'.stopped = queue.stopped /\ queue'.closing = queue.closing
      /\ queue'.accepting = queue.accepting
  BY <1>1 DEF QueueTyped, QueueState
<1> QED BY <1>2, <1>3, <1>4 DEF less, free

-----------------------------------------------------------------------------
(* Every step keeps the invariant *)

(* No call of this key has cancelled, and none of its jobs waits, except   *)
(* for this call and this job.                                             *)
OwnsTheKey(j) == \A i \in Jobs : enq[i] = "cancelled" /\ i # j => KeyOf[i] # KeyOf[j]
HasTheKeyFree(j) == KeyOf[j] # NoKey => \A i \in Waiting : KeyOf[i] # KeyOf[j]

LEMMA RefusesKeeps ==
  ASSUME QueueInv, NEW j \in Jobs, Refuses(j), UNCHANGED <<qscene, drain>>
  PROVE  QueueInv'
<1>1. QueueTyped'
  BY DEF QueueInv, QueueTyped, Refuses, Fates
<1>2. \A i \in Jobs : enq'[i] = "cancelled" => enq[i] = "cancelled"
  BY DEF QueueInv, QueueTyped, Refuses
<1>3. queue' = queue /\ qscene' = qscene /\ drain' = drain
  BY DEF Refuses
<1>4. (ShutIsEmpty /\ ClosingHasNoTimer /\ HeldIsAccepted /\ AcceptingIsFirst /\ DrainWaitsForAll
       /\ KeyedIsSet)'
  BY <1>3 DEF QueueInv, ShutIsEmpty, ClosingHasNoTimer, HeldIsAccepted, AcceptingIsFirst,
              DrainWaitsForAll, KeyedIsSet
<1>5. ~qscene'.overlap => Orderly'
  BY <1>2, <1>3 DEF QueueInv, Orderly, TimersAreKeyed, HeldIsSingle, CancelledIsAlone, Waiting
<1> QED BY <1>1, <1>4, <1>5 DEF QueueInv

LEMMA HoldsKeeps ==
  ASSUME QueueInv, NEW j \in Jobs, Reopen, queue.closing, Holds(j), UNCHANGED <<qscene, drain>>,
         ~qscene.overlap => OwnsTheKey(j)
  PROVE  QueueInv'
<1> USE HoldsDoes DEF QueueInv
<1>1. QueueTyped'
  BY DEF QueueTyped
<1>2. (ShutIsEmpty /\ ClosingHasNoTimer /\ AcceptingIsFirst /\ DrainWaitsForAll /\ KeyedIsSet)'
  BY DEF Reopen, ShutIsEmpty, ClosingHasNoTimer, AcceptingIsFirst, DrainWaitsForAll, KeyedIsSet
<1>3. HeldIsAccepted'
  BY DEF HeldIsAccepted
<1>4. ASSUME ~qscene.overlap PROVE Orderly'
  <2>1. TimersAreKeyed'
    BY <1>4 DEF Orderly, TimersAreKeyed
  <2>2. HeldIsSingle'
    <3> SUFFICES ASSUME NEW i \in queue'.held, NEW l \in queue'.held,
                        KeyOf[i] = KeyOf[l], KeyOf[i] # NoKey
                 PROVE  i = l
      BY DEF HeldIsSingle
    <3>1. CASE i = j \/ l = j
      BY <3>1
    <3>2. CASE i # j /\ l # j
      BY <1>4, <3>2 DEF Orderly, HeldIsSingle
    <3> QED BY <3>1, <3>2
  <2>3. Waiting' \subseteq Waiting \cup {j}
    BY DEF Waiting
  <2>4. CancelledIsAlone'
    BY <1>4, <2>3 DEF Orderly, CancelledIsAlone, OwnsTheKey
  <2> QED BY <2>1, <2>2, <2>4 DEF Orderly
<1> QED BY <1>1, <1>2, <1>3, <1>4

LEMMA SetsTimerKeeps ==
  ASSUME QueueInv, NEW j \in Jobs, Reopen, ~queue.closing, SetsTimer(j), UNCHANGED <<qscene, drain>>,
         ~qscene.overlap => OwnsTheKey(j) /\ HasTheKeyFree(j)
  PROVE  QueueInv'
<1> USE SetsTimerDoes DEF QueueInv
<1>1. QueueTyped'
  BY DEF QueueTyped
<1>2. (ShutIsEmpty /\ ClosingHasNoTimer /\ HeldIsAccepted /\ AcceptingIsFirst /\ DrainWaitsForAll)'
  BY DEF Reopen, ShutIsEmpty, ClosingHasNoTimer, HeldIsAccepted, AcceptingIsFirst, DrainWaitsForAll
<1>3. KeyedIsSet'
  BY DEF KeyedIsSet
<1>4. ASSUME ~qscene.overlap PROVE Orderly'
  <2>1. TimersAreKeyed'
    <3> SUFFICES ASSUME NEW i \in queue'.timers, KeyOf[i] # NoKey PROVE queue'.keyed[KeyOf[i]] = i
      BY DEF TimersAreKeyed
    <3>1. i \in Jobs /\ KeyOf[i] \in Keys
      BY QueueAssumption DEF QueueTyped, QueueState
    <3>2. CASE i = j
      BY <3>1, <3>2
    <3>3. CASE i # j
      <4>1. i \in queue.timers /\ i \in Waiting
        BY <3>3 DEF Waiting
      <4>2. KeyOf[i] # KeyOf[j]
        BY <1>4, <4>1, <3>1 DEF HasTheKeyFree
      <4> QED BY <1>4, <3>1, <4>1, <4>2 DEF Orderly, TimersAreKeyed
    <3> QED BY <3>2, <3>3
  <2>2. HeldIsSingle'
    BY <1>4 DEF Orderly, HeldIsSingle
  <2>3. Waiting' \subseteq Waiting \cup {j}
    BY DEF Waiting
  <2>4. CancelledIsAlone'
    BY <1>4, <2>3 DEF Orderly, CancelledIsAlone, OwnsTheKey
  <2> QED BY <2>1, <2>2, <2>4 DEF Orderly
<1> QED BY <1>1, <1>2, <1>3, <1>4

(* Once cancelled, nothing of the key waits. *)
LEMMA WithoutKeeps ==
  ASSUME QueueInv, NEW k \in Keys, queue' = Without(queue, k), UNCHANGED <<qscene, drain>>,
         enq' \in [Jobs -> Fates],
         \A i \in Jobs : enq'[i] = "cancelled" => enq[i] = "cancelled" \/ KeyOf[i] = k,
         ~qscene.overlap =>
           \A i, j \in Jobs :
             {enq'[i], enq'[j]} = {"cancelled"} /\ KeyOf[i] = k /\ KeyOf[j] = k => i = j
  PROVE  QueueInv'
<1> USE WithoutDoes DEF QueueInv
<1>1. QueueTyped'
  BY DEF QueueTyped
<1>2. (ShutIsEmpty /\ ClosingHasNoTimer /\ HeldIsAccepted /\ AcceptingIsFirst /\ DrainWaitsForAll)'
  BY DEF ShutIsEmpty, ClosingHasNoTimer, HeldIsAccepted, AcceptingIsFirst, DrainWaitsForAll
<1>3. KeyedIsSet'
  BY DEF KeyedIsSet, TimerOf
<1>4. ASSUME ~qscene.overlap PROVE Orderly'
  <2>1. TimersAreKeyed'
    <3> SUFFICES ASSUME NEW i \in queue'.timers, KeyOf[i] # NoKey PROVE queue'.keyed[KeyOf[i]] = i
      BY DEF TimersAreKeyed
    <3>1. i \in Jobs /\ KeyOf[i] \in Keys /\ i # NoJob
      BY QueueAssumption DEF QueueTyped, QueueState
    <3>2. queue.keyed[KeyOf[i]] = i
      BY <1>4 DEF Orderly, TimersAreKeyed
    <3>3. KeyOf[i] # k
      BY <3>1, <3>2 DEF TimerOf
    <3> QED BY <3>1, <3>2, <3>3
  <2>2. HeldIsSingle'
    BY <1>4 DEF Orderly, HeldIsSingle
  <2>3. Waiting' \subseteq Waiting /\ \A i \in Waiting' : KeyOf[i] # k
    <3>1. Waiting' \subseteq Waiting
      BY DEF Waiting
    <3>2. \A i \in queue'.held : KeyOf[i] # k
      BY DEF HeldOf
    <3>3. ASSUME NEW i \in queue'.timers, KeyOf[i] = k PROVE FALSE
      <4>1. i \in Jobs /\ k # NoKey /\ i # NoJob
        BY QueueAssumption DEF QueueTyped, QueueState
      <4>2. queue.keyed[k] = i
        BY <1>4, <3>3, <4>1 DEF Orderly, TimersAreKeyed
      <4> QED BY <4>1, <4>2 DEF TimerOf
    <3> QED BY <3>1, <3>2, <3>3 DEF Waiting
  <2>4. CancelledIsAlone'
    <3> SUFFICES ASSUME NEW i \in Jobs, enq'[i] = "cancelled"
                 PROVE  /\ KeyOf[i] # NoKey
                        /\ \A j \in Waiting' : KeyOf[j] # KeyOf[i]
                        /\ \A j \in Jobs : enq'[j] = "cancelled" /\ KeyOf[j] = KeyOf[i] => i = j
      BY DEF CancelledIsAlone
    <3>1. CASE KeyOf[i] = k
      BY <1>4, <2>3, <3>1, QueueAssumption
    <3>2. CASE KeyOf[i] # k
      <4>1. enq[i] = "cancelled"
        BY <3>2
      <4>2. \A j \in Jobs : enq'[j] = "cancelled" /\ KeyOf[j] = KeyOf[i] => enq[j] = "cancelled"
        BY <3>2
      <4> QED BY <1>4, <2>3, <4>1, <4>2 DEF Orderly, CancelledIsAlone
    <3> QED BY <3>1, <3>2
  <2> QED BY <2>1, <2>2, <2>4 DEF Orderly
<1> QED BY <1>1, <1>2, <1>3, <1>4

LEMMA EnqueueKeeps ==
  ASSUME QueueInv, NEW j \in Jobs, enqueue(j)
  PROVE  QueueInv'
<1>1. /\ enq[j] = "none" /\ qscene' = qscene /\ drain' = drain
      /\ ~qscene.overlap => OwnsTheKey(j)
  BY EnqueueCases DEF OwnsTheKey
<1>2. CASE Refuses(j)
  BY <1>1, <1>2, RefusesKeeps
<1>3. CASE Reopen /\ queue.closing /\ Holds(j)
  BY <1>1, <1>3, HoldsKeeps
<1>4. CASE Reopen /\ ~queue.closing /\ KeyOf[j] = NoKey /\ SetsTimer(j)
  BY <1>1, <1>4, SetsTimerKeeps DEF HasTheKeyFree
<1>5. ASSUME KeyOf[j] # NoKey, queue' = Without(queue, KeyOf[j]),
             enq' = [i \in Jobs |-> IF i = j THEN "cancelled"
                      ELSE IF i \in Replaced(KeyOf[j]) THEN "replaced" ELSE enq[i]]
      PROVE  QueueInv'
  <2>1. KeyOf[j] \in Keys
    BY <1>5, QueueAssumption
  <2>2. enq' \in [Jobs -> Fates]
    BY <1>5 DEF QueueInv, QueueTyped, Fates
  <2>3. \A i \in Jobs : enq'[i] = "cancelled" => i = j \/ enq[i] = "cancelled"
    BY <1>5
  <2>4. ~qscene.overlap => \A i \in Jobs : enq'[i] = "cancelled" /\ KeyOf[i] = KeyOf[j] => i = j
    BY <1>1, <2>3 DEF OwnsTheKey
  <2> QED BY <1>1, <1>5, <2>1, <2>2, <2>3, <2>4, WithoutKeeps
<1> QED BY <1>2, <1>3, <1>4, <1>5, EnqueueCases

LEMMA ResumesKeeps ==
  ASSUME QueueInv, NEW j \in Jobs, enqueueResumes(j)
  PROVE  QueueInv'
<1>1. enq[j] = "cancelled" /\ qscene' = qscene /\ drain' = drain
  BY ResumesCases
<1>2. ~qscene.overlap => OwnsTheKey(j) /\ HasTheKeyFree(j)
  BY <1>1 DEF QueueInv, Orderly, CancelledIsAlone, OwnsTheKey, HasTheKeyFree
<1>3. CASE Refuses(j)
  BY <1>1, <1>3, RefusesKeeps
<1>4. CASE Reopen /\ queue.closing /\ Holds(j)
  BY <1>1, <1>2, <1>4, HoldsKeeps
<1>5. CASE Reopen /\ ~queue.closing /\ SetsTimer(j)
  BY <1>1, <1>2, <1>5, SetsTimerKeeps
<1> QED BY <1>3, <1>4, <1>5, ResumesCases

LEMMA QueueCancelKeeps ==
  ASSUME QueueInv, NEW k \in Keys, cancel(k)
  PROVE  QueueInv'
<1>1. queue' = Without(queue, k) /\ UNCHANGED <<qscene, drain>>
  BY DEF cancel
<1>2. enq' \in [Jobs -> Fates]
  BY DEF cancel, QueueInv, QueueTyped, Fates
<1>3. \A i \in Jobs : enq'[i] = "cancelled" => enq[i] = "cancelled"
  BY DEF cancel
<1>4. ~qscene.overlap =>
        \A i, j \in Jobs :
          {enq[i], enq[j]} = {"cancelled"} /\ KeyOf[i] = k /\ KeyOf[j] = k => i = j
  BY DEF QueueInv, Orderly, CancelledIsAlone
<1> QED BY <1>1, <1>2, <1>3, <1>4, WithoutKeeps

(* What leaves the timers and the held jobs leaves the order as it is. *)
LEMMA FewerKeeps ==
  ASSUME Orderly, queue'.held \subseteq queue.held,
         queue'.timers \subseteq queue.timers,
         queue.timers \subseteq Jobs,
         \A k \in Keys : queue.keyed[k] \in queue'.timers => queue'.keyed[k] = queue.keyed[k],
         \A i \in Jobs : enq'[i] = "cancelled" => enq[i] = "cancelled"
  PROVE  Orderly'
<1>1. TimersAreKeyed'
  <2> SUFFICES ASSUME NEW i \in queue'.timers, KeyOf[i] # NoKey PROVE queue'.keyed[KeyOf[i]] = i
    BY DEF TimersAreKeyed
  <2>1. KeyOf[i] \in Keys
    BY QueueAssumption
  <2> QED BY <2>1 DEF Orderly, TimersAreKeyed
<1>2. HeldIsSingle'
  BY DEF Orderly, HeldIsSingle
<1>3. Waiting' \subseteq Waiting
  BY DEF Waiting
<1>4. CancelledIsAlone'
  BY <1>3 DEF Orderly, CancelledIsAlone
<1> QED BY <1>1, <1>2, <1>4 DEF Orderly

LEMMA FiresKeeps ==
  ASSUME QueueInv, NEW j \in Jobs, timerFires(j)
  PROVE  QueueInv'
<1> DEFINE less == queue.timers \ {j}
           new == [k \in Keys |-> IF queue.keyed[k] = j THEN NoJob ELSE queue.keyed[k]]
           runs == IF queue.handlers THEN queue.active \cup {j} ELSE queue.active
<1> USE DEF QueueInv
<1>1. queue' = [queue EXCEPT !.timers = less, !.keyed = new, !.active = runs]
  BY DEF timerFires
<1>2. /\ j \in queue.timers /\ qscene' = qscene /\ drain' = drain
      /\ enq' = [enq EXCEPT ![j] = IF queue.handlers THEN "runs" ELSE "lost"]
  BY DEF timerFires
<1>3. /\ new \in [Keys -> Jobs \cup {NoJob}] /\ less \in SUBSET Jobs /\ runs \in SUBSET Jobs
      /\ \A k \in Keys : new[k] = IF queue.keyed[k] = j THEN NoJob ELSE queue.keyed[k]
  BY DEF QueueTyped, QueueState
<1> HIDE DEF new, runs
<1>4. /\ queue' \in QueueState /\ queue'.timers = less /\ queue'.keyed = new
      /\ queue'.held = queue.held /\ queue'.closed = queue.closed
      /\ queue'.stopped = queue.stopped /\ queue'.closing = queue.closing
      /\ queue'.accepting = queue.accepting
  BY <1>1, <1>3 DEF QueueTyped, QueueState
<1>5. QueueTyped'
  BY <1>2, <1>4 DEF QueueTyped, Fates
<1>6. (ShutIsEmpty /\ ClosingHasNoTimer /\ HeldIsAccepted /\ AcceptingIsFirst)'
  BY <1>2, <1>4 DEF ShutIsEmpty, ClosingHasNoTimer, HeldIsAccepted, AcceptingIsFirst
<1>7. DrainWaitsForAll'
  BY <1>2, <1>4 DEF ClosingHasNoTimer, DrainWaitsForAll
<1>8. KeyedIsSet'
  BY <1>3, <1>4 DEF KeyedIsSet
<1>9. \A i \in Jobs : enq'[i] = "cancelled" => enq[i] = "cancelled"
  BY <1>2 DEF QueueTyped
<1>10. ASSUME ~qscene.overlap PROVE Orderly'
  <2>1. \A k \in Keys : queue.keyed[k] \in queue'.timers => queue'.keyed[k] = queue.keyed[k]
    BY <1>3, <1>4
  <2>2. queue.timers \subseteq Jobs
    BY DEF QueueTyped, QueueState
  <2> QED BY <1>4, <1>9, <1>10, <2>1, <2>2, FewerKeeps
<1> QED BY <1>2, <1>5, <1>6, <1>7, <1>8, <1>10

LEMMA HandlerEndsKeeps ==
  ASSUME QueueInv, NEW j \in Jobs, handlerEnds(j)
  PROVE  QueueInv'
<1> USE DEF QueueInv
<1>1. /\ queue' = [queue EXCEPT !.active = @ \ {j}] /\ enq' = [enq EXCEPT ![j] = "ran"]
      /\ qscene' = qscene /\ drain' = drain
  BY DEF handlerEnds
<1>2. /\ queue' \in QueueState /\ queue'.timers = queue.timers /\ queue'.keyed = queue.keyed
      /\ queue'.held = queue.held /\ queue'.closed = queue.closed
      /\ queue'.stopped = queue.stopped /\ queue'.closing = queue.closing
      /\ queue'.accepting = queue.accepting /\ queue'.active \subseteq queue.active
  BY <1>1 DEF QueueTyped, QueueState
<1>3. QueueTyped'
  BY <1>1, <1>2 DEF QueueTyped, Fates
<1>4. (ShutIsEmpty /\ ClosingHasNoTimer /\ HeldIsAccepted /\ AcceptingIsFirst /\ DrainWaitsForAll
       /\ KeyedIsSet)'
  BY <1>1, <1>2 DEF ShutIsEmpty, ClosingHasNoTimer, HeldIsAccepted, AcceptingIsFirst,
                    DrainWaitsForAll, KeyedIsSet
<1>5. \A i \in Jobs : enq'[i] = "cancelled" => enq[i] = "cancelled"
  BY <1>1 DEF QueueTyped
<1>6. ~qscene.overlap => Orderly'
  BY <1>2, <1>5, FewerKeeps DEF QueueTyped, QueueState
<1> QED BY <1>1, <1>3, <1>4, <1>6

LEMMA QueueStartKeeps ==
  ASSUME QueueInv, start
  PROVE  QueueInv'
<1> USE DEF QueueInv
<1>1. /\ queue' = [queue EXCEPT !.handlers = TRUE, !.stopped = FALSE]
      /\ enq' = enq /\ qscene' = qscene /\ drain' = drain
  BY DEF start
<1>2. /\ queue' \in QueueState /\ queue'.timers = queue.timers /\ queue'.keyed = queue.keyed
      /\ queue'.held = queue.held /\ queue'.closed = queue.closed
      /\ queue'.stopped = FALSE /\ queue'.closing = queue.closing
      /\ queue'.accepting = queue.accepting /\ queue'.active = queue.active
  BY <1>1 DEF QueueTyped, QueueState
<1>3. QueueTyped'
  BY <1>1, <1>2 DEF QueueTyped
<1>4. (ShutIsEmpty /\ ClosingHasNoTimer /\ HeldIsAccepted /\ AcceptingIsFirst /\ DrainWaitsForAll
       /\ KeyedIsSet)'
  BY <1>1, <1>2 DEF ShutIsEmpty, ClosingHasNoTimer, HeldIsAccepted, AcceptingIsFirst,
                    DrainWaitsForAll, KeyedIsSet
<1>5. ~qscene.overlap => Orderly'
  BY <1>1, <1>2, FewerKeeps DEF QueueTyped, QueueState
<1> QED BY <1>1, <1>3, <1>4, <1>5

(* The drain's first turn: the timers go, and their jobs have the key to   *)
(* themselves, as the held jobs must.                                      *)
LEMMA DrainsKeeps ==
  ASSUME QueueInv, drain.pc = "idle", NEW b \in BOOLEAN,
         Drains([queue EXCEPT !.closeRequested = b]), qscene' = qscene
  PROVE  QueueInv'
<1> USE DEF QueueInv
<1> DEFINE q == [queue EXCEPT !.closeRequested = b]
           free == [k \in Keys |-> NoJob]
           kept == q.held \cup Kept(q.timers)
<1>1. /\ q \in QueueState /\ q.timers = queue.timers /\ q.held = queue.held
      /\ q.active = queue.active /\ q.closed = queue.closed /\ q.stopped = queue.stopped
  BY DEF QueueTyped, QueueState
<1>2. queue.held = {}
  BY DEF HeldIsAccepted, AcceptingIsFirst
<1>3. kept \subseteq queue.timers /\ kept \in SUBSET Jobs
  BY <1>1, <1>2 DEF Kept, QueueTyped, QueueState
<1>4. free \in [Keys -> Jobs \cup {NoJob}] /\ \A k \in Keys : free[k] = NoJob
  OBVIOUS
<1>5. /\ queue' = [q EXCEPT !.closing = TRUE, !.accepting = TRUE, !.timers = {}, !.keyed = free,
                             !.held = kept]
      /\ enq' = [j \in Jobs |-> IF j \in q.timers \ Kept(q.timers) THEN "discarded" ELSE enq[j]]
      /\ drain' = [pc |-> "first", waits |-> q.active]
  BY DEF Drains
<1> HIDE DEF q, free, kept
<1>6. /\ queue' \in QueueState /\ queue'.timers = {} /\ queue'.keyed = free
      /\ queue'.held = kept /\ queue'.closed = queue.closed /\ queue'.active = queue.active
      /\ queue'.stopped = queue.stopped /\ queue'.closing = TRUE /\ queue'.accepting = TRUE
  BY <1>1, <1>3, <1>4, <1>5 DEF QueueState
<1>7. drain' \in [pc : {"idle", "first", "second"}, waits : SUBSET Jobs]
      /\ drain'.pc = "first" /\ drain'.waits = queue.active
  BY <1>1, <1>5 DEF QueueState
<1>8. enq' \in [Jobs -> Fates] /\ \A i \in Jobs : enq'[i] = "cancelled" => enq[i] = "cancelled"
  BY <1>5 DEF QueueTyped, Fates
<1>9. QueueTyped'
  BY <1>6, <1>7, <1>8 DEF QueueTyped
<1>10. (ShutIsEmpty /\ ClosingHasNoTimer /\ HeldIsAccepted /\ AcceptingIsFirst /\ DrainWaitsForAll)'
  BY <1>3, <1>6, <1>7 DEF ShutIsEmpty, ClosingHasNoTimer, HeldIsAccepted, AcceptingIsFirst,
                          DrainWaitsForAll
<1>11. KeyedIsSet'
  BY <1>4, <1>6 DEF KeyedIsSet
<1>12. ASSUME ~qscene.overlap PROVE Orderly'
  <2>1. TimersAreKeyed'
    BY <1>6 DEF TimersAreKeyed
  <2>2. HeldIsSingle'
    BY <1>3, <1>6, <1>12 DEF Orderly, TimersAreKeyed, HeldIsSingle
  <2>3. Waiting' \subseteq Waiting
    BY <1>3, <1>6 DEF Waiting
  <2>4. CancelledIsAlone'
    BY <1>8, <1>12, <2>3 DEF Orderly, CancelledIsAlone
  <2> QED BY <2>1, <2>2, <2>4 DEF Orderly
<1> QED BY <1>9, <1>10, <1>11, <1>12

LEMMA QueueStopKeeps ==
  ASSUME QueueInv, stop
  PROVE  QueueInv'
<1>1. drain.pc = "idle" /\ Drains(queue) /\ qscene' = qscene
  BY DEF stop
<1>2. queue.closeRequested \in BOOLEAN /\ queue = [queue EXCEPT !.closeRequested = queue.closeRequested]
  BY DEF QueueInv, QueueTyped, QueueState
<1> QED BY <1>1, <1>2, DrainsKeeps

LEMMA QueueCloseKeeps ==
  ASSUME QueueInv, close
  PROVE  QueueInv'
<1>1. CASE drain.pc = "idle"
  BY <1>1, DrainsKeeps DEF close
<1>2. CASE drain.pc # "idle"
  <2> USE DEF QueueInv
  <2>1. /\ queue' = [queue EXCEPT !.closeRequested = TRUE]
        /\ enq' = enq /\ qscene' = qscene /\ drain' = drain
    BY <1>2 DEF close
  <2>2. /\ queue' \in QueueState /\ queue'.timers = queue.timers /\ queue'.keyed = queue.keyed
        /\ queue'.held = queue.held /\ queue'.closed = queue.closed
        /\ queue'.stopped = queue.stopped /\ queue'.closing = queue.closing
        /\ queue'.accepting = queue.accepting /\ queue'.active = queue.active
    BY <2>1 DEF QueueTyped, QueueState
  <2>3. QueueTyped'
    BY <2>1, <2>2 DEF QueueTyped
  <2>4. (ShutIsEmpty /\ ClosingHasNoTimer /\ HeldIsAccepted /\ AcceptingIsFirst /\ DrainWaitsForAll
         /\ KeyedIsSet)'
    BY <2>1, <2>2 DEF ShutIsEmpty, ClosingHasNoTimer, HeldIsAccepted, AcceptingIsFirst,
                      DrainWaitsForAll, KeyedIsSet
  <2>5. ~qscene.overlap => Orderly'
    BY <2>1, <2>2, FewerKeeps DEF QueueTyped, QueueState
  <2> QED BY <2>1, <2>3, <2>4, <2>5
<1> QED BY <1>1, <1>2

LEMMA DispatchKeeps ==
  ASSUME QueueInv, drainDispatches
  PROVE  QueueInv'
<1> USE DEF QueueInv
<1>1. drain.pc = "first" /\ queue.closing /\ qscene' = qscene
  BY DEF drainDispatches, DrainWaitsForAll
<1>2. /\ queue' \in QueueState /\ queue'.timers = queue.timers /\ queue'.keyed = queue.keyed
      /\ queue'.held = {} /\ queue'.closed = queue.closed
      /\ queue'.stopped = queue.stopped /\ queue'.closing = queue.closing
      /\ queue'.accepting = FALSE
      /\ \/ queue'.active = queue.active \cup queue.held /\ drain' = [pc |-> "second", waits |-> queue'.active]
         \/ queue'.active = queue.active /\ drain' = [pc |-> "idle", waits |-> {}]
  <2>1. CASE queue.handlers \/ queue.held = {}
    <3>1. /\ queue' = [queue EXCEPT !.accepting = FALSE, !.held = {},
                                    !.active = queue.active \cup queue.held]
          /\ drain' = [pc |-> "second", waits |-> queue'.active]
      BY <2>1 DEF drainDispatches, Dispatched
    <3> QED BY <3>1 DEF QueueTyped, QueueState
  <2>2. CASE ~(queue.handlers \/ queue.held = {})
    <3>1. /\ queue' = [queue EXCEPT !.accepting = FALSE, !.held = {}]
          /\ drain' = [pc |-> "idle", waits |-> {}]
      BY <2>2 DEF drainDispatches
    <3> QED BY <3>1 DEF QueueTyped, QueueState
  <2> QED BY <2>1, <2>2
<1>3. enq' \in [Jobs -> Fates] /\ \A i \in Jobs : enq'[i] = "cancelled" => enq[i] = "cancelled"
  BY DEF drainDispatches, QueueTyped, Fates
<1>4. drain' \in [pc : {"idle", "first", "second"}, waits : SUBSET Jobs]
  BY <1>2 DEF QueueState
<1>5. QueueTyped'
  BY <1>1, <1>2, <1>3, <1>4 DEF QueueTyped
<1>6. (ShutIsEmpty /\ ClosingHasNoTimer /\ HeldIsAccepted /\ AcceptingIsFirst /\ KeyedIsSet)'
  BY <1>1, <1>2 DEF ShutIsEmpty, ClosingHasNoTimer, HeldIsAccepted, AcceptingIsFirst, KeyedIsSet
<1>7. DrainWaitsForAll'
  BY <1>1, <1>2 DEF DrainWaitsForAll
<1>8. ~qscene.overlap => Orderly'
  BY <1>2, <1>3, FewerKeeps DEF QueueTyped, QueueState
<1> QED BY <1>1, <1>5, <1>6, <1>7, <1>8

LEMMA DrainEndsKeeps ==
  ASSUME QueueInv, drainEnds
  PROVE  QueueInv'
<1> USE DEF QueueInv
<1>1. /\ drain.pc = "second" /\ drain.waits \cap queue.active = {}
      /\ queue' = [queue EXCEPT !.handlers = FALSE, !.closing = FALSE,
                       !.closed = queue.closeRequested, !.stopped = ~queue.closeRequested]
      /\ drain' = [pc |-> "idle", waits |-> {}] /\ qscene' = qscene /\ enq' = enq
  BY DEF drainEnds
<1>2. queue.active = {} /\ queue.held = {} /\ queue.timers = {} /\ ~queue.accepting
  BY <1>1 DEF DrainWaitsForAll, HeldIsAccepted, AcceptingIsFirst, ClosingHasNoTimer
<1>3. /\ queue' \in QueueState /\ queue'.timers = queue.timers /\ queue'.keyed = queue.keyed
      /\ queue'.held = queue.held /\ queue'.closing = FALSE
      /\ queue'.accepting = queue.accepting /\ queue'.active = queue.active
  BY <1>1 DEF QueueTyped, QueueState
<1>4. QueueTyped'
  BY <1>1, <1>3 DEF QueueTyped
<1>5. (ShutIsEmpty /\ ClosingHasNoTimer /\ HeldIsAccepted /\ AcceptingIsFirst /\ DrainWaitsForAll)'
  BY <1>1, <1>2, <1>3 DEF ShutIsEmpty, ClosingHasNoTimer, HeldIsAccepted, AcceptingIsFirst,
                          DrainWaitsForAll
<1>6. KeyedIsSet'
  BY <1>3 DEF KeyedIsSet
<1>7. ~qscene.overlap => Orderly'
  BY <1>1, <1>3, FewerKeeps DEF QueueTyped, QueueState
<1> QED BY <1>1, <1>4, <1>5, <1>6, <1>7

-----------------------------------------------------------------------------
(* The theorems *)

LEMMA QueueInitHolds ==
  ASSUME QueueInit
  PROVE  QueueInv
<1>1. /\ queue.timers = {} /\ queue.held = {} /\ queue.active = {} /\ drain.pc = "idle"
      /\ ~queue.accepting /\ \A k \in Keys : queue.keyed[k] = NoJob
      /\ \A j \in Jobs : enq[j] = "none"
  BY DEF QueueInit
<1>2. queue \in QueueState
  BY QueueAssumption DEF QueueInit, QueueState
<1>3. QueueTyped
  BY <1>2 DEF QueueInit, QueueTyped, Fates
<1>4. Orderly
  BY <1>1 DEF Orderly, TimersAreKeyed, HeldIsSingle, CancelledIsAlone
<1> QED BY <1>1, <1>3, <1>4 DEF QueueInv, ShutIsEmpty, ClosingHasNoTimer, HeldIsAccepted,
                                AcceptingIsFirst, DrainWaitsForAll, KeyedIsSet

LEMMA QueueStepKeeps ==
  ASSUME QueueInv, [QueueNext]_queueVars
  PROVE  QueueInv'
<1>1. CASE QueueNext
  BY <1>1, EnqueueKeeps, ResumesKeeps, FiresKeeps, HandlerEndsKeeps, QueueCancelKeeps, QueueStartKeeps,
     QueueStopKeeps, QueueCloseKeeps, DispatchKeeps, DrainEndsKeeps DEF QueueNext
<1>2. CASE UNCHANGED queueVars
  BY <1>2 DEF queueVars, QueueInv, QueueTyped, QueueState, Fates, ShutIsEmpty, ClosingHasNoTimer, HeldIsAccepted,
     AcceptingIsFirst, DrainWaitsForAll, KeyedIsSet, Orderly, TimersAreKeyed, HeldIsSingle,
     CancelledIsAlone, Waiting
<1> QED BY <1>1, <1>2

LEMMA QueueInvariant == QueueSpec => []QueueInv
<1>1. QueueInit => QueueInv
  BY QueueInitHolds
<1>2. QueueInv /\ [QueueNext]_queueVars => QueueInv'
  BY QueueStepKeeps
<1> QED BY <1>1, <1>2, PTL DEF QueueSpec

(* The jobs, the keys' timers, the flags and the drain have their types,   *)
(* whatever the calls, the starts and the stops of the queue.              *)
THEOREM QueueTypeCorrect == QueueSpec => []QueueTypeOK
<1>1. QueueInv => QueueTypeOK
  BY DEF QueueInv, QueueTyped, QueueState, Fates, QueueTypeOK
<1> QED BY <1>1, QueueInvariant, PTL

LEMMA QuietFollows ==
  ASSUME QueueInv
  PROVE  ClosedIsQuiet
<1> USE DEF QueueInv
<1>1. queue.closed \/ queue.stopped => Waiting \cup queue.active = {}
  BY DEF ShutIsEmpty, Waiting
<1>2. ASSUME ~qscene.overlap, NEW j \in Waiting, KeyOf[j] # NoKey
      PROVE  Replaced(KeyOf[j]) = {j}
  <2>1. j \in Jobs /\ KeyOf[j] \in Keys /\ j # NoJob
    BY <1>2, QueueAssumption DEF Waiting, QueueTyped, QueueState
  <2>2. CASE j \in queue.timers
    <3>1. queue.held = {}
      BY <2>2 DEF ClosingHasNoTimer, DrainWaitsForAll, AcceptingIsFirst, HeldIsAccepted, QueueTyped
    <3>2. queue.keyed[KeyOf[j]] = j
      BY <1>2, <2>2 DEF Orderly, TimersAreKeyed
    <3> QED BY <2>1, <3>1, <3>2 DEF Replaced, HeldOf, TimerOf
  <2>3. CASE j \notin queue.timers
    <3>1. j \in queue.held /\ queue.timers = {}
      BY <2>3, <1>2 DEF Waiting, ClosingHasNoTimer, DrainWaitsForAll, AcceptingIsFirst, HeldIsAccepted
    <3>2. queue.keyed[KeyOf[j]] = NoJob
      BY <2>1, <3>1 DEF KeyedIsSet
    <3>3. HeldOf(KeyOf[j]) = {j}
      BY <1>2, <3>1 DEF Orderly, HeldIsSingle, HeldOf
    <3> QED BY <3>2, <3>3 DEF Replaced, TimerOf
  <2> QED BY <2>2, <2>3
<1> QED BY <1>1, <1>2 DEF ClosedIsQuiet

(* A closed or stopped queue has nothing that runs, waits or will be set;  *)
(* and, one call per key at a time, the job of a key that waits is the one *)
(* that cancel(key) finds, on its timer or held for the close: for any     *)
(* jobs, keys, delays, starts and stops. The safety half of                *)
(* QueueKeepsItsWord.                                                      *)
THEOREM ClosedQuiet == QueueSpec => []ClosedIsQuiet
<1>1. QueueInv => ClosedIsQuiet
  BY QuietFollows
<1> QED BY <1>1, QueueInvariant, PTL
-----------------------------------------------------------------------------
(* The routine: the invariant *)

RoutineRow == [exists : BOOLEAN, active : BOOLEAN, next : Date, ran : BOOLEAN]
RunState == [state : {"none", "queued", "begun"}, for : Date]
FlightState ==
  [pc : {"idle", "read", "defer", "claim", "enqueue", "restore", "next"},
   for : Date, next : Date, run : RunIds \cup {"none"}, retries : BOOLEAN, ran : BOOLEAN]
RecState ==
  [pc : {"idle", "scan", "enqueue"}, leads : BOOLEAN, wake : Date, runs : SUBSET RunIds]
Requests == {"create", "rename", "reschedule", "on", "off", "remove"}
RequestState ==
  [pc : {"idle", "write", "sync", "delete", "cancel", "enqueue", "undo"},
   ask : Requests \cup {"none"}, before : RoutineRow \cup {<<>>},
   after : RoutineRow \cup {<<>>}, fresh : Date]

RoutineTyped ==
  /\ scene \in Routines /\ now \in 0 .. Horizon /\ routine \in RoutineRow /\ wake \in Date
  /\ job \subseteq RunIds /\ run \in [RunIds -> RunState] /\ flight \in [Workers -> FlightState]
  /\ rec \in [Workers -> RecState] /\ lock \in Workers \cup {NoWorker}
  /\ user \in RequestState /\ want \in BOOLEAN
  /\ budget \in [failures : Nat, deaths : Nat, asks : SUBSET Requests]
  /\ user.pc \in {"write", "sync"} => user.before \in RoutineRow
  /\ user.pc \in {"sync", "enqueue", "undo"} => user.after \in RoutineRow

(* What a worker knows of the wakeup that it executes.                     *)
Knows(f) ==
  /\ f.pc # "idle" => f.for # Null
  /\ f.pc \in {"claim", "enqueue", "restore", "next"} =>
       /\ f.for <= now /\ (f.next = Null <=> scene.once)
       /\ f.next # Null => f.for < f.next
  /\ f.pc \in {"enqueue", "restore", "next"} => f.run \in RunIds
  /\ f.pc = "restore" => scene.failures > 0
WorkersKnow == \A w \in Workers : Knows(flight[w])

RunsAreDue == \A r \in RunIds : run[r].for <= now
BudgetShrinks == budget.failures <= scene.failures /\ budget.asks \subseteq scene.asks
GoneIsOff == ~routine.exists => ~routine.active /\ routine.next = Null

(* A routine that is still to be created is not there, and has no runs.    *)
CreateComesFirst ==
  "create" \in budget.asks =>
    want /\ ~routine.exists /\ \A r \in RunIds : run[r].state = "none"

(* A routine that is off has no date that a wakeup could give back or a    *)
(* request could have read.                                                *)
OffHolds ==
  ~want /\ ~(scene.once /\ scene.failures > 0) =>
    ~routine.active /\ routine.next = Null /\ (user.pc = "write" => ~user.before.active)

(* Without edits and failures the row has gone past whatever was fired.    *)
Plain == scene.asks \subseteq {"create", "remove"} /\ scene.failures = 0
Fired(r) == run[r].state # "none"
RowIsPast ==
  Plain =>
    /\ user.pc \notin {"write", "sync", "undo"}
    /\ \A r \in RunIds : Fired(r) => routine.next = Null \/ run[r].for < routine.next
    /\ \A r, q \in RunIds : Fired(r) /\ Fired(q) /\ run[r].for = run[q].for => r = q

RoutineSound ==
  WorkersKnow /\ RunsAreDue /\ BudgetShrinks /\ GoneIsOff /\ CreateComesFirst /\ OffHolds /\ RowIsPast
RoutineInv == RoutineTyped /\ RoutineSound

-----------------------------------------------------------------------------
(* The routine: wakeups, field by field *)

LEMMA RoutineNumbers ==
  /\ Horizon \in Nat \ {0} /\ NoWorker \notin Workers /\ Date = 0 .. Horizon + 1 /\ Null = 0
  /\ \A s \in Routines : /\ s.first \in 1 .. Horizon /\ s.horizon \in 0 .. Horizon
                         /\ s.failures \in Nat /\ s.deaths \in Nat
                         /\ s.asks \subseteq Requests
                         /\ s.once \in BOOLEAN /\ s.durable \in BOOLEAN
BY RoutineAssumption DEF RoutineAssumption, Date, Null, Requests

LEMMA NoFlightTyped ==
  /\ NoFlight \in FlightState /\ Knows(NoFlight) /\ NoFlight.pc = "idle"
BY RoutineNumbers DEF NoFlight, FlightState, Knows

LEMMA FlightOne ==
  ASSUME NEW fs \in [Workers -> FlightState], NEW w \in Workers, NEW f \in FlightState,
         flight' = [fs EXCEPT ![w] = f]
  PROVE  /\ flight' \in [Workers -> FlightState] /\ flight'[w] = f
         /\ \A v \in Workers \ {w} : flight'[v] = fs[v]
OBVIOUS

(* A job under the key of one in execution takes its repetition, and       *)
(* nothing else.                                                           *)
LEMMA DetachedDoes ==
  ASSUME RoutineTyped
  PROVE  /\ Detached \in [Workers -> FlightState]
         /\ WorkersKnow => \A w \in Workers : Knows(Detached[w])
<1>1. ASSUME NEW f \in FlightState
      PROVE  LET g == [f EXCEPT !.retries = FALSE] IN
             /\ g \in FlightState /\ g.pc = f.pc /\ g.for = f.for /\ g.next = f.next /\ g.run = f.run
  BY DEF FlightState
<1>2. \A w \in Workers :
        /\ Detached[w] \in FlightState /\ Detached[w].pc = flight[w].pc
        /\ Detached[w].for = flight[w].for /\ Detached[w].next = flight[w].next
        /\ Detached[w].run = flight[w].run
  BY <1>1 DEF Detached, RoutineTyped
<1>3. Detached \in [Workers -> FlightState]
  BY <1>2 DEF Detached
<1>4. ASSUME WorkersKnow, NEW w \in Workers PROVE Knows(Detached[w])
  BY <1>2, <1>4 DEF WorkersKnow, Knows
<1> QED BY <1>3, <1>4

(* A wakeup that goes to its next step.                                    *)
LEMMA FlightMoves ==
  ASSUME NEW f \in FlightState,
         NEW pc \in {"idle", "read", "defer", "claim", "enqueue", "restore", "next"}
  PROVE  LET g == [f EXCEPT !.pc = pc] IN
         /\ g \in FlightState /\ g.pc = pc /\ g.for = f.for /\ g.next = f.next /\ g.run = f.run
BY DEF FlightState

LEMMA RetryDoes ==
  ASSUME RoutineTyped, NEW w \in Workers, Retry(w)
  PROVE  /\ flight' \in [Workers -> FlightState] /\ wake' \in Date
         /\ WorkersKnow => \A v \in Workers : Knows(flight'[v])
<1>1. flight' = [flight EXCEPT ![w] = NoFlight]
  BY DEF Retry
<1>2. flight' \in [Workers -> FlightState] /\ flight'[w] = NoFlight
      /\ \A v \in Workers \ {w} : flight'[v] = flight[v]
  BY <1>1, NoFlightTyped, FlightOne DEF RoutineTyped
<1>3. flight[w].for \in Date /\ wake \in Date
  BY DEF RoutineTyped, FlightState
<1> QED BY <1>2, <1>3, NoFlightTyped DEF Retry, WorkersKnow

(* The others stay as they are when one has ended.                         *)
LEMMA FlightEnds ==
  ASSUME RoutineTyped, NEW w \in Workers,
         flight' \in {[flight EXCEPT ![w] = NoFlight], [Detached EXCEPT ![w] = NoFlight]}
  PROVE  /\ flight' \in [Workers -> FlightState]
         /\ WorkersKnow => \A v \in Workers : Knows(flight'[v])
<1>1. CASE flight' = [flight EXCEPT ![w] = NoFlight]
  <2>1. flight' \in [Workers -> FlightState] /\ flight'[w] = NoFlight
        /\ \A v \in Workers \ {w} : flight'[v] = flight[v]
    BY <1>1, NoFlightTyped, FlightOne DEF RoutineTyped
  <2> QED BY <2>1, NoFlightTyped DEF WorkersKnow
<1>2. CASE flight' = [Detached EXCEPT ![w] = NoFlight]
  <2>1. flight' \in [Workers -> FlightState] /\ flight'[w] = NoFlight
        /\ \A v \in Workers \ {w} : flight'[v] = Detached[v]
    BY <1>2, NoFlightTyped, FlightOne, DetachedDoes
  <2> QED BY <2>1, NoFlightTyped, DetachedDoes
<1> QED BY <1>1, <1>2

LEMMA SpentDoes ==
  ASSUME RoutineTyped, MayFail, Spent
  PROVE  /\ budget' \in [failures : Nat, deaths : Nat, asks : SUBSET Requests]
         /\ budget'.failures <= budget.failures /\ budget'.asks = budget.asks
BY DEF RoutineTyped, MayFail, Spent

(* Where a call of the queue may fail the routine is not a plain one.      *)
LEMMA PlainCannotFail ==
  ASSUME RoutineTyped, RoutineSound, MayFail
  PROVE  scene.failures > 0 /\ ~Plain
BY RoutineNumbers DEF RoutineTyped, RoutineSound, BudgetShrinks, MayFail, Plain

(* A step that leaves the row, and does not fire.                          *)
LEMMA SideStep ==
  ASSUME RoutineInv, RoutineTyped', UNCHANGED <<scene, now, routine, want>>,
         \A w \in Workers : Knows(flight'[w]),
         \A r \in RunIds : run'[r].for = run[r].for /\ (run'[r].state # "none" <=> run[r].state # "none"),
         budget'.failures <= budget.failures, budget'.asks \subseteq budget.asks,
         Plain => user'.pc \notin {"write", "sync", "undo"},
         user'.pc = "write" =>
           user'.before = routine \/ (user.pc = "write" /\ user'.before = user.before)
  PROVE  RoutineInv'
<1> USE DEF RoutineInv, RoutineSound
<1>1. WorkersKnow'
  BY DEF WorkersKnow, Knows
<1>2. RunsAreDue' /\ GoneIsOff'
  BY DEF RunsAreDue, GoneIsOff
<1>3. BudgetShrinks'
  <2>1. /\ budget.failures \in Nat /\ budget'.failures \in Nat /\ scene.failures \in Nat
    BY RoutineNumbers DEF RoutineTyped
  <2>2. budget.failures <= scene.failures
    BY DEF BudgetShrinks
  <2>3. budget'.failures <= scene.failures
    BY ONLY <2>1, <2>2, budget'.failures <= budget.failures
  <2> QED BY <2>3 DEF BudgetShrinks
<1>4. CreateComesFirst'
  BY DEF CreateComesFirst
<1>5. OffHolds'
  BY DEF OffHolds
<1>6. RowIsPast'
  <2>1. Plain' <=> Plain
    BY DEF Plain
  <2>2. \A r \in RunIds : Fired(r)' <=> Fired(r)
    BY DEF Fired
  <2> QED BY <2>1, <2>2 DEF RowIsPast
<1> QED BY <1>1, <1>2, <1>3, <1>4, <1>5, <1>6

LEMMA SideStepAlone ==
  ASSUME RoutineInv, RoutineTyped', UNCHANGED <<scene, now, routine, want, user>>,
         \A w \in Workers : Knows(flight'[w]),
         \A r \in RunIds : run'[r].for = run[r].for /\ (run'[r].state # "none" <=> run[r].state # "none"),
         budget'.failures <= budget.failures, budget'.asks \subseteq budget.asks
  PROVE  RoutineInv'
<1>1. Plain => user'.pc \notin {"write", "sync", "undo"}
  BY DEF RoutineInv, RoutineSound, RowIsPast
<1> QED BY <1>1, SideStep

-----------------------------------------------------------------------------
(* A wakeup *)

LEMMA TakeWakeupKeeps ==
  ASSUME RoutineInv, NEW w \in Workers, takeWakeup(w)
  PROVE  RoutineInv'
<1> USE DEF RoutineInv
<1> DEFINE f == [NoFlight EXCEPT !.pc = "read", !.for = wake, !.retries = scene.durable]
<1>1. /\ wake \in Date /\ wake # Null /\ scene.durable \in BOOLEAN
      /\ UNCHANGED <<scene, now, routine, job, run, rec, lock, user, want, budget>>
      /\ flight' = [flight EXCEPT ![w] = f] /\ wake' = Null /\ Null \in Date
  BY RoutineNumbers DEF takeWakeup, RoutineTyped
<1>2. f \in FlightState /\ Knows(f)
  BY <1>1, RoutineNumbers DEF NoFlight, FlightState, Knows
<1> HIDE DEF f
<1>3. /\ flight' \in [Workers -> FlightState] /\ flight'[w] = f
      /\ \A v \in Workers \ {w} : flight'[v] = flight[v]
  BY <1>1, <1>2, FlightOne DEF RoutineTyped
<1>4. RoutineTyped'
  BY <1>1, <1>3 DEF RoutineTyped
<1>5. \A v \in Workers : Knows(flight'[v])
  BY <1>2, <1>3 DEF RoutineSound, WorkersKnow
<1>6. budget'.failures <= budget.failures
  BY <1>1 DEF RoutineTyped
<1> QED BY <1>1, <1>4, <1>5, <1>6, SideStepAlone

(* The next date of a wakeup that goes on is after its own.                *)
LEMMA NextIsLater ==
  ASSUME RoutineTyped, NEW date \in Date, ~defer(date)
  PROVE  /\ Occurrence(Later(now, date)) \in Date /\ Occurrence(Later(now, date)) # Null
         /\ date < Occurrence(Later(now, date)) /\ date <= now
BY RoutineNumbers DEF RoutineTyped, defer, Occurrence, Later

LEMMA WakeReadsKeeps ==
  ASSUME RoutineInv, NEW w \in Workers, wakeReads(w)
  PROVE  RoutineInv'
<1> USE DEF RoutineInv
<1> DEFINE f == flight[w]
           next == IF scene.once THEN Null ELSE Occurrence(Later(now, f.for))
<1>1. /\ UNCHANGED <<scene, now, routine, wake, job, run, rec, lock, user, want, budget>>
      /\ f \in FlightState /\ f.pc = "read" /\ routine \in RoutineRow /\ Knows(f)
  BY DEF wakeReads, RoutineTyped, RoutineSound, WorkersKnow
<1>2. PICK g \in FlightState : flight' = [flight EXCEPT ![w] = g] /\ Knows(g)
  <2>1. CASE ~routine.exists \/ ~routine.active \/ routine.next # f.for
    <3>1. flight' = [flight EXCEPT ![w] = NoFlight]
      BY <2>1 DEF wakeReads
    <3> QED BY <3>1, NoFlightTyped
  <2>2. CASE ~(~routine.exists \/ ~routine.active \/ routine.next # f.for) /\ defer(f.for)
    <3> DEFINE g == [f EXCEPT !.pc = "defer"]
    <3>1. flight' = [flight EXCEPT ![w] = g]
      BY <2>2 DEF wakeReads
    <3>2. g \in FlightState /\ g.pc = "defer" /\ g.for = f.for
      BY <1>1, FlightMoves
    <3>3. Knows(g)
      BY <1>1, <3>2 DEF Knows
    <3> QED BY <3>1, <3>2, <3>3
  <2>3. CASE ~(~routine.exists \/ ~routine.active \/ routine.next # f.for) /\ ~defer(f.for)
    <3> DEFINE g == [f EXCEPT !.pc = "claim", !.ran = routine.ran, !.next = next]
    <3>1. flight' = [flight EXCEPT ![w] = g]
      BY <2>3 DEF wakeReads
    <3>2. /\ next \in Date /\ (next = Null <=> scene.once) /\ (next # Null => f.for < next)
          /\ f.for <= now /\ f.for # Null
      <4>1. f.for \in Date /\ f.for # Null
        BY <1>1 DEF FlightState, Knows
      <4>2. /\ Occurrence(Later(now, f.for)) \in Date /\ Occurrence(Later(now, f.for)) # Null
            /\ f.for < Occurrence(Later(now, f.for)) /\ f.for <= now
        BY <2>3, <4>1, NextIsLater
      <4> QED BY <4>1, <4>2, RoutineNumbers
    <3> HIDE DEF next
    <3>3. /\ g \in FlightState /\ g.pc = "claim" /\ g.for = f.for /\ g.next = next
      BY <1>1, <3>2 DEF FlightState, RoutineRow
    <3>4. Knows(g)
      BY <3>2, <3>3 DEF Knows
    <3> QED BY <3>1, <3>3, <3>4
  <2> QED BY <2>1, <2>2, <2>3
<1>3. /\ flight' \in [Workers -> FlightState] /\ flight'[w] = g
      /\ \A v \in Workers \ {w} : flight'[v] = flight[v]
  BY <1>2, FlightOne DEF RoutineTyped
<1>4. RoutineTyped'
  BY <1>1, <1>3 DEF RoutineTyped
<1>5. \A v \in Workers : Knows(flight'[v])
  BY <1>2, <1>3 DEF RoutineSound, WorkersKnow
<1>6. budget'.failures <= budget.failures
  BY <1>1 DEF RoutineTyped
<1> QED BY <1>1, <1>4, <1>5, <1>6, SideStepAlone

LEMMA WakeDefersKeeps ==
  ASSUME RoutineInv, NEW w \in Workers, wakeDefers(w)
  PROVE  RoutineInv'
<1> USE DEF RoutineInv
<1>1. UNCHANGED <<scene, now, routine, job, run, rec, lock, user, want>>
  BY DEF wakeDefers
<1>2. /\ flight' \in [Workers -> FlightState] /\ \A v \in Workers : Knows(flight'[v])
      /\ wake' \in Date
      /\ budget' \in [failures : Nat, deaths : Nat, asks : SUBSET Requests]
      /\ budget'.failures <= budget.failures /\ budget'.asks \subseteq budget.asks
  <2>1. CASE wake' = flight[w].for /\ flight' = [Detached EXCEPT ![w] = NoFlight] /\ UNCHANGED budget
    <3>1. flight[w].for \in Date /\ budget.failures \in Nat
      BY DEF RoutineTyped, FlightState
    <3>2. budget' \in [failures : Nat, deaths : Nat, asks : SUBSET Requests]
      BY <2>1 DEF RoutineTyped
    <3>3. flight' \in {[flight EXCEPT ![w] = NoFlight], [Detached EXCEPT ![w] = NoFlight]}
      BY <2>1
    <3>4. flight' \in [Workers -> FlightState] /\ \A v \in Workers : Knows(flight'[v])
      BY <3>3, FlightEnds DEF RoutineSound
    <3>5. budget'.failures <= budget.failures /\ budget'.asks \subseteq budget.asks
      BY <2>1, <3>1
    <3> QED BY <2>1, <3>1, <3>2, <3>4, <3>5
  <2>2. CASE MayFail /\ Spent /\ Retry(w)
    BY <2>2, RetryDoes, SpentDoes DEF RoutineSound
  <2> QED BY <2>1, <2>2 DEF wakeDefers
<1>3. RoutineTyped'
  BY <1>1, <1>2 DEF RoutineTyped
<1> QED BY <1>1, <1>2, <1>3, SideStepAlone

LEMMA WakeEnqueuesKeeps ==
  ASSUME RoutineInv, NEW w \in Workers, wakeEnqueues(w)
  PROVE  RoutineInv'
<1> USE DEF RoutineInv
<1> DEFINE f == flight[w]
<1>1. /\ UNCHANGED <<scene, now, routine, wake, run, rec, lock, user, want>>
      /\ f \in FlightState /\ f.pc = "enqueue" /\ Knows(f) /\ f.run \in RunIds
  BY DEF wakeEnqueues, RoutineTyped, RoutineSound, WorkersKnow, Knows
<1>2. PICK pc \in {"next", "restore"} :
        /\ flight' = [flight EXCEPT ![w].pc = pc]
        /\ job' \in {job, job \cup {f.run}}
        /\ \/ pc = "next" /\ UNCHANGED budget
           \/ MayFail /\ Spent
  BY DEF wakeEnqueues
<1>p. pc \in {"idle", "read", "defer", "claim", "enqueue", "restore", "next"}
  OBVIOUS
<1> DEFINE g == [f EXCEPT !.pc = pc]
<1>3. g \in FlightState /\ g.pc = pc /\ g.for = f.for /\ g.next = f.next /\ g.run = f.run
  BY <1>1, <1>p, FlightMoves
<1>4. /\ budget' \in [failures : Nat, deaths : Nat, asks : SUBSET Requests]
      /\ budget'.failures <= budget.failures /\ budget'.asks \subseteq budget.asks
      /\ pc = "restore" => scene.failures > 0
  <2>1. CASE pc = "next" /\ UNCHANGED budget
    BY <2>1 DEF RoutineTyped
  <2>2. CASE MayFail /\ Spent
    BY <2>2, SpentDoes, PlainCannotFail
  <2> QED BY <1>2, <2>1, <2>2
<1>5. Knows(g)
  BY <1>1, <1>3, <1>4 DEF Knows
<1> HIDE DEF g
<1>6. /\ flight' \in [Workers -> FlightState] /\ flight'[w] = g
      /\ \A v \in Workers \ {w} : flight'[v] = flight[v]
  <2>1. flight' = [flight EXCEPT ![w] = g]
    BY <1>2 DEF g
  <2> QED BY <1>3, <2>1, FlightOne DEF RoutineTyped
<1>7. RoutineTyped'
  BY <1>1, <1>2, <1>4, <1>6 DEF RoutineTyped
<1>8. \A v \in Workers : Knows(flight'[v])
  BY <1>5, <1>6 DEF RoutineSound, WorkersKnow
<1> QED BY <1>1, <1>4, <1>7, <1>8, SideStepAlone

LEMMA WakeSchedulesKeeps ==
  ASSUME RoutineInv, NEW w \in Workers, wakeSchedules(w)
  PROVE  RoutineInv'
<1> USE DEF RoutineInv
<1>1. UNCHANGED <<scene, now, routine, job, run, rec, lock, user, want>>
  BY DEF wakeSchedules
<1>2. /\ flight' \in [Workers -> FlightState] /\ \A v \in Workers : Knows(flight'[v])
      /\ wake' \in Date
      /\ budget' \in [failures : Nat, deaths : Nat, asks : SUBSET Requests]
      /\ budget'.failures <= budget.failures /\ budget'.asks \subseteq budget.asks
  <2>1. CASE wake' = flight[w].next /\ flight' = [Detached EXCEPT ![w] = NoFlight] /\ UNCHANGED budget
    <3>1. flight[w].next \in Date /\ budget.failures \in Nat
      BY DEF RoutineTyped, FlightState
    <3>2. budget' \in [failures : Nat, deaths : Nat, asks : SUBSET Requests]
      BY <2>1 DEF RoutineTyped
    <3>3. flight' \in {[flight EXCEPT ![w] = NoFlight], [Detached EXCEPT ![w] = NoFlight]}
      BY <2>1
    <3>4. flight' \in [Workers -> FlightState] /\ \A v \in Workers : Knows(flight'[v])
      BY <3>3, FlightEnds DEF RoutineSound
    <3>5. budget'.failures <= budget.failures /\ budget'.asks \subseteq budget.asks
      BY <2>1, <3>1
    <3> QED BY <2>1, <3>1, <3>2, <3>4, <3>5
  <2>2. CASE MayFail /\ Spent /\ flight' = [flight EXCEPT ![w] = NoFlight] /\ UNCHANGED wake
    <3>1. wake \in Date
      BY DEF RoutineTyped
    <3> QED BY <2>2, <3>1, FlightEnds, SpentDoes DEF RoutineSound
  <2>3. CASE MayFail /\ Spent /\ Retry(w)
    BY <2>3, RetryDoes, SpentDoes DEF RoutineSound
  <2> QED BY <2>1, <2>2, <2>3 DEF wakeSchedules
<1>3. RoutineTyped'
  BY <1>1, <1>2 DEF RoutineTyped
<1> QED BY <1>1, <1>2, <1>3, SideStepAlone

LEMMA RunBeginsKeeps ==
  ASSUME RoutineInv, NEW r \in RunIds, runBegins(r)
  PROVE  RoutineInv'
<1> USE DEF RoutineInv
<1>1. /\ UNCHANGED <<scene, now, routine, wake, flight, rec, lock, user, want, budget>>
      /\ run' = [run EXCEPT ![r].state = "begun"] /\ job' \subseteq RunIds
      /\ run[r].state = "queued" /\ run \in [RunIds -> RunState]
  BY DEF runBegins, RoutineTyped
<1>2. /\ run' \in [RunIds -> RunState]
      /\ \A i \in RunIds : run'[i].for = run[i].for /\ (run'[i].state # "none" <=> run[i].state # "none")
  BY <1>1 DEF RunState
<1>3. RoutineTyped'
  BY <1>1, <1>2 DEF RoutineTyped
<1>4. (\A w \in Workers : Knows(flight'[w])) /\ budget'.failures <= budget.failures
  BY <1>1 DEF RoutineSound, WorkersKnow, RoutineTyped
<1> QED BY <1>1, <1>2, <1>3, <1>4, SideStepAlone

(* A step that writes the row.                                             *)
LEMMA RowStep ==
  ASSUME RoutineInv, RoutineTyped', UNCHANGED <<scene, now>>,
         \A w \in Workers : Knows(flight'[w]),
         RunsAreDue', GoneIsOff', CreateComesFirst', OffHolds', RowIsPast',
         budget'.failures = budget.failures, budget'.asks \subseteq budget.asks
  PROVE  RoutineInv'
<1> USE DEF RoutineInv, RoutineSound
<1>1. WorkersKnow'
  BY DEF WorkersKnow, Knows
<1>2. BudgetShrinks'
  BY DEF BudgetShrinks
<1> QED BY <1>1, <1>2

LEMMA WakeClaimsKeeps ==
  ASSUME RoutineInv, NEW w \in Workers, wakeClaims(w)
  PROVE  RoutineInv'
<1> USE DEF RoutineInv
<1> DEFINE f == flight[w]
<1>1. /\ UNCHANGED <<scene, now, wake, job, rec, lock, user, want, budget>>
      /\ f \in FlightState /\ f.pc = "claim" /\ Knows(f) /\ routine \in RoutineRow
      /\ run \in [RunIds -> RunState] /\ flight \in [Workers -> FlightState]
      /\ \A v \in Workers : Knows(flight[v])
  BY DEF wakeClaims, RoutineTyped, RoutineSound, WorkersKnow
<1>2. CASE ~Claimable(w)
  <2>1. flight' = [flight EXCEPT ![w] = NoFlight] /\ UNCHANGED <<routine, run>>
    BY <1>2 DEF wakeClaims
  <2>2. flight' \in [Workers -> FlightState] /\ \A v \in Workers : Knows(flight'[v])
    BY <2>1, FlightEnds DEF RoutineSound
  <2>3. RoutineTyped' /\ budget'.failures <= budget.failures
    BY <1>1, <2>1, <2>2 DEF RoutineTyped
  <2> QED BY <1>1, <2>1, <2>2, <2>3, SideStepAlone
<1>3. CASE Claimable(w)
  <2>1. PICK r \in RunIds :
          /\ run[r].state = "none"
          /\ routine' = [routine EXCEPT !.ran = TRUE, !.next = f.next, !.active = f.next # Null]
          /\ run' = [run EXCEPT ![r] = [state |-> "queued", for |-> f.for]]
          /\ flight' = [flight EXCEPT ![w].pc = "enqueue", ![w].run = r]
    BY <1>3 DEF wakeClaims
  <2>2. /\ f.for \in Date /\ f.next \in Date /\ f.for # Null /\ f.for <= now
        /\ f.next # Null => f.for < f.next
        /\ f.next = Null <=> scene.once
    BY <1>1 DEF FlightState, Knows
  <2>3. routine.exists /\ routine.active /\ routine.next = f.for
    BY <1>3 DEF Claimable
  <2>4. /\ routine' \in RoutineRow /\ routine'.exists /\ routine'.next = f.next
    BY <1>1, <2>1, <2>2, <2>3 DEF RoutineRow
  <2>5. /\ run' \in [RunIds -> RunState] /\ run'[r].for = f.for /\ run'[r].state = "queued"
        /\ \A q \in RunIds \ {r} : run'[q] = run[q]
    BY <1>1, <2>1, <2>2 DEF RunState
  <2>6. PICK g \in FlightState : flight' = [flight EXCEPT ![w] = g] /\ Knows(g)
    <3> DEFINE g == [f EXCEPT !.pc = "enqueue", !.run = r]
    <3>1. flight' = [flight EXCEPT ![w] = g]
      BY <1>1, <2>1
    <3>2. g \in FlightState /\ g.pc = "enqueue" /\ g.for = f.for /\ g.next = f.next /\ g.run = r
      BY <1>1 DEF FlightState
    <3>3. Knows(g)
      BY <2>2, <3>2 DEF Knows
    <3> QED BY <3>1, <3>2, <3>3
  <2>7. /\ flight' \in [Workers -> FlightState] /\ flight'[w] = g
        /\ \A v \in Workers \ {w} : flight'[v] = flight[v]
    BY <1>1, <2>6, FlightOne
  <2>8. RoutineTyped'
    BY <1>1, <2>4, <2>5, <2>7 DEF RoutineTyped
  <2>9. \A v \in Workers : Knows(flight'[v])
    BY <1>1, <2>6, <2>7
  <2>10. RunsAreDue' /\ GoneIsOff'
    BY <1>1, <2>2, <2>4, <2>5 DEF RoutineSound, RunsAreDue, GoneIsOff
  <2>11. CreateComesFirst'
    BY <1>1, <2>3 DEF RoutineSound, CreateComesFirst
  <2>12. OffHolds'
    BY <1>1, <2>3 DEF RoutineSound, OffHolds
  <2>13. RowIsPast'
    <3> SUFFICES ASSUME Plain
                 PROVE  /\ user'.pc \notin {"write", "sync", "undo"}
                        /\ \A i \in RunIds :
                             Fired(i)' => routine'.next = Null \/ run'[i].for < routine'.next
                        /\ \A i, q \in RunIds :
                             Fired(i)' /\ Fired(q)' /\ run'[i].for = run'[q].for => i = q
      BY <1>1 DEF RowIsPast, Plain
    <3>1. /\ user.pc \notin {"write", "sync", "undo"}
          /\ \A q \in RunIds : Fired(q) => run[q].for < f.for
          /\ \A i, q \in RunIds : Fired(i) /\ Fired(q) /\ run[i].for = run[q].for => i = q
      BY <2>2, <2>3 DEF RoutineSound, RowIsPast
    <3>2. \A q \in RunIds \ {r} : (Fired(q)' <=> Fired(q)) /\ run'[q].for = run[q].for
      BY <2>5 DEF Fired
    <3>3. \A q \in RunIds : run[q].for \in Date /\ run'[q].for \in Date
      BY <1>1, <2>5 DEF RunState
    <3>4. Date \subseteq Nat
      BY RoutineNumbers
    <3>5. ASSUME NEW q \in RunIds \ {r}, Fired(q)'
          PROVE  run'[q].for < f.for /\ run'[q].for # f.for
      <4>1. Fired(q) /\ run'[q].for = run[q].for
        BY <3>2, <3>5
      <4>2. run[q].for < f.for /\ run[q].for \in Nat /\ f.for \in Nat
        BY <2>2, <3>1, <3>3, <3>4, <4>1
      <4> QED BY <4>1, <4>2
    <3>6. ASSUME NEW i \in RunIds, Fired(i)', f.next # Null
          PROVE  run'[i].for < f.next
      <4>1. f.for \in Nat /\ f.next \in Nat /\ run'[i].for \in Nat /\ f.for < f.next
        BY <2>2, <3>3, <3>4, <3>6
      <4>2. run'[i].for = f.for \/ run'[i].for < f.for
        BY <2>5, <3>5, <3>6
      <4> QED BY <4>1, <4>2
    <3>7. \A i \in RunIds : Fired(i)' => routine'.next = Null \/ run'[i].for < routine'.next
      BY <2>4, <3>6
    <3> QED BY <1>1, <2>5, <3>1, <3>2, <3>5, <3>7
  <2> QED BY <1>1, <2>8, <2>9, <2>10, <2>11, <2>12, <2>13, RowStep
<1> QED BY <1>2, <1>3

LEMMA WakeRestoresKeeps ==
  ASSUME RoutineInv, NEW w \in Workers, wakeRestores(w)
  PROVE  RoutineInv'
<1> USE DEF RoutineInv
<1> DEFINE f == flight[w]
<1>1. /\ UNCHANGED <<scene, now, rec, lock, user, want, budget>>
      /\ f \in FlightState /\ f.pc = "restore" /\ Knows(f) /\ routine \in RoutineRow
      /\ run \in [RunIds -> RunState] /\ job \subseteq RunIds /\ Retry(w)
  BY DEF wakeRestores, RoutineTyped, RoutineSound, WorkersKnow
<1>2. /\ f.for \in Date /\ f.next \in Date /\ f.ran \in BOOLEAN /\ f.run \in RunIds
      /\ f.next = Null <=> scene.once
      /\ scene.failures > 0
  BY <1>1 DEF FlightState, Knows
<1>3. /\ run' \in [RunIds -> RunState] /\ job' \subseteq RunIds
      /\ \A r \in RunIds : /\ run'[r] = run[r] \/ (run'[r].state = "none" /\ run'[r].for = Null)
  <2>1. CASE run[f.run].state = "queued"
    <3>1. /\ run' = [run EXCEPT ![f.run] = [state |-> "none", for |-> Null]]
          /\ job' = job \ {f.run}
      BY <2>1 DEF wakeRestores
    <3>2. [state |-> "none", for |-> Null] \in RunState
      BY RoutineNumbers DEF RunState
    <3> QED BY <1>1, <1>2, <3>1, <3>2
  <2>2. CASE run[f.run].state # "queued"
    BY <1>1, <2>2 DEF wakeRestores
  <2> QED BY <2>1, <2>2
<1>4. /\ flight' \in [Workers -> FlightState] /\ wake' \in Date
      /\ \A v \in Workers : Knows(flight'[v])
  BY <1>1, RetryDoes DEF RoutineSound
<1>5. /\ routine' \in RoutineRow
      /\ routine' = routine \/ (Restorable(w) /\ routine'.exists)
  <2>1. CASE Restorable(w)
    <3>1. routine' = [routine EXCEPT !.next = f.for, !.active = TRUE, !.ran = f.ran]
      BY <2>1 DEF wakeRestores
    <3>2. routine.exists
      BY <2>1 DEF Restorable
    <3> QED BY <1>1, <1>2, <2>1, <3>1, <3>2 DEF RoutineRow
  <2>2. CASE ~Restorable(w)
    BY <1>1, <2>2 DEF wakeRestores
  <2> QED BY <2>1, <2>2
<1>6. RoutineTyped'
  BY <1>1, <1>3, <1>4, <1>5 DEF RoutineTyped
<1>7. RunsAreDue'
  <2>1. Null <= now
    BY RoutineNumbers DEF RoutineTyped
  <2> QED BY <1>1, <1>3, <2>1 DEF RoutineSound, RunsAreDue
<1>8. GoneIsOff'
  BY <1>5 DEF RoutineSound, GoneIsOff
<1>9. CreateComesFirst'
  <2>1. Restorable(w) => routine.exists
    BY DEF Restorable
  <2> QED BY <1>1, <1>3, <1>5, <2>1 DEF RoutineSound, CreateComesFirst
<1>10. OffHolds'
  <2>1. ASSUME ~want, ~(scene.once /\ scene.failures > 0) PROVE ~Restorable(w)
    <3>1. f.next # Null
      BY <1>2, <2>1
    <3>2. routine.next = Null
      BY <2>1 DEF RoutineSound, OffHolds
    <3> QED BY <3>1, <3>2 DEF Restorable
  <2> QED BY <1>1, <1>5, <2>1 DEF RoutineSound, OffHolds
<1>11. RowIsPast'
  BY <1>1, <1>2 DEF RowIsPast, Plain
<1> QED BY <1>1, <1>4, <1>6, <1>7, <1>8, <1>9, <1>10, <1>11, RowStep

-----------------------------------------------------------------------------
(* The reconcilers, time and deaths *)

(* The wakeup's job is enqueued, cancelled or lost, and nothing else.      *)
LEMMA QueueStep ==
  ASSUME RoutineInv, UNCHANGED <<scene, now, routine, run, want>>,
         \/ UNCHANGED flight
         \/ flight' = Detached
         \/ \E w \in Workers : flight' \in {[flight EXCEPT ![w] = NoFlight],
                                            [Detached EXCEPT ![w] = NoFlight]},
         wake' \in Date, job' \subseteq RunIds,
         rec' \in [Workers -> RecState], lock' \in Workers \cup {NoWorker},
         UNCHANGED budget
           \/ (MayFail /\ Spent)
           \/ (budget.deaths > 0 /\ budget' = [budget EXCEPT !.deaths = @ - 1]),
         UNCHANGED user
           \/ user' = NoRequest
           \/ (~Plain /\ user' = [user EXCEPT !.pc = "undo"] /\ user.pc = "enqueue")
  PROVE  RoutineInv'
<1> USE DEF RoutineInv
<1>1. flight' \in [Workers -> FlightState] /\ \A v \in Workers : Knows(flight'[v])
  <2>1. CASE UNCHANGED flight
    BY <2>1 DEF RoutineTyped, RoutineSound, WorkersKnow
  <2>2. CASE flight' = Detached
    BY <2>2, DetachedDoes DEF RoutineSound
  <2>3. ASSUME NEW w \in Workers,
               flight' \in {[flight EXCEPT ![w] = NoFlight], [Detached EXCEPT ![w] = NoFlight]}
        PROVE  flight' \in [Workers -> FlightState] /\ \A v \in Workers : Knows(flight'[v])
    BY <2>3, FlightEnds DEF RoutineSound
  <2> QED BY <2>1, <2>2, <2>3
<1>2. /\ budget' \in [failures : Nat, deaths : Nat, asks : SUBSET Requests]
      /\ budget'.failures <= budget.failures /\ budget'.asks \subseteq budget.asks
  <2>1. CASE UNCHANGED budget
    BY <2>1 DEF RoutineTyped
  <2>2. CASE MayFail /\ Spent
    BY <2>2, SpentDoes
  <2>3. CASE budget.deaths > 0 /\ budget' = [budget EXCEPT !.deaths = @ - 1]
    BY <2>3 DEF RoutineTyped
  <2> QED BY <2>1, <2>2, <2>3
<1>3. user' \in RequestState
  <2>1. CASE UNCHANGED user
    BY <2>1 DEF RoutineTyped
  <2>2. CASE user' = NoRequest
    BY <2>2, RoutineNumbers DEF NoRequest, RequestState
  <2>3. CASE user' = [user EXCEPT !.pc = "undo"]
    BY <2>3 DEF RoutineTyped, RequestState
  <2> QED BY <2>1, <2>2, <2>3
<1>4. /\ user'.pc \in {"write", "sync"} => user' = user
      /\ user'.pc \in {"enqueue", "undo"} => user.pc \in {"enqueue", "undo"} /\ user'.after = user.after
      /\ Plain /\ user'.pc = "undo" => user' = user
  <2>1. CASE UNCHANGED user
    BY <2>1
  <2>2. CASE user' = NoRequest
    BY <2>2 DEF NoRequest
  <2>3. CASE ~Plain /\ user' = [user EXCEPT !.pc = "undo"] /\ user.pc = "enqueue"
    BY <2>3 DEF RoutineTyped, RequestState
  <2> QED BY <2>1, <2>2, <2>3
<1>5. RoutineTyped'
  BY <1>1, <1>2, <1>3, <1>4 DEF RoutineTyped
<1>6. Plain => user'.pc \notin {"write", "sync", "undo"}
  BY <1>4 DEF RoutineSound, RowIsPast
<1> QED BY <1>1, <1>2, <1>4, <1>5, <1>6, SideStep

LEMMA RecSets ==
  ASSUME RoutineTyped, NEW w \in Workers
  PROVE  /\ rec \in [Workers -> RecState] /\ rec[w] \in RecState /\ wake \in Date
         /\ job \subseteq RunIds /\ lock \in Workers \cup {NoWorker}
         /\ routine.next \in Date /\ Null \in Date
BY RoutineNumbers DEF RoutineTyped, RoutineRow

LEMMA ReconcilerKeeps ==
  ASSUME RoutineInv, NEW w \in Workers,
         \/ tryAcquire(w) \/ reconcileScans(w) \/ leaderDisconnects(w) \/ loseClient(w)
  PROVE  RoutineInv'
<1> USE RecSets DEF RoutineInv
<1>1. CASE tryAcquire(w)
  <2>1. rec' \in [Workers -> RecState] /\ lock' \in Workers \cup {NoWorker}
    BY <1>1 DEF tryAcquire, RecState
  <2> QED BY <1>1, <2>1, QueueStep DEF tryAcquire
<1>2. CASE reconcileScans(w)
  <2>1. rec' \in [Workers -> RecState]
    <3>1. PICK date \in Date :
            rec' = [rec EXCEPT ![w].pc = "enqueue", ![w].runs = Scanned, ![w].wake = date]
      BY <1>2 DEF reconcileScans
    <3>2. Scanned \subseteq RunIds
      BY DEF Scanned
    <3> HIDE DEF Scanned
    <3> QED BY <3>1, <3>2 DEF RecState
  <2> QED BY <1>2, <2>1, QueueStep DEF reconcileScans
<1>3. CASE leaderDisconnects(w)
  <2>1. lock' \in Workers \cup {NoWorker}
    BY <1>3 DEF leaderDisconnects
  <2> QED BY <1>3, <2>1, QueueStep DEF leaderDisconnects
<1>4. CASE loseClient(w)
  <2>1. rec' \in [Workers -> RecState]
    BY <1>4 DEF loseClient, RecState
  <2> QED BY <1>4, <2>1, QueueStep DEF loseClient
<1> QED BY <1>1, <1>2, <1>3, <1>4

LEMMA ReconcileEnqueuesKeeps ==
  ASSUME RoutineInv, NEW w \in Workers, reconcileEnqueues(w)
  PROVE  RoutineInv'
<1> USE RecSets DEF RoutineInv
<1>1. /\ UNCHANGED <<scene, now, routine, run, lock, user, want>>
      /\ rec' = [rec EXCEPT ![w].pc = "idle", ![w].wake = Null, ![w].runs = {}]
  BY DEF reconcileEnqueues
<1>2. PICK failed \in {"none", "wake", "runs"} :
        /\ IF failed = "none" THEN UNCHANGED budget ELSE MayFail /\ Spent
        /\ job' = IF failed = "runs" THEN job
                  ELSE job \cup {r \in rec[w].runs : run[r].state = "queued"}
        /\ IF failed = "wake" \/ rec[w].wake = Null THEN UNCHANGED <<wake, flight>>
           ELSE wake' = rec[w].wake /\ flight' = Detached
  BY DEF reconcileEnqueues
<1>3. rec[w].wake \in Date /\ rec[w].runs \subseteq RunIds
  BY DEF RecState
<1>4. rec' \in [Workers -> RecState]
  BY <1>1 DEF RecState
<1>5. wake' \in Date /\ job' \subseteq RunIds /\ (UNCHANGED flight \/ flight' = Detached)
  BY <1>2, <1>3
<1>6. UNCHANGED budget \/ (MayFail /\ Spent)
  BY <1>2
<1> QED BY <1>1, <1>4, <1>5, <1>6, QueueStep

LEMMA WorkerDiesKeeps ==
  ASSUME RoutineInv, NEW w \in Workers, WorkerDies(w)
  PROVE  RoutineInv'
<1> USE RecSets DEF RoutineInv
<1>1. /\ UNCHANGED <<scene, now, routine, run, user, want>>
      /\ budget.deaths > 0 /\ budget' = [budget EXCEPT !.deaths = @ - 1]
      /\ flight' = [flight EXCEPT ![w] = NoFlight]
      /\ lock' \in Workers \cup {NoWorker}
      /\ rec' = [rec EXCEPT ![w] = Follows]
  BY DEF WorkerDies, Retry
<1>2. rec' \in [Workers -> RecState]
  BY <1>1 DEF Follows, RecState
<1>3. wake' \in Date /\ job' \subseteq RunIds
  <2>1. CASE scene.durable
    BY <2>1, RetryDoes DEF WorkerDies
  <2>2. CASE ~scene.durable
    BY <2>2 DEF WorkerDies
  <2> QED BY <2>1, <2>2
<1> QED BY <1>1, <1>2, <1>3, QueueStep

LEMMA TickKeeps ==
  ASSUME RoutineInv, Tick
  PROVE  RoutineInv'
<1> USE DEF RoutineInv
<1>1. /\ UNCHANGED <<scene, routine, wake, job, run, flight, rec, lock, user, want, budget>>
      /\ now \in Nat /\ now' = now + 1 /\ now' \in 0 .. Horizon
  BY RoutineNumbers DEF Tick, RoutineTyped
<1>2. RoutineTyped'
  BY <1>1 DEF RoutineTyped
<1>3. \A d \in Date : d <= now => d <= now'
  BY <1>1, RoutineNumbers
<1>4. WorkersKnow'
  <2> SUFFICES ASSUME NEW w \in Workers PROVE Knows(flight[w])'
    BY DEF WorkersKnow
  <2>1. Knows(flight[w]) /\ flight[w].for \in Date
    BY DEF RoutineSound, WorkersKnow, RoutineTyped, FlightState
  <2> QED BY <1>1, <1>3, <2>1 DEF Knows
<1>5. RunsAreDue'
  <2>1. \A r \in RunIds : run[r].for \in Date
    BY DEF RoutineTyped, RunState
  <2> QED BY <1>1, <1>3, <2>1 DEF RoutineSound, RunsAreDue
<1>6. BudgetShrinks' /\ GoneIsOff' /\ CreateComesFirst' /\ OffHolds'
  BY <1>1 DEF RoutineSound, BudgetShrinks, GoneIsOff, CreateComesFirst, OffHolds
<1>7. RowIsPast'
  BY <1>1 DEF RoutineSound, RowIsPast, Plain, Fired
<1> QED BY <1>2, <1>4, <1>5, <1>6, <1>7 DEF RoutineSound

-----------------------------------------------------------------------------
(* The user *)

LEMMA AskedIsNamed ==
  ASSUME RoutineTyped, RoutineSound, NEW a \in Requests, Asks(a)
  PROVE  /\ budget' \in [failures : Nat, deaths : Nat, asks : SUBSET Requests]
         /\ budget'.failures = budget.failures /\ budget'.asks = budget.asks \ {a}
         /\ a \in scene.asks /\ user.pc = "idle"
BY DEF Asks, RoutineTyped, RoutineSound, BudgetShrinks

LEMMA UpdateReadsKeeps ==
  ASSUME RoutineInv, NEW a \in {"rename", "reschedule", "on", "off"}, updateReads(a)
  PROVE  RoutineInv'
<1> USE DEF RoutineInv
<1>1. /\ UNCHANGED <<scene, now, routine, wake, job, run, flight, rec, lock, want>>
      /\ user' = [NoRequest EXCEPT !.pc = "write", !.ask = a, !.before = routine,
                                   !.fresh = Occurrence(now)]
      /\ Asks(a) /\ a \in Requests
  BY DEF updateReads, Requests
<1>2. /\ budget' \in [failures : Nat, deaths : Nat, asks : SUBSET Requests]
      /\ budget'.failures = budget.failures /\ budget'.asks = budget.asks \ {a}
      /\ a \in scene.asks
  BY <1>1, AskedIsNamed
<1>3. user' \in RequestState /\ user'.pc = "write" /\ user'.before = routine
  <2>1. Occurrence(now) \in Date /\ Null \in Date /\ routine \in RoutineRow
    BY RoutineNumbers DEF Occurrence, RoutineTyped
  <2> QED BY <1>1, <2>1 DEF NoRequest, RequestState
<1>4. RoutineTyped'
  BY <1>1, <1>2, <1>3 DEF RoutineTyped
<1>5. ~Plain
  BY <1>2 DEF Plain
<1>6. (\A w \in Workers : Knows(flight'[w])) /\ budget'.failures <= budget.failures
  BY <1>1, <1>2 DEF RoutineSound, WorkersKnow, RoutineTyped
<1> QED BY <1>1, <1>2, <1>3, <1>4, <1>5, <1>6, SideStep

(* The next date of an update is one, and none where the routine is off.   *)
LEMMA NextOfDoes ==
  ASSUME RoutineTyped, user.pc = "write"
  PROVE  /\ NextOf \in Date /\ Active \in BOOLEAN
         /\ ~Active => NextOf = Null
         /\ user.ask = "off" => ~Active
         /\ user.ask \notin {"on", "off"} => Active = user.before.active
<1>1. user.before \in RoutineRow /\ user.fresh \in Date /\ Null \in Date
  BY RoutineNumbers DEF RoutineTyped, RequestState
<1>2. user.before.next \in Date /\ user.before.active \in BOOLEAN
  BY <1>1 DEF RoutineRow
<1>3. Active \in BOOLEAN
  BY <1>2 DEF Active
<1>4. (user.ask = "off" => ~Active) /\ (user.ask \notin {"on", "off"} => Active = user.before.active)
  BY DEF Active
<1>5. NextOf \in Date /\ (~Active => NextOf = Null)
  BY <1>1, <1>2, <1>3 DEF NextOf
<1> QED BY <1>3, <1>4, <1>5

LEMMA UpdateWritesKeeps ==
  ASSUME RoutineInv, updateWrites
  PROVE  RoutineInv'
<1> USE DEF RoutineInv
<1>1. /\ UNCHANGED <<scene, now, wake, job, run, flight, rec, lock, budget>>
      /\ user.pc = "write" /\ routine \in RoutineRow /\ user \in RequestState
      /\ (\A w \in Workers : Knows(flight'[w]))
      /\ budget'.failures <= budget.failures
  BY DEF updateWrites, RoutineTyped, RoutineSound, WorkersKnow
<1>2. ~Plain
  BY <1>1 DEF RoutineSound, RowIsPast
<1>3. CASE ~routine.exists
  <2>1. user' = NoRequest /\ UNCHANGED <<routine, want>>
    BY <1>3 DEF updateWrites
  <2> QED BY <1>1, <2>1, RecSets, QueueStep DEF RoutineTyped
<1>4. CASE routine.exists
  <2>1. /\ routine' = [routine EXCEPT !.next = NextOf,
                        !.active = IF user.ask \in {"on", "off"} THEN Active ELSE @]
        /\ want' = IF user.ask \in {"on", "off"} THEN Active ELSE want
        /\ user' = [user EXCEPT !.pc = "sync", !.after = routine']
    BY <1>4 DEF updateWrites
  <2>2. /\ NextOf \in Date /\ Active \in BOOLEAN
        /\ ~Active => NextOf = Null
        /\ user.ask = "off" => ~Active
        /\ user.ask \notin {"on", "off"} => Active = user.before.active
    BY <1>1, NextOfDoes
  <2>3. PICK on \in BOOLEAN : on = IF user.ask \in {"on", "off"} THEN Active ELSE routine.active
    BY <1>1, <2>2 DEF RoutineRow
  <2>4. /\ routine' \in RoutineRow /\ routine'.exists /\ routine'.next = NextOf
        /\ routine'.active = on
    <3>1. routine' = [routine EXCEPT !.next = NextOf, !.active = on]
      BY <1>1, <2>1, <2>3 DEF RoutineRow
    <3> QED BY <1>1, <1>4, <2>2, <3>1 DEF RoutineRow
  <2>5. user' \in RequestState /\ user'.pc = "sync" /\ user'.after \in RoutineRow
        /\ user'.before = user.before
    BY <1>1, <2>1, <2>4 DEF RequestState
  <2>6. want' \in BOOLEAN
    BY <2>1, <2>2 DEF RoutineTyped
  <2>7. RoutineTyped'
    BY <1>1, <2>4, <2>5, <2>6 DEF RoutineTyped
  <2>8. RunsAreDue' /\ GoneIsOff'
    BY <1>1, <2>4 DEF RoutineSound, RunsAreDue, GoneIsOff
  <2>9. CreateComesFirst'
    BY <1>1, <1>4 DEF RoutineSound, CreateComesFirst
  <2>10. OffHolds'
    <3> SUFFICES ASSUME ~want', ~(scene.once /\ scene.failures > 0)
                 PROVE  ~on /\ NextOf = Null
      BY <1>1, <2>4, <2>5 DEF OffHolds
    <3>1. CASE user.ask \in {"on", "off"}
      BY <2>1, <2>2, <2>3, <3>1
    <3>2. CASE user.ask \notin {"on", "off"}
      <4>1. ~want
        BY <2>1, <3>2
      <4>2. ~routine.active /\ ~user.before.active
        BY <1>1, <4>1 DEF RoutineSound, OffHolds
      <4> QED BY <2>2, <2>3, <3>2, <4>2
    <3> QED BY <3>1, <3>2
  <2>11. RowIsPast'
    BY <1>1, <1>2 DEF RowIsPast, Plain
  <2> QED BY <1>1, <2>7, <2>8, <2>9, <2>10, <2>11, RowStep
<1> QED BY <1>3, <1>4

LEMMA RequestEndsKeeps ==
  ASSUME RoutineInv, updateSyncs \/ removeCancels \/ createEnqueues
  PROVE  RoutineInv'
<1> USE RecSets DEF RoutineInv
<1>1. CASE updateSyncs
  <2>1. wake' \in Date
    BY <1>1, RoutineNumbers DEF updateSyncs, RoutineTyped, RoutineRow
  <2> QED BY <1>1, <2>1, QueueStep DEF updateSyncs, RoutineTyped
<1>2. CASE removeCancels
  <2>1. wake' \in Date
    BY <1>2, RoutineNumbers DEF removeCancels, RoutineTyped
  <2> QED BY <1>2, <2>1, QueueStep DEF removeCancels, RoutineTyped
<1>3. CASE createEnqueues
  <2>1. wake' \in Date
    BY <1>3 DEF createEnqueues, RoutineTyped, RoutineRow
  <2>2. UNCHANGED user \/ user' = NoRequest
          \/ (~Plain /\ user' = [user EXCEPT !.pc = "undo"] /\ user.pc = "enqueue")
    BY <1>3, PlainCannotFail DEF createEnqueues
  <2> QED BY <1>3, <2>1, <2>2, QueueStep DEF createEnqueues, RoutineTyped
<1> QED BY <1>1, <1>2, <1>3

LEMMA RemoveReadsKeeps ==
  ASSUME RoutineInv, removeReads
  PROVE  RoutineInv'
<1> USE DEF RoutineInv
<1>1. /\ UNCHANGED <<scene, now, routine, wake, job, run, flight, rec, lock, want>>
      /\ user' = [NoRequest EXCEPT !.pc = "delete", !.ask = "remove"]
      /\ Asks("remove") /\ "remove" \in Requests
  BY DEF removeReads, Requests
<1>2. /\ budget' \in [failures : Nat, deaths : Nat, asks : SUBSET Requests]
      /\ budget'.failures = budget.failures /\ budget'.asks = budget.asks \ {"remove"}
  BY <1>1, AskedIsNamed
<1>3. user' \in RequestState /\ user'.pc = "delete"
  <2>1. Null \in Date /\ NoRequest = [pc |-> "idle", ask |-> "none", before |-> <<>>, after |-> <<>>,
                                      fresh |-> Null]
    BY RoutineNumbers DEF NoRequest
  <2> QED BY <1>1, <2>1 DEF RequestState
<1>4. RoutineTyped'
  BY <1>1, <1>2, <1>3 DEF RoutineTyped
<1>5. (\A w \in Workers : Knows(flight'[w])) /\ budget'.failures <= budget.failures
  BY <1>1, <1>2 DEF RoutineSound, WorkersKnow, RoutineTyped
<1> QED BY <1>1, <1>2, <1>3, <1>4, <1>5, SideStep

(* The row goes: a removal, or the undoing of a creation.                  *)
LEMMA RowGoesKeeps ==
  ASSUME RoutineInv, removeDeletes \/ createUndoes
  PROVE  RoutineInv'
<1> USE DEF RoutineInv
<1>1. /\ UNCHANGED <<scene, now, wake, job, run, flight, rec, lock, want, budget>>
      /\ routine' = Gone
      /\ user' \in {[user EXCEPT !.pc = "cancel"], NoRequest}
  BY DEF removeDeletes, createUndoes
<1>2. routine' \in RoutineRow /\ ~routine'.exists /\ ~routine'.active /\ routine'.next = Null
  BY <1>1, RoutineNumbers DEF Gone, RoutineRow
<1>3. user' \in RequestState /\ user'.pc \in {"cancel", "idle"}
  BY <1>1, RoutineNumbers DEF NoRequest, RequestState, RoutineTyped
<1>4. RoutineTyped'
  BY <1>1, <1>2, <1>3 DEF RoutineTyped
<1>5. \A w \in Workers : Knows(flight'[w])
  BY <1>1 DEF RoutineSound, WorkersKnow
<1>6. RunsAreDue' /\ GoneIsOff' /\ CreateComesFirst' /\ OffHolds'
  BY <1>1, <1>2, <1>3 DEF RoutineSound, RunsAreDue, GoneIsOff, CreateComesFirst, OffHolds
<1>7. RowIsPast'
  BY <1>1, <1>2, <1>3 DEF RoutineSound, RowIsPast, Plain, Fired
<1> QED BY <1>1, <1>4, <1>5, <1>6, <1>7, RowStep

LEMMA CreateRowKeeps ==
  ASSUME RoutineInv, createRow
  PROVE  RoutineInv'
<1> USE DEF RoutineInv
<1>1. /\ UNCHANGED <<scene, now, wake, job, run, flight, rec, lock, want>>
      /\ routine' = [exists |-> TRUE, active |-> TRUE, next |-> Occurrence(now), ran |-> FALSE]
      /\ user' = [NoRequest EXCEPT !.pc = "enqueue", !.ask = "create", !.after = routine']
      /\ Asks("create") /\ "create" \in Requests /\ "create" \in budget.asks
  BY DEF createRow, Asks, Requests
<1>2. /\ budget' \in [failures : Nat, deaths : Nat, asks : SUBSET Requests]
      /\ budget'.failures = budget.failures /\ budget'.asks = budget.asks \ {"create"}
  BY <1>1, AskedIsNamed
<1>3. want /\ \A r \in RunIds : run[r].state = "none"
  BY <1>1 DEF RoutineSound, CreateComesFirst
<1>4. routine' \in RoutineRow /\ routine'.exists
  <2>1. Occurrence(now) \in Date
    BY RoutineNumbers DEF Occurrence, RoutineTyped
  <2> QED BY <1>1, <2>1 DEF RoutineRow
<1>5. user' \in RequestState /\ user'.pc = "enqueue" /\ user'.after = routine'
  <2>1. Null \in Date /\ NoRequest = [pc |-> "idle", ask |-> "none", before |-> <<>>, after |-> <<>>,
                                      fresh |-> Null]
    BY RoutineNumbers DEF NoRequest
  <2> QED BY <1>1, <1>4, <2>1 DEF RequestState
<1>6. RoutineTyped'
  BY <1>1, <1>2, <1>4, <1>5 DEF RoutineTyped
<1>7. \A w \in Workers : Knows(flight'[w])
  BY <1>1 DEF RoutineSound, WorkersKnow
<1>8. RunsAreDue' /\ GoneIsOff' /\ CreateComesFirst' /\ OffHolds'
  BY <1>1, <1>2, <1>3, <1>4, <1>5 DEF RoutineSound, RunsAreDue, GoneIsOff, CreateComesFirst, OffHolds
<1>9. RowIsPast'
  BY <1>1, <1>3, <1>5 DEF RoutineSound, RowIsPast, Plain, Fired
<1> QED BY <1>1, <1>2, <1>6, <1>7, <1>8, <1>9, RowStep

-----------------------------------------------------------------------------
(* The routine: the theorems *)

LEMMA RoutineInitHolds == RoutineInit => RoutineInv
<1> SUFFICES ASSUME RoutineInit PROVE RoutineInv
  OBVIOUS
<1> USE DEF RoutineInit
<1>1. /\ scene \in Routines /\ scene.first \in Date /\ Null \in Date /\ scene.asks \subseteq Requests
      /\ scene.failures \in Nat /\ scene.deaths \in Nat /\ now \in 0 .. Horizon
  BY RoutineNumbers
<1>2. Follows \in RecState /\ NoRequest \in RequestState /\ user.pc = "idle"
  BY <1>1 DEF Follows, RecState, NoRequest, RequestState
<1>3. routine \in RoutineRow /\ wake \in Date
      /\ (~routine.exists => ~routine.active /\ routine.next = Null)
      /\ ("create" \in scene.asks => ~routine.exists)
  BY <1>1 DEF Gone, RoutineRow
<1>4. run \in [RunIds -> RunState] /\ \A r \in RunIds : run[r].state = "none" /\ run[r].for = Null
  BY <1>1 DEF RunState
<1>5. RoutineTyped
  BY <1>1, <1>2, <1>3, <1>4, NoFlightTyped DEF RoutineTyped
<1>6. WorkersKnow /\ RunsAreDue
  BY <1>1, <1>4, NoFlightTyped DEF WorkersKnow, RunsAreDue, Null
<1>7. BudgetShrinks /\ GoneIsOff /\ CreateComesFirst /\ OffHolds
  BY <1>1, <1>3, <1>4 DEF BudgetShrinks, GoneIsOff, CreateComesFirst, OffHolds
<1>8. RowIsPast
  BY <1>2, <1>4 DEF RowIsPast, Fired
<1> QED BY <1>5, <1>6, <1>7, <1>8 DEF RoutineInv, RoutineSound

LEMMA RoutineStepKeeps == RoutineInv /\ [RoutineNext]_routineVars => RoutineInv'
<1> SUFFICES ASSUME RoutineInv, [RoutineNext]_routineVars PROVE RoutineInv'
  OBVIOUS
<1>1. ASSUME NEW w \in Workers, takeWakeup(w) PROVE RoutineInv'
  BY <1>1, TakeWakeupKeeps
<1>2. ASSUME NEW w \in Workers, wakeProceeds(w) PROVE RoutineInv'
  BY <1>2, WakeReadsKeeps, WakeDefersKeeps, WakeClaimsKeeps, WakeEnqueuesKeeps, WakeRestoresKeeps,
     WakeSchedulesKeeps DEF wakeProceeds
<1>3. ASSUME NEW w \in Workers, reconcile(w) PROVE RoutineInv'
  BY <1>3, ReconcilerKeeps, ReconcileEnqueuesKeeps DEF reconcile
<1>4. ASSUME NEW w \in Workers, leaderDisconnects(w) \/ loseClient(w) PROVE RoutineInv'
  BY <1>4, ReconcilerKeeps
<1>5. ASSUME NEW w \in Workers, WorkerDies(w) PROVE RoutineInv'
  BY <1>5, WorkerDiesKeeps
<1>6. ASSUME NEW r \in RunIds, runBegins(r) PROVE RoutineInv'
  BY <1>6, RunBeginsKeeps
<1>7. ASSUME NEW a \in {"rename", "reschedule", "on", "off"}, updateReads(a) PROVE RoutineInv'
  BY <1>7, UpdateReadsKeeps
<1>8. ASSUME userProceeds PROVE RoutineInv'
  BY <1>8, UpdateWritesKeeps, RequestEndsKeeps, RowGoesKeeps DEF userProceeds
<1>9. CASE UNCHANGED routineVars
  BY <1>9 DEF routineVars, RoutineInv, RoutineTyped, RoutineSound, WorkersKnow, Knows, RunsAreDue,
     BudgetShrinks, GoneIsOff, CreateComesFirst, OffHolds, RowIsPast, Plain, Fired
<1> QED BY <1>1, <1>2, <1>3, <1>4, <1>5, <1>6, <1>7, <1>8, <1>9, RemoveReadsKeeps, CreateRowKeeps,
           TickKeeps DEF RoutineNext

LEMMA RoutineInvariant == RoutineSpec => []RoutineInv
BY RoutineInitHolds, RoutineStepKeeps, PTL DEF RoutineSpec

(* Whatever wakeups, reconcilers, requests, failures and deaths do, the    *)
(* state of a routine keeps its types.                                     *)
THEOREM RoutineTypeCorrect == RoutineSpec => []RoutineTypeOK
<1>1. RoutineInv => RoutineTypeOK
  BY DEF RoutineInv, RoutineTyped, RoutineTypeOK, RoutineRow, RunState, FlightState, RecState,
     RequestState
<1> QED BY <1>1, RoutineInvariant, PTL

(* A routine fires when it was asked to, and only then, for any number of  *)
(* workers, reconcilers, runs and occurrences: no occurrence is fired      *)
(* before it has come; none is fired twice, whatever duplicates of its job *)
(* are in flight, where nobody edits the routine and no call of the queue  *)
(* fails; and a routine that is off stays off (executor.ts wakeRoutine,    *)
(* router.ts routines.update).                                             *)
THEOREM RoutineFires == RoutineSpec => []FiresAsAsked
<1>1. RoutineInv => FiresOnce
  BY DEF RoutineInv, RoutineSound, RunsAreDue, RowIsPast, Plain, Fired, FiresOnce
<1>2. RoutineInv => OffStaysOff
  BY DEF RoutineInv, RoutineSound, OffHolds, OffStaysOff
<1> QED BY <1>1, <1>2, RoutineInvariant, PTL DEF FiresAsAsked

-----------------------------------------------------------------------------
(* The cloud agents: the invariant *)

PollOps == {"none", "launch", "cancel", "observe", "reply", "get", "drop"}
PollState ==
  [pc : {"idle", "claim", "check", "mark", "call", "finish", "retry", "release"}, row : Row,
   valid : BOOLEAN, abandoned : BOOLEAN, op : PollOps, data : Update]
AgentTyped ==
  /\ life \in Agents /\ agent \in Row
  /\ remote \in [runs : {0} \cup Runs, refused : BOOLEAN, busy : SUBSET Runs]
  /\ poll \in [Pollers -> PollState]
  /\ reply \in [pc : {"idle", "write"}, valid : BOOLEAN]
  /\ attached \in BOOLEAN /\ wakes \in [Gens -> Nat]
  /\ chance \in [lost : Nat, dies : Nat, lapses : Nat, replies : Gens, cancels : BOOLEAN]

(* Every reply that was or may still be written is counted. *)
RepliesCounted ==
  agent.gen + chance.replies + (IF reply.pc = "write" THEN 1 ELSE 0) <= MaxReplies

(* Before the launch there is no row to poll. *)
NoneYet == agent.status = "none" => agent = NoRow /\ \A p \in Pollers : poll[p].pc = "idle"

(* A poll whose version is the row's has read the row's cancel. *)
CancelRead ==
  \A p \in Pollers : poll[p].pc # "idle" /\ poll[p].valid => poll[p].row.cancel = agent.cancel

(* The bot is told once of each generation that is over. *)
ToldOnce ==
  /\ agent.woken <= agent.gen
  /\ wakes[agent.gen] = IF agent.woken = agent.gen THEN 1 ELSE 0
  /\ \A g \in Gens : g > agent.gen => wakes[g] = 0
  /\ agent.status = "over" /\ attached => agent.woken = agent.gen
  /\ \A p \in Pollers : poll[p].abandoned => ~attached

(* What the row says of the runs: the one that may be running is the last, *)
(* which the row knows unless a follow-up may have been sent.              *)
RowKnowsRuns ==
  /\ agent.dispatching => agent.followup
  /\ agent.followup => agent.remote /\ agent.status = "running"
  /\ remote.busy \subseteq {remote.runs}
  /\ remote.runs > 0 \/ remote.refused => agent.dispatched
  /\ remote.refused => remote.runs = 0
  /\ agent.remote => remote.runs > 0
  /\ ~agent.remote => agent.latest = 0 /\ remote.runs <= 1
  /\ agent.remote /\ ~agent.dispatching => agent.latest = remote.runs
  /\ agent.dispatching => remote.runs \in {agent.latest, agent.latest + 1}
  /\ agent.followup /\ agent.latest = remote.runs => remote.busy = {}

(* Nothing runs of an agent that is over, and nothing will. *)
OverIsQuiet ==
  agent.status = "over" =>
    /\ remote.busy = {} /\ ~agent.request
    /\ ~agent.remote => /\ remote.runs = 0
                        /\ remote.refused \/ \A p \in Pollers : ~Calls(p, "launch")

(* Runs, and a follow-up still to be sent, are no more than generations.   *)
SentAsAsked ==
  /\ remote.runs <= agent.gen + 1
  /\ agent.followup /\ agent.latest = remote.runs => remote.runs <= agent.gen

(* A reply that may be written has read an agent that is over. *)
ReplyRead ==
  reply.pc = "write" /\ reply.valid => agent.status = "over" /\ agent.remote /\ ~agent.followup

(* A follow-up is sent by one poll, before its run is there. *)
SendsAlone ==
  \A p \in Pollers :
    /\ Calls(p, "launch") => agent.dispatched /\ poll[p].row.request
    /\ Calls(p, "reply") => /\ agent.dispatching /\ agent.latest = remote.runs
                            /\ \A q \in Pollers : Calls(q, "reply") => p = q

(* What a poll does follows from the row it has read. *)
Planned(v) ==
  /\ v.pc # "claim"
  /\ v.pc \in {"mark", "call"} =>
       /\ v.data.status = "over" /\ ~v.data.settles
       /\ v.data.latest = v.row.latest /\ v.data.remote = v.row.remote
  /\ v.pc = "mark" => v.op \in {"launch", "reply"}
  /\ v.pc = "call" => v.op \notin {"none", "drop"}
  /\ v.op = "launch" => ~v.row.remote
  /\ v.op = "drop" => \/ ~v.row.remote /\ ~v.row.dispatched
                      \/ v.row.remote /\ v.row.followup /\ ~v.row.dispatching
  /\ v.op = "reply" => v.row.remote /\ v.row.followup /\ ~v.row.dispatching
  /\ v.op = "observe" => v.row.remote /\ v.row.followup /\ v.row.dispatching
  /\ v.op = "cancel" => v.row.remote /\ (v.row.followup => v.row.dispatching)
  /\ v.op = "get" => v.row.remote /\ ~v.row.followup

(* The row that a poll with the lease has read is the row, but for its own *)
(* mark.                                                                   *)
MayWrite(p) == fence(p) /\ poll[p].pc \in {"check", "mark", "call", "finish"}
Marked(p, op) == poll[p].pc \in {"call", "finish"} /\ poll[p].op = op
HolderRead(p) ==
  MayWrite(p) =>
    /\ poll[p].row.remote = agent.remote /\ poll[p].row.latest = agent.latest
    /\ poll[p].row.followup = agent.followup /\ poll[p].row.request = agent.request
    /\ IF Marked(p, "reply") THEN agent.dispatching
       ELSE poll[p].row.dispatching = agent.dispatching
    /\ IF Marked(p, "launch") THEN agent.dispatched
       ELSE poll[p].row.dispatched = agent.dispatched

(* What a poll with the lease is about to write is true.                   *)
LearnedTrue(p) ==
  MayWrite(p) /\ poll[p].pc = "finish" =>
    LET d == poll[p].data IN
    /\ poll[p].op # "none"
    /\ d.status = "over" => remote.busy = {}
    /\ d.settles \/ ~agent.followup
    /\ \A q \in Pollers : ~Calls(q, "reply")
    /\ agent.remote => d.remote
    /\ d.remote => d.latest = remote.runs /\ remote.runs > 0
    /\ ~d.remote => /\ d.latest = 0 /\ remote.runs = 0
                    /\ remote.refused \/ \A q \in Pollers : ~Calls(q, "launch")

AgentSound ==
  /\ RowKnowsRuns /\ OverIsQuiet /\ SentAsAsked /\ ReplyRead /\ SendsAlone
  /\ \A p \in Pollers : Planned(poll[p]) /\ HolderRead(p) /\ LearnedTrue(p)

AgentInv ==
  /\ AgentTyped /\ RepliesCounted /\ NoneYet /\ CancelRead /\ ToldOnce
  /\ ~life.gap => AgentSound

-----------------------------------------------------------------------------
(* Rows and polls, field by field *)

LEMMA AgentNumbers ==
  /\ MaxReplies \in Nat /\ NoPoller \notin Pollers
  /\ {0} \cup Runs = 0 .. MaxReplies + 1 /\ Runs = 1 .. MaxReplies + 1
  /\ Gens = 0 .. MaxReplies
BY AgentAssumption DEF AgentAssumption, Runs, Gens

LEMMA AgentCounts ==
  ASSUME AgentTyped
  PROVE  /\ MaxReplies \in Nat /\ Gens = 0 .. MaxReplies
         /\ agent.gen \in Nat /\ agent.gen <= MaxReplies
         /\ agent.woken \in Int /\ agent.latest \in Nat
         /\ chance.replies \in Nat /\ remote.runs \in Nat /\ 0 \notin remote.busy
BY AgentNumbers DEF AgentTyped, Row

LEMMA NothingTyped ==
  NoRow \in Row /\ NoUpdate \in Update /\ NoPoll \in PollState /\ Planned(NoPoll)
<1>1. NoRow \in Row
  BY AgentNumbers DEF NoRow, Row
<1>2. NoUpdate \in Update
  BY AgentNumbers DEF NoUpdate, Update
<1>3. NoPoll \in PollState
  BY <1>1, <1>2 DEF NoPoll, PollState, PollOps
<1> QED BY <1>1, <1>2, <1>3 DEF NoPoll, Planned

(* The fields that a change of the lease leaves alone. *)
SameIntent(a, b) ==
  /\ b.remote = a.remote /\ b.latest = a.latest /\ b.followup = a.followup
  /\ b.request = a.request /\ b.dispatching = a.dispatching /\ b.dispatched = a.dispatched
SameStory(a, b) ==
  b.status = a.status /\ b.gen = a.gen /\ b.woken = a.woken /\ b.cancel = a.cancel

LEMMA LeaseChanges ==
  ASSUME NEW a \in Row, NEW l \in Pollers \cup {NoPoller}, NEW live \in BOOLEAN
  PROVE  LET b == [a EXCEPT !.lease = l, !.live = live] IN
         b \in Row /\ SameIntent(a, b) /\ SameStory(a, b) /\ b.lease = l /\ b.due = a.due
BY DEF Row, SameIntent, SameStory

(* A poll goes on with what it knows. *)
SameKnown(v, w) ==
  /\ w.row = v.row /\ w.valid = v.valid /\ w.abandoned = v.abandoned /\ w.op = v.op
  /\ w.data = v.data
LEMMA PollGoes ==
  ASSUME AgentTyped, NEW p \in Pollers,
         NEW pc \in {"idle", "claim", "check", "mark", "call", "finish", "retry", "release"},
         poll' = [poll EXCEPT ![p].pc = pc]
  PROVE  /\ poll' \in [Pollers -> PollState] /\ poll'[p].pc = pc /\ SameKnown(poll[p], poll'[p])
         /\ \A q \in Pollers \ {p} : poll'[q] = poll[q]
<1>1. poll[p] \in PollState
  BY DEF AgentTyped
<1>2. [poll[p] EXCEPT !.pc = pc] \in PollState
  BY <1>1 DEF PollState
<1> QED BY <1>1, <1>2 DEF AgentTyped, PollState, SameKnown

LEMMA PollEnds ==
  ASSUME AgentTyped, NEW p \in Pollers, poll' = [poll EXCEPT ![p] = NoPoll]
  PROVE  /\ poll' \in [Pollers -> PollState] /\ poll'[p] = NoPoll
         /\ \A q \in Pollers \ {p} : poll'[q] = poll[q]
BY NothingTyped DEF AgentTyped

LEMMA StaleDoes ==
  ASSUME AgentTyped
  PROVE  /\ Stale \in [Pollers -> PollState]
         /\ \A p \in Pollers :
              /\ ~Stale[p].valid /\ Stale[p].pc = poll[p].pc /\ Stale[p].row = poll[p].row
              /\ Stale[p].abandoned = poll[p].abandoned /\ Stale[p].op = poll[p].op
              /\ Stale[p].data = poll[p].data
<1>1. ASSUME NEW v \in PollState
      PROVE  LET w == [v EXCEPT !.valid = FALSE] IN
             /\ w \in PollState /\ ~w.valid /\ w.pc = v.pc /\ w.row = v.row
             /\ w.abandoned = v.abandoned /\ w.op = v.op /\ w.data = v.data
  BY DEF PollState
<1> QED BY <1>1 DEF AgentTyped, Stale

-----------------------------------------------------------------------------
(* What most steps leave as it is *)

(* A step of a poll or of time that leaves the story of the row alone. *)
LEMMA StoryKept ==
  ASSUME AgentInv, agent.status # "none", SameStory(agent, agent'),
         UNCHANGED <<reply, attached, wakes>>, chance'.replies = chance.replies,
         \A q \in Pollers :
           /\ poll'[q].abandoned => poll[q].abandoned \/ ~attached
           /\ poll'[q].pc # "idle" /\ poll'[q].valid =>
                poll[q].pc # "idle" /\ poll[q].valid /\ poll'[q].row = poll[q].row
  PROVE  RepliesCounted' /\ NoneYet' /\ CancelRead' /\ ToldOnce'
BY DEF AgentInv, SameStory, RepliesCounted, NoneYet, CancelRead, ToldOnce

(* A poll that is not idle has a row. *)
LEMMA Launched ==
  ASSUME AgentInv, NEW p \in Pollers, poll[p].pc # "idle"
  PROVE  agent.status # "none"
BY DEF AgentInv, NoneYet

(* A poll that does nothing while the row's intent stays. *)
LEMMA BystanderKept ==
  ASSUME AgentSound, NEW q \in Pollers, poll'[q] = poll[q], SameIntent(agent, agent'),
         agent'.lease = q => agent.lease = q,
         remote'.busy \subseteq remote.busy, remote'.runs = remote.runs,
         remote.refused => remote'.refused,
         \A p \in Pollers, op \in {"launch", "reply"} : Calls(p, op)' => Calls(p, op)
  PROVE  Planned(poll'[q]) /\ HolderRead(q)' /\ LearnedTrue(q)'
<1> USE DEF AgentSound
<1>1. MayWrite(q)' => MayWrite(q)
  BY DEF MayWrite, fence
<1>2. HolderRead(q)'
  BY <1>1 DEF HolderRead, SameIntent, Marked
<1>3. LearnedTrue(q)'
  BY <1>1 DEF LearnedTrue, SameIntent
<1> QED BY <1>2, <1>3

(* The facts about the row alone, while its intent and the runs stay. *)
LEMMA IntentKept ==
  ASSUME AgentSound, SameIntent(agent, agent'), SameStory(agent, agent'),
         UNCHANGED reply,
         remote'.busy \subseteq remote.busy, remote'.runs = remote.runs,
         remote'.refused = remote.refused,
         \A p \in Pollers : \/ ~Calls(p, "launch")' /\ ~Calls(p, "reply")'
                            \/ poll'[p] = poll[p]
  PROVE  RowKnowsRuns' /\ OverIsQuiet' /\ SentAsAsked' /\ ReplyRead' /\ SendsAlone'
<1> USE DEF AgentSound, SameIntent, SameStory
<1>1. \A p \in Pollers, op \in {"launch", "reply"} : Calls(p, op)' => Calls(p, op) /\ poll'[p] = poll[p]
  BY DEF Calls
<1>2. RowKnowsRuns'
  BY DEF RowKnowsRuns
<1>3. OverIsQuiet'
  BY <1>1 DEF OverIsQuiet
<1>4. SentAsAsked' /\ ReplyRead'
  BY DEF SentAsAsked, ReplyRead
<1>5. SendsAlone'
  BY <1>1 DEF SendsAlone
<1> QED BY <1>2, <1>3, <1>4, <1>5

-----------------------------------------------------------------------------
(* The tools and the user *)

LEMMA LaunchToolKeeps ==
  ASSUME AgentInv, launchTool
  PROVE  AgentInv'
<1> USE DEF AgentInv
<1>1. /\ agent = NoRow /\ \A p \in Pollers : poll[p].pc = "idle"
      /\ UNCHANGED <<life, remote, poll, reply, attached, wakes, chance>>
  BY DEF launchTool, NoneYet
<1>2. /\ agent' \in Row /\ SameStory(agent, [agent' EXCEPT !.status = "none"])
      /\ agent'.status = "running"
      /\ agent'.gen = 0 /\ agent'.woken = -1 /\ agent'.lease = NoPoller /\ ~agent'.remote
      /\ agent'.latest = 0 /\ ~agent'.followup /\ ~agent'.dispatching /\ ~agent'.dispatched
  BY <1>1, NothingTyped, AgentNumbers DEF launchTool, NoRow, Row, SameStory
<1>3. AgentTyped'
  BY <1>1, <1>2 DEF AgentTyped
<1>4. RepliesCounted' /\ NoneYet' /\ CancelRead' /\ ToldOnce'
  BY <1>1, <1>2 DEF RepliesCounted, NoneYet, CancelRead, ToldOnce, NoRow
<1>5. ASSUME ~life.gap PROVE AgentSound'
  <2>1. AgentSound
    BY <1>5
  <2>2. \A p \in Pollers : ~Calls(p, "launch")' /\ ~Calls(p, "reply")' /\ ~MayWrite(p)'
    BY <1>1 DEF Calls, MayWrite
  <2>3. RowKnowsRuns' /\ OverIsQuiet' /\ SentAsAsked' /\ ReplyRead'
    BY <1>1, <1>2, <2>1 DEF AgentSound, RowKnowsRuns, OverIsQuiet, SentAsAsked, ReplyRead, NoRow
  <2>4. \A p \in Pollers : Planned(poll'[p]) /\ HolderRead(p)' /\ LearnedTrue(p)'
    BY <1>1, <2>1, <2>2 DEF AgentSound, HolderRead, LearnedTrue
  <2> QED BY <2>2, <2>3, <2>4 DEF AgentSound, SendsAlone
<1> QED BY <1>1, <1>3, <1>4, <1>5

LEMMA ReplyReadsKeeps ==
  ASSUME AgentInv, replyReads
  PROVE  AgentInv'
<1> USE DEF AgentInv
<1>1. /\ UNCHANGED <<life, agent, remote, poll, attached, wakes>>
      /\ reply'.pc = "write" /\ reply.pc = "idle" /\ agent.status = "over" /\ ~agent.followup
      /\ agent.remote /\ chance.replies \in Gens /\ chance.replies > 0
      /\ chance'.replies = chance.replies - 1
  BY DEF replyReads, AgentTyped
<1>2. AgentTyped'
  BY <1>1, AgentNumbers DEF AgentTyped, replyReads
<1>3. RepliesCounted' /\ NoneYet' /\ CancelRead' /\ ToldOnce'
  BY <1>1, AgentNumbers DEF RepliesCounted, NoneYet, CancelRead, ToldOnce, AgentTyped, Row
<1>4. ASSUME AgentSound PROVE AgentSound'
  <2>1. \A p \in Pollers : HolderRead(p)' /\ LearnedTrue(p)'
    BY <1>1, <1>4 DEF AgentSound, HolderRead, LearnedTrue, MayWrite, fence, Marked, Calls
  <2>2. RowKnowsRuns' /\ OverIsQuiet' /\ SentAsAsked' /\ ReplyRead' /\ SendsAlone'
    BY <1>1, <1>4 DEF AgentSound, RowKnowsRuns, OverIsQuiet, SentAsAsked, ReplyRead, SendsAlone, Calls
  <2> QED BY <1>1, <1>4, <2>1, <2>2 DEF AgentSound
<1> QED BY <1>1, <1>2, <1>3, <1>4

(* A row that has changed under every poll is nobody's to write.           *)
LEMMA NobodyWrites ==
  ASSUME AgentSound, \A p \in Pollers :
           /\ poll'[p].pc = poll[p].pc \/ poll'[p].pc = "release"
           /\ poll'[p].row = poll[p].row /\ poll'[p].op = poll[p].op
           /\ poll'[p].data = poll[p].data /\ ~MayWrite(p)'
  PROVE  \A p \in Pollers :
           /\ Planned(poll'[p]) /\ HolderRead(p)' /\ LearnedTrue(p)'
           /\ \A op : Calls(p, op)' => Calls(p, op)
BY DEF AgentSound, Planned, HolderRead, LearnedTrue, Calls

LEMMA ReplyWritesKeeps ==
  ASSUME AgentInv, replyWrites
  PROVE  AgentInv'
<1> USE DEF AgentInv
<1>1. /\ UNCHANGED <<life, remote, attached, wakes, chance>> /\ reply.pc = "write"
      /\ reply'.pc = "idle" /\ ~reply'.valid
      /\ reply' \in [pc : {"idle", "write"}, valid : BOOLEAN]
  BY DEF replyWrites
<1>2. CASE ~reply.valid
  <2>1. UNCHANGED <<agent, poll>>
    BY <1>2 DEF replyWrites
  <2>2. AgentTyped' /\ RepliesCounted' /\ NoneYet' /\ CancelRead' /\ ToldOnce'
    <3>1. AgentTyped'
      BY <1>1, <2>1 DEF AgentTyped
    <3>2. RepliesCounted'
      BY <1>1, <2>1, AgentCounts DEF RepliesCounted
    <3>3. NoneYet' /\ CancelRead' /\ ToldOnce'
      BY <1>1, <2>1 DEF NoneYet, CancelRead, ToldOnce
    <3> QED BY <3>1, <3>2, <3>3
  <2>3. ASSUME AgentSound PROVE AgentSound'
    <3>1. \A p \in Pollers : HolderRead(p)' /\ LearnedTrue(p)'
      BY <1>1, <2>1, <2>3 DEF AgentSound, HolderRead, LearnedTrue, MayWrite, fence, Marked, Calls
    <3>2. RowKnowsRuns' /\ OverIsQuiet' /\ SentAsAsked' /\ ReplyRead' /\ SendsAlone'
      BY <1>1, <2>1, <2>3 DEF AgentSound, RowKnowsRuns, OverIsQuiet, SentAsAsked, ReplyRead,
                              SendsAlone, Calls
    <3> QED BY <2>1, <2>3, <3>1, <3>2 DEF AgentSound
  <2> QED BY <1>1, <2>2, <2>3
<1>3. CASE reply.valid
  <2>1. /\ agent \in Row /\ agent.gen + 1 \in Gens /\ agent.gen \in Nat
    <3>1. agent.gen + chance.replies + 1 <= MaxReplies
      BY <1>1 DEF RepliesCounted
    <3> QED BY <3>1, AgentCounts DEF AgentTyped
  <2>2. agent' = [agent EXCEPT !.followup = TRUE, !.dispatching = FALSE, !.status = "running",
                               !.gen = agent.gen + 1, !.due = TRUE]
        /\ poll' = Stale
    BY <1>3 DEF replyWrites
  <2>3. /\ agent' \in Row /\ agent'.gen = agent.gen + 1 /\ agent'.status = "running"
        /\ agent'.followup /\ ~agent'.dispatching /\ agent'.woken = agent.woken
        /\ agent'.remote = agent.remote /\ agent'.latest = agent.latest
        /\ agent'.dispatched = agent.dispatched
    BY <2>1, <2>2 DEF Row
  <2>4. \A p \in Pollers :
          /\ ~poll'[p].valid /\ poll'[p].pc = poll[p].pc /\ poll'[p].row = poll[p].row
          /\ poll'[p].abandoned = poll[p].abandoned /\ poll'[p].op = poll[p].op
          /\ poll'[p].data = poll[p].data
    BY <2>2, StaleDoes
  <2>5. AgentTyped'
    BY <1>1, <2>2, <2>3, StaleDoes DEF AgentTyped
  <2>6. RepliesCounted' /\ NoneYet' /\ CancelRead'
    <3>1. agent.gen + chance.replies + 1 <= MaxReplies
      BY <1>1 DEF RepliesCounted
    <3>2. agent'.gen + chance'.replies <= MaxReplies
      BY <1>1, <2>3, <3>1, AgentCounts
    <3>3. RepliesCounted'
      BY <1>1, <3>2, AgentCounts, <2>1, <2>3 DEF RepliesCounted
    <3> QED BY <2>3, <2>4, <3>3 DEF NoneYet, CancelRead
  <2>7. ToldOnce'
    <3>1. agent'.woken < agent'.gen /\ wakes[agent'.gen] = 0
      BY <2>1, <2>3, AgentCounts DEF ToldOnce
    <3>2. \A g \in Gens : g > agent'.gen => g > agent.gen
      BY <2>3, AgentCounts
    <3> QED BY <1>1, <2>3, <2>4, <3>1, <3>2, AgentCounts DEF ToldOnce
  <2>8. ASSUME AgentSound PROVE AgentSound'
    <3>1. \A p \in Pollers : ~MayWrite(p)'
      BY <2>4 DEF MayWrite, fence
    <3>2. \A p \in Pollers :
            /\ Planned(poll'[p]) /\ HolderRead(p)' /\ LearnedTrue(p)'
            /\ \A op : Calls(p, op)' => Calls(p, op)
      BY <2>4, <2>8, <3>1, NobodyWrites
    <3>3. /\ agent.remote /\ ~agent.followup /\ ~agent.dispatching /\ remote.busy = {}
          /\ agent.latest = remote.runs
      BY <1>1, <1>3, <2>8 DEF AgentSound, ReplyRead, RowKnowsRuns, OverIsQuiet
    <3>4. RowKnowsRuns' /\ OverIsQuiet' /\ ReplyRead'
      BY <1>1, <2>3, <2>8, <3>3 DEF AgentSound, RowKnowsRuns, OverIsQuiet, ReplyRead
    <3>5. SentAsAsked'
      BY <1>1, <2>3, <2>8, <3>3, AgentCounts DEF AgentSound, SentAsAsked
    <3>6. SendsAlone'
      BY <2>3, <2>4, <2>8, <3>2, <3>3 DEF AgentSound, SendsAlone
    <3> QED BY <3>2, <3>4, <3>5, <3>6 DEF AgentSound
  <2> QED BY <1>1, <2>5, <2>6, <2>7, <2>8
<1> QED BY <1>2, <1>3

LEMMA CancelToolKeeps ==
  ASSUME AgentInv, cancelTool
  PROVE  AgentInv'
<1> USE DEF AgentInv
<1>1. /\ UNCHANGED <<life, remote, attached, wakes>> /\ agent.status # "none"
      /\ agent \in Row /\ poll' = Stale /\ reply'.pc = reply.pc /\ ~reply'.valid
      /\ reply' \in [pc : {"idle", "write"}, valid : BOOLEAN]
      /\ agent' = [agent EXCEPT !.cancel = TRUE, !.due = TRUE]
      /\ chance' \in [lost : Nat, dies : Nat, lapses : Nat, replies : Gens, cancels : BOOLEAN]
      /\ chance'.replies = chance.replies
  BY DEF cancelTool, AgentTyped
<1>2. /\ agent' \in Row /\ SameIntent(agent, agent') /\ agent'.gen = agent.gen
      /\ agent'.status = agent.status /\ agent'.woken = agent.woken
  BY <1>1 DEF Row, SameIntent
<1>3. \A p \in Pollers :
        /\ ~poll'[p].valid /\ poll'[p].pc = poll[p].pc /\ poll'[p].row = poll[p].row
        /\ poll'[p].abandoned = poll[p].abandoned /\ poll'[p].op = poll[p].op
        /\ poll'[p].data = poll[p].data
  BY <1>1, StaleDoes
<1>4. AgentTyped'
  BY <1>1, <1>2, StaleDoes DEF AgentTyped
<1>5. RepliesCounted' /\ NoneYet' /\ CancelRead' /\ ToldOnce'
  BY <1>1, <1>2, <1>3 DEF RepliesCounted, NoneYet, CancelRead, ToldOnce
<1>6. ASSUME AgentSound PROVE AgentSound'
  <2>1. \A p \in Pollers : ~MayWrite(p)'
    BY <1>3 DEF MayWrite, fence
  <2>2. \A p \in Pollers :
          /\ Planned(poll'[p]) /\ HolderRead(p)' /\ LearnedTrue(p)'
          /\ \A op : Calls(p, op)' => Calls(p, op)
    BY <1>3, <1>6, <2>1, NobodyWrites
  <2>3. RowKnowsRuns' /\ OverIsQuiet' /\ SentAsAsked' /\ ReplyRead'
    BY <1>1, <1>2, <1>6, <2>2 DEF AgentSound, SameIntent, RowKnowsRuns, OverIsQuiet, SentAsAsked,
                                  ReplyRead
  <2>4. SendsAlone'
    BY <1>1, <1>2, <1>3, <1>6, <2>2 DEF AgentSound, SameIntent, SendsAlone
  <2> QED BY <2>2, <2>3, <2>4 DEF AgentSound
<1> QED BY <1>1, <1>4, <1>5, <1>6

LEMMA DetachKeeps ==
  ASSUME AgentInv, Detach
  PROVE  AgentInv'
<1> USE DEF AgentInv
<1>1. UNCHANGED <<life, agent, remote, poll, reply, wakes, chance>> /\ attached' = FALSE
  BY DEF Detach
<1>2. AgentTyped' /\ RepliesCounted' /\ NoneYet' /\ CancelRead' /\ ToldOnce'
  BY <1>1 DEF AgentTyped, RepliesCounted, NoneYet, CancelRead, ToldOnce
<1>3. ASSUME AgentSound PROVE AgentSound'
  <2>1. \A p \in Pollers : HolderRead(p)' /\ LearnedTrue(p)'
    BY <1>1, <1>3 DEF AgentSound, HolderRead, LearnedTrue, MayWrite, fence, Marked, Calls
  <2>2. RowKnowsRuns' /\ OverIsQuiet' /\ SentAsAsked' /\ ReplyRead' /\ SendsAlone'
    BY <1>1, <1>3 DEF AgentSound, RowKnowsRuns, OverIsQuiet, SentAsAsked, ReplyRead, SendsAlone, Calls
  <2> QED BY <1>1, <1>3, <2>1, <2>2 DEF AgentSound
<1> QED BY <1>1, <1>2, <1>3

-----------------------------------------------------------------------------
(* A poll up to its request *)

LEMMA PollReadsKeeps ==
  ASSUME AgentInv, NEW p \in Pollers, pollReads(p)
  PROVE  AgentInv'
<1> USE DEF AgentInv
<1>1. /\ UNCHANGED <<life, remote, reply, attached, wakes, chance>>
      /\ poll[p].pc = "idle" /\ agent.due /\ agent \in Row
  BY DEF pollReads, AgentTyped
<1>2. agent.status # "none"
  BY <1>1 DEF NoneYet, NoRow
<1>3. PICK pc \in {"claim", "check"} :
        /\ poll' = [poll EXCEPT ![p] = [NoPoll EXCEPT !.pc = pc, !.row = agent, !.valid = TRUE]]
        /\ \/ UNCHANGED agent
           \/ agent' = [agent EXCEPT !.lease = p, !.live = TRUE]
        /\ ~life.gap => pc = "check" /\ agent' = [agent EXCEPT !.lease = p, !.live = TRUE]
  BY DEF pollReads
<1>4. /\ agent' \in Row /\ SameIntent(agent, agent') /\ SameStory(agent, agent')
      /\ ~life.gap => agent'.lease = p
  <2>1. CASE UNCHANGED agent
    <3>1. SameIntent(agent, agent') /\ SameStory(agent, agent')
      BY <2>1 DEF SameIntent, SameStory
    <3>2. ~life.gap => agent'.lease = p
      BY <1>1, <1>3, LeaseChanges
    <3> QED BY <1>1, <2>1, <3>1, <3>2
  <2>2. CASE agent' = [agent EXCEPT !.lease = p, !.live = TRUE]
    BY <1>1, <2>2, LeaseChanges
  <2> QED BY <1>3, <2>1, <2>2
<1>5. /\ poll' \in [Pollers -> PollState]
      /\ poll'[p].pc = pc /\ poll'[p].row = agent /\ poll'[p].valid /\ poll'[p].op = "none"
      /\ ~poll'[p].abandoned
      /\ \A q \in Pollers \ {p} : poll'[q] = poll[q]
  <2> DEFINE v == [NoPoll EXCEPT !.pc = pc, !.row = agent, !.valid = TRUE]
  <2>1. /\ v \in PollState /\ v.pc = pc /\ v.row = agent /\ v.valid /\ v.op = "none"
        /\ ~v.abandoned
    <3>1. NoPoll \in PollState /\ NoPoll.op = "none" /\ ~NoPoll.abandoned
      BY NothingTyped DEF NoPoll
    <3> HIDE DEF NoPoll
    <3> QED BY <1>1, <3>1 DEF PollState
  <2> HIDE DEF v
  <2> QED BY <1>3, <2>1 DEF AgentTyped, v
<1>6. AgentTyped'
  BY <1>1, <1>4, <1>5 DEF AgentTyped
<1>7. RepliesCounted' /\ NoneYet' /\ ToldOnce'
  BY <1>1, <1>2, <1>4, <1>5 DEF SameStory, RepliesCounted, NoneYet, ToldOnce
<1>8. CancelRead'
  BY <1>4, <1>5 DEF CancelRead, SameStory
<1>9. ASSUME ~life.gap PROVE AgentSound'
  <2>1. AgentSound
    BY <1>9
  <2>2. pc = "check" /\ agent'.lease = p
    BY <1>3, <1>4, <1>9
  <2>3. \A q \in Pollers, op \in {"launch", "reply"} : Calls(q, op)' => Calls(q, op) /\ q # p
    BY <1>5, <2>2 DEF Calls
  <2>4. Planned(poll'[p]) /\ HolderRead(p)' /\ LearnedTrue(p)'
    BY <1>4, <1>5, <2>2 DEF Planned, HolderRead, LearnedTrue, Marked, SameIntent
  <2>5. ASSUME NEW q \in Pollers \ {p} PROVE Planned(poll'[q]) /\ HolderRead(q)' /\ LearnedTrue(q)'
    BY <1>1, <1>4, <1>5, <2>1, <2>2, <2>3, BystanderKept
  <2>6. RowKnowsRuns' /\ OverIsQuiet' /\ SentAsAsked' /\ ReplyRead' /\ SendsAlone'
    BY <1>1, <1>4, <1>5, <2>1, <2>3, IntentKept
  <2> QED BY <2>4, <2>5, <2>6 DEF AgentSound
<1> QED BY <1>1, <1>6, <1>7, <1>8, <1>9

LEMMA PollClaimsKeeps ==
  ASSUME AgentInv, NEW p \in Pollers, pollClaims(p)
  PROVE  AgentInv'
<1> USE DEF AgentInv
<1>1. /\ UNCHANGED <<life, remote, reply, attached, wakes, chance>> /\ poll[p].pc = "claim"
      /\ agent \in Row
  BY DEF pollClaims, AgentTyped
<1>2. agent.status # "none"
  BY <1>1, Launched
<1>3. life.gap
  BY <1>1 DEF AgentSound, Planned
<1>4. /\ agent' \in Row /\ SameStory(agent, agent')
      /\ poll' \in [Pollers -> PollState]
      /\ \A q \in Pollers : \/ poll'[q] \in {NoPoll, poll[q]}
                            \/ SameKnown(poll[q], poll'[q]) /\ poll[q].pc # "idle"
  <2>1. CASE poll[p].valid /\ Leasable
    <3>1. agent' = [agent EXCEPT !.lease = p, !.live = TRUE]
          /\ poll' = [poll EXCEPT ![p].pc = "check"]
      BY <2>1 DEF pollClaims
    <3> QED BY <1>1, <3>1, LeaseChanges, PollGoes
  <2>2. CASE ~(poll[p].valid /\ Leasable)
    <3>1. poll' = [poll EXCEPT ![p] = NoPoll] /\ UNCHANGED agent
      BY <2>2 DEF pollClaims
    <3> QED BY <1>1, <3>1, PollEnds DEF SameStory
  <2> QED BY <2>1, <2>2
<1>5. AgentTyped'
  BY <1>1, <1>4 DEF AgentTyped
<1>6. RepliesCounted' /\ NoneYet' /\ CancelRead' /\ ToldOnce'
  BY <1>1, <1>2, <1>4, StoryKept DEF SameKnown, NoPoll
<1> QED BY <1>1, <1>3, <1>5, <1>6

(* A poll that is done, or dead, and has no more to write; the lease may be *)
(* given back.                                                             *)
LEMMA PollStops ==
  ASSUME AgentInv, NEW p \in Pollers, poll[p].pc # "idle",
         poll' \in [Pollers -> PollState],
         \A q \in Pollers \ {p} : poll'[q] = poll[q],
         poll'[p] = NoPoll \/ (poll'[p].pc = "release" /\ SameKnown(poll[p], poll'[p])),
         agent' \in Row, SameIntent(agent, agent'), SameStory(agent, agent'),
         agent'.lease \in {agent.lease, NoPoller},
         UNCHANGED <<life, remote, reply, attached, wakes>>,
         chance' \in [lost : Nat, dies : Nat, lapses : Nat, replies : Gens, cancels : BOOLEAN],
         chance'.replies = chance.replies
  PROVE  AgentInv'
<1> USE DEF AgentInv
<1>1. agent.status # "none"
  BY Launched
<1>2. AgentTyped'
  BY DEF AgentTyped
<1>3. \A q \in Pollers :
        /\ poll'[q].abandoned => poll[q].abandoned
        /\ poll'[q].pc # "idle" /\ poll'[q].valid =>
             poll[q].pc # "idle" /\ poll[q].valid /\ poll'[q].row = poll[q].row
  BY DEF SameKnown, NoPoll
<1>4. RepliesCounted' /\ NoneYet' /\ CancelRead' /\ ToldOnce'
  BY <1>1, <1>3, StoryKept
<1>5. ASSUME AgentSound PROVE AgentSound'
  <2>1. poll'[p].pc \in {"idle", "release"}
    BY DEF NoPoll
  <2>2. \A q \in Pollers, op \in {"launch", "reply"} : Calls(q, op)' => Calls(q, op) /\ q # p
    BY <2>1 DEF Calls
  <2>3. Planned(poll'[p])
    <3>1. CASE poll'[p] = NoPoll
      BY <3>1, NothingTyped
    <3>2. CASE poll'[p].pc = "release" /\ SameKnown(poll[p], poll'[p])
      BY <1>5, <3>2 DEF AgentSound, Planned, SameKnown
    <3> QED BY <3>1, <3>2
  <2>4. HolderRead(p)' /\ LearnedTrue(p)'
    BY <2>1 DEF HolderRead, LearnedTrue, MayWrite
  <2>5. ASSUME NEW q \in Pollers \ {p} PROVE Planned(poll'[q]) /\ HolderRead(q)' /\ LearnedTrue(q)'
    <3>1. agent'.lease = q => agent.lease = q
      BY AgentNumbers
    <3> QED BY <1>5, <2>2, <3>1, BystanderKept
  <2>6. RowKnowsRuns' /\ OverIsQuiet' /\ SentAsAsked' /\ ReplyRead' /\ SendsAlone'
    BY <1>5, <2>2, IntentKept
  <2> QED BY <2>3, <2>4, <2>5, <2>6 DEF AgentSound
<1> QED BY <1>2, <1>4, <1>5

LEMMA PollDiesKeeps ==
  ASSUME AgentInv, NEW p \in Pollers, pollDies(p)
  PROVE  AgentInv'
<1>1. /\ poll[p].pc # "idle" /\ poll' = [poll EXCEPT ![p] = NoPoll]
      /\ UNCHANGED <<life, agent, remote, reply, attached, wakes>>
      /\ chance' \in [lost : Nat, dies : Nat, lapses : Nat, replies : Gens, cancels : BOOLEAN]
      /\ chance'.replies = chance.replies
  BY DEF pollDies, AgentInv, AgentTyped
<1>2. SameIntent(agent, agent') /\ SameStory(agent, agent') /\ agent' \in Row
  BY <1>1 DEF SameIntent, SameStory, AgentInv, AgentTyped
<1>3. /\ poll' \in [Pollers -> PollState] /\ poll'[p] = NoPoll
      /\ \A q \in Pollers \ {p} : poll'[q] = poll[q]
  BY <1>1, PollEnds DEF AgentInv
<1>4. agent'.lease \in {agent.lease, NoPoller}
  BY <1>1
<1> QED BY <1>1, <1>2, <1>3, <1>4, PollStops

LEMMA LeaseGivenBack ==
  ASSUME AgentTyped,
         agent' \in {agent, [agent EXCEPT !.lease = NoPoller, !.live = FALSE]}
  PROVE  /\ agent' \in Row /\ SameIntent(agent, agent') /\ SameStory(agent, agent')
         /\ agent'.lease \in {agent.lease, NoPoller}
<1>1. CASE agent' = agent
  BY <1>1 DEF AgentTyped, SameIntent, SameStory
<1>2. CASE agent' = [agent EXCEPT !.lease = NoPoller, !.live = FALSE]
  <2>1. agent \in Row
    BY DEF AgentTyped
  <2> QED BY <1>2, <2>1, LeaseChanges
<1> QED BY <1>1, <1>2

LEMMA RetryPollKeeps ==
  ASSUME AgentInv, NEW p \in Pollers, retryPoll(p)
  PROVE  AgentInv'
<1>1. /\ poll[p].pc = "retry" /\ poll' = [poll EXCEPT ![p].pc = "release"]
      /\ UNCHANGED <<life, remote, reply, attached, wakes, chance>>
      /\ agent' \in {agent, [agent EXCEPT !.lease = NoPoller, !.live = FALSE]}
  BY DEF retryPoll
<1>2. chance' \in [lost : Nat, dies : Nat, lapses : Nat, replies : Gens, cancels : BOOLEAN]
  BY <1>1 DEF AgentInv, AgentTyped
<1> QED BY <1>1, <1>2, LeaseGivenBack, PollGoes, PollStops DEF AgentInv

LEMMA PollReleasesKeeps ==
  ASSUME AgentInv, NEW p \in Pollers, pollReleases(p)
  PROVE  AgentInv'
<1>1. /\ poll[p].pc = "release" /\ poll' = [poll EXCEPT ![p] = NoPoll]
      /\ UNCHANGED <<life, remote, reply, attached, wakes, chance>>
      /\ agent' \in {agent, [agent EXCEPT !.lease = NoPoller, !.live = FALSE]}
  BY DEF pollReleases
<1>2. chance' \in [lost : Nat, dies : Nat, lapses : Nat, replies : Gens, cancels : BOOLEAN]
  BY <1>1 DEF AgentInv, AgentTyped
<1>3. /\ poll' \in [Pollers -> PollState] /\ poll'[p] = NoPoll
      /\ \A q \in Pollers \ {p} : poll'[q] = poll[q]
  BY <1>1, PollEnds DEF AgentInv
<1>4. /\ agent' \in Row /\ SameIntent(agent, agent') /\ SameStory(agent, agent')
      /\ agent'.lease \in {agent.lease, NoPoller}
  BY <1>1, LeaseGivenBack DEF AgentInv
<1> QED BY <1>1, <1>2, <1>3, <1>4, PollStops

-----------------------------------------------------------------------------
(* The provider and time *)

LEMMA RemoteEndsKeeps ==
  ASSUME AgentInv, remoteEnds
  PROVE  AgentInv'
<1> USE DEF AgentInv
<1>1. UNCHANGED <<life, agent, poll, reply, attached, wakes, chance>>
  BY DEF remoteEnds
<1>2. /\ remote' \in [runs : {0} \cup Runs, refused : BOOLEAN, busy : SUBSET Runs]
      /\ remote'.busy \subseteq remote.busy /\ remote'.runs = remote.runs
      /\ remote'.refused = remote.refused
  BY DEF remoteEnds, AgentTyped
<1>3. AgentTyped' /\ RepliesCounted' /\ NoneYet' /\ CancelRead' /\ ToldOnce'
  BY <1>1, <1>2 DEF AgentTyped, RepliesCounted, NoneYet, CancelRead, ToldOnce
<1>4. SameIntent(agent, agent') /\ SameStory(agent, agent')
  BY <1>1 DEF SameIntent, SameStory
<1>5. ASSUME AgentSound PROVE AgentSound'
  <2>1. \A q \in Pollers, op \in {"launch", "reply"} : Calls(q, op)' => Calls(q, op)
    BY <1>1 DEF Calls
  <2>2. ASSUME NEW q \in Pollers PROVE Planned(poll'[q]) /\ HolderRead(q)' /\ LearnedTrue(q)'
    BY <1>1, <1>2, <1>4, <1>5, <2>1, BystanderKept
  <2>3. RowKnowsRuns' /\ OverIsQuiet' /\ SentAsAsked' /\ ReplyRead' /\ SendsAlone'
    BY <1>1, <1>2, <1>4, <1>5, <2>1, IntentKept
  <2> QED BY <2>2, <2>3 DEF AgentSound
<1> QED BY <1>1, <1>3, <1>5

LEMMA LeaseLapsesKeeps ==
  ASSUME AgentInv, leaseLapses
  PROVE  AgentInv'
<1> USE DEF AgentInv
<1>1. /\ UNCHANGED <<life, remote, poll, reply, attached, wakes>>
      /\ agent' = [agent EXCEPT !.live = FALSE] /\ agent \in Row
      /\ chance' \in [lost : Nat, dies : Nat, lapses : Nat, replies : Gens, cancels : BOOLEAN]
      /\ chance'.replies = chance.replies
  BY DEF leaseLapses, AgentTyped
<1>2. /\ agent' \in Row /\ SameIntent(agent, agent') /\ SameStory(agent, agent')
      /\ agent'.lease = agent.lease
  BY <1>1 DEF Row, SameIntent, SameStory
<1>3. AgentTyped'
  BY <1>1, <1>2 DEF AgentTyped
<1>4. RepliesCounted' /\ NoneYet' /\ CancelRead' /\ ToldOnce'
  BY <1>1, <1>2 DEF SameStory, RepliesCounted, CancelRead, ToldOnce, NoneYet, leaseLapses, NoRow
<1>5. ASSUME AgentSound PROVE AgentSound'
  <2>1. \A q \in Pollers, op \in {"launch", "reply"} : Calls(q, op)' => Calls(q, op)
    BY <1>1 DEF Calls
  <2>2. ASSUME NEW q \in Pollers PROVE Planned(poll'[q]) /\ HolderRead(q)' /\ LearnedTrue(q)'
    BY <1>1, <1>2, <1>5, <2>1, BystanderKept
  <2>3. RowKnowsRuns' /\ OverIsQuiet' /\ SentAsAsked' /\ ReplyRead' /\ SendsAlone'
    BY <1>1, <1>2, <1>5, <2>1, IntentKept
  <2> QED BY <2>2, <2>3 DEF AgentSound
<1> QED BY <1>1, <1>3, <1>4, <1>5

-----------------------------------------------------------------------------
(* A poll that decides and marks *)

(* What the plan asks of the row that it is made from.                     *)
LEMMA PlanFollows ==
  ASSUME NEW row \in Row, NEW halts \in BOOLEAN
  PROVE  LET op == Plan(row, halts) IN
         /\ op \in PollOps \ {"none"}
         /\ op = "launch" => ~row.remote
         /\ op = "drop" => \/ ~row.remote /\ ~row.dispatched
                           \/ row.remote /\ row.followup /\ ~row.dispatching
         /\ op = "reply" => row.remote /\ row.followup /\ ~row.dispatching
         /\ op = "observe" => row.remote /\ row.followup /\ row.dispatching
         /\ op = "cancel" => row.remote /\ (row.followup => row.dispatching)
         /\ op = "get" => row.remote /\ ~row.followup
<1>1. /\ row.remote \in BOOLEAN /\ row.dispatched \in BOOLEAN /\ row.followup \in BOOLEAN
      /\ row.dispatching \in BOOLEAN
  BY DEF Row
<1>2. CASE ~row.remote /\ halts /\ ~row.dispatched
  <2>1. Plan(row, halts) = "drop"
    BY <1>2 DEF Plan
  <2> QED BY <1>2, <2>1 DEF PollOps
<1>3. CASE ~row.remote /\ ~(halts /\ ~row.dispatched)
  <2>1. Plan(row, halts) = "launch"
    BY <1>3 DEF Plan
  <2> QED BY <1>3, <2>1 DEF PollOps
<1>4. CASE row.remote /\ halts /\ row.followup /\ ~row.dispatching
  <2>1. Plan(row, halts) = "drop"
    BY <1>4 DEF Plan
  <2> QED BY <1>4, <2>1 DEF PollOps
<1>5. CASE row.remote /\ halts /\ ~(row.followup /\ ~row.dispatching)
  <2>1. Plan(row, halts) = "cancel"
    BY <1>5 DEF Plan
  <2> QED BY <1>5, <2>1 DEF PollOps
<1>6. CASE row.remote /\ ~halts /\ row.followup /\ row.dispatching
  <2>1. Plan(row, halts) = "observe"
    BY <1>6 DEF Plan
  <2> QED BY <1>6, <2>1 DEF PollOps
<1>7. CASE row.remote /\ ~halts /\ row.followup /\ ~row.dispatching
  <2>1. Plan(row, halts) = "reply"
    BY <1>7 DEF Plan
  <2> QED BY <1>7, <2>1 DEF PollOps
<1>8. CASE row.remote /\ ~halts /\ ~row.followup
  <2>1. Plan(row, halts) = "get"
    BY <1>8 DEF Plan
  <2> QED BY <1>8, <2>1 DEF PollOps
<1> QED BY <1>1, <1>2, <1>3, <1>4, <1>5, <1>6, <1>7, <1>8

LEMMA CheckDoes ==
  ASSUME AgentTyped, NEW p \in Pollers, pollChecks(p)
  PROVE  LET v == poll[p] w == poll'[p] IN
         /\ poll' \in [Pollers -> PollState]
         /\ \A q \in Pollers \ {p} : poll'[q] = poll[q]
         /\ w.row = v.row /\ w.valid = v.valid /\ w.abandoned = ~attached
         /\ w.op = Plan(v.row, ~attached \/ v.row.cancel)
         /\ \/ w.op = "drop" /\ w.pc = "finish"
            \/ w.op \in {"launch", "reply"} /\ w.pc = "mark"
            \/ w.op \notin {"drop", "launch", "reply"} /\ w.pc = "call"
         /\ w.data.status = "over" /\ (w.data.settles <=> w.op = "drop")
         /\ w.data.latest = v.row.latest /\ w.data.remote = v.row.remote
<1> DEFINE v == poll[p]
           op == Plan(v.row, ~attached \/ v.row.cancel)
           pc == CASE op = "drop" -> "finish" [] op \in {"launch", "reply"} -> "mark"
                   [] OTHER -> "call"
           d == [NoUpdate EXCEPT !.status = "over", !.settles = op = "drop",
                                 !.latest = v.row.latest, !.remote = v.row.remote]
           w == [v EXCEPT !.abandoned = ~attached, !.op = op, !.pc = pc, !.data = d]
<1>1. v \in PollState /\ v.row \in Row /\ attached \in BOOLEAN
  BY DEF AgentTyped, PollState
<1>2. op \in PollOps
  <2>1. (~attached \/ v.row.cancel) \in BOOLEAN
    OBVIOUS
  <2> QED BY <1>1, <2>1, PlanFollows
<1>3. \/ op = "drop" /\ pc = "finish"
      \/ op \in {"launch", "reply"} /\ pc = "mark"
      \/ op \notin {"drop", "launch", "reply"} /\ pc = "call"
  <2> HIDE DEF op
  <2>1. CASE op = "drop"
    BY <2>1
  <2>2. CASE op \in {"launch", "reply"}
    BY <2>2
  <2>3. CASE op \notin {"drop", "launch", "reply"}
    BY <2>3
  <2> QED BY <2>1, <2>2, <2>3
<1>4. /\ d \in Update /\ d.status = "over" /\ (d.settles <=> op = "drop")
      /\ d.latest = v.row.latest /\ d.remote = v.row.remote
  <2>1. v.row.latest \in {0} \cup Runs /\ v.row.remote \in BOOLEAN
    BY <1>1 DEF Row
  <2> HIDE DEF op, v
  <2> QED BY <2>1 DEF NoUpdate, Update
<1>5. poll' = [poll EXCEPT ![p] = w]
  BY DEF pollChecks, AgentTyped, PollState
<1> HIDE DEF v, op, pc, d
<1>6. /\ w \in PollState /\ w.row = v.row /\ w.valid = v.valid /\ w.abandoned = ~attached
      /\ w.op = op /\ w.pc = pc /\ w.data = d
  BY <1>1, <1>2, <1>3, <1>4 DEF PollState
<1> HIDE DEF w
<1>7. poll' \in [Pollers -> PollState] /\ poll'[p] = w /\ \A q \in Pollers \ {p} : poll'[q] = poll[q]
  BY <1>5, <1>6 DEF AgentTyped
<1> QED BY <1>3, <1>4, <1>6, <1>7 DEF v, op

LEMMA PollChecksKeeps ==
  ASSUME AgentInv, NEW p \in Pollers, pollChecks(p)
  PROVE  AgentInv'
<1> USE DEF AgentInv
<1>1. /\ UNCHANGED <<life, agent, remote, reply, attached, wakes, chance>> /\ poll[p].pc = "check"
  BY DEF pollChecks
<1>2. agent.status # "none"
  BY <1>1, Launched
<1>3. SameIntent(agent, agent') /\ SameStory(agent, agent')
  BY <1>1 DEF SameIntent, SameStory
<1> DEFINE w == poll'[p]
           row == poll[p].row
<1>4. /\ poll' \in [Pollers -> PollState] /\ \A q \in Pollers \ {p} : poll'[q] = poll[q]
      /\ w.row = row /\ w.valid = poll[p].valid /\ w.abandoned = ~attached
      /\ \/ w.op = "drop" /\ w.pc = "finish"
         \/ w.op \in {"launch", "reply"} /\ w.pc = "mark"
         \/ w.op \notin {"drop", "launch", "reply"} /\ w.pc = "call"
      /\ w.data.status = "over" /\ (w.data.settles <=> w.op = "drop")
      /\ w.data.latest = row.latest /\ w.data.remote = row.remote
  BY CheckDoes
<1>5. /\ w.op \in PollOps \ {"none"}
      /\ w.op = "launch" => ~row.remote
      /\ w.op = "drop" => \/ ~row.remote /\ ~row.dispatched
                          \/ row.remote /\ row.followup /\ ~row.dispatching
      /\ w.op = "reply" => row.remote /\ row.followup /\ ~row.dispatching
      /\ w.op = "observe" => row.remote /\ row.followup /\ row.dispatching
      /\ w.op = "cancel" => row.remote /\ (row.followup => row.dispatching)
      /\ w.op = "get" => row.remote /\ ~row.followup
  <2>1. row \in Row /\ (~attached \/ row.cancel) \in BOOLEAN
    BY DEF AgentTyped, PollState
  <2>2. w.op = Plan(row, ~attached \/ row.cancel)
    BY CheckDoes
  <2> HIDE DEF w, row
  <2> QED BY <2>1, <2>2, PlanFollows
<1> HIDE DEF w
<1>6. AgentTyped'
  BY <1>1, <1>4 DEF AgentTyped
<1>7. RepliesCounted' /\ NoneYet' /\ CancelRead' /\ ToldOnce'
  <2>1. \A q \in Pollers :
          /\ poll'[q].abandoned => poll[q].abandoned \/ ~attached
          /\ poll'[q].pc # "idle" /\ poll'[q].valid =>
               poll[q].pc # "idle" /\ poll[q].valid /\ poll'[q].row = poll[q].row
    BY <1>1, <1>4 DEF w
  <2> QED BY <1>1, <1>2, <1>3, <2>1, StoryKept
<1>8. ASSUME AgentSound PROVE AgentSound'
  <2>1. \A q \in Pollers, op \in {"launch", "reply"} : Calls(q, op)' => Calls(q, op) /\ q # p
    BY <1>4 DEF Calls, w
  <2>2. Planned(w)
    BY <1>4, <1>5 DEF Planned
  <2>3. HolderRead(p)'
    <3>1. MayWrite(p)' => MayWrite(p)
      BY <1>1, <1>4 DEF MayWrite, fence, w
    <3>2. ~Marked(p, "reply") /\ ~Marked(p, "reply")' /\ ~Marked(p, "launch") /\ ~Marked(p, "launch")'
      BY <1>1, <1>4 DEF Marked, w
    <3> QED BY <1>1, <1>4, <1>8, <3>1, <3>2 DEF AgentSound, HolderRead, w
  <2>4. LearnedTrue(p)'
    <3>1. SUFFICES ASSUME MayWrite(p)', w.pc = "finish" PROVE LearnedTrue(p)'
      BY DEF LearnedTrue, w
    <3>2. w.op = "drop"
      BY <1>4, <3>1
    <3>3. /\ row.remote = agent.remote /\ row.latest = agent.latest
          /\ row.followup = agent.followup /\ row.dispatching = agent.dispatching
          /\ row.dispatched = agent.dispatched
      <4>1. MayWrite(p)
        BY <1>1, <1>4, <3>1 DEF MayWrite, fence, w
      <4>2. ~Marked(p, "reply") /\ ~Marked(p, "launch")
        BY <1>1 DEF Marked
      <4> QED BY <1>8, <4>1, <4>2 DEF AgentSound, HolderRead
    <3>4. remote.busy = {} /\ ~agent.dispatching
      <4>1. CASE ~agent.remote /\ ~agent.dispatched
        <5>1. remote.runs \notin {1} /\ ~(remote.runs > 0) /\ ~agent.dispatching
          BY <1>8, <4>1 DEF AgentSound, RowKnowsRuns
        <5>2. remote.runs = 0
          BY <5>1, AgentCounts
        <5> QED BY <1>8, <5>1, <5>2, AgentCounts DEF AgentSound, RowKnowsRuns
      <4>2. CASE agent.remote /\ agent.followup /\ ~agent.dispatching
        BY <1>8, <4>2 DEF AgentSound, RowKnowsRuns
      <4> QED BY <1>5, <3>2, <3>3, <4>1, <4>2
    <3>5. ~agent.remote => /\ remote.runs = 0 /\ agent.latest = 0
                           /\ \A q \in Pollers : ~Calls(q, "launch")
      <4>1. ASSUME ~agent.remote PROVE ~agent.dispatched
        BY <1>5, <3>2, <3>3, <4>1
      <4> QED BY <1>8, <4>1, AgentCounts DEF AgentSound, RowKnowsRuns, SendsAlone
    <3>6. agent.remote => agent.latest = remote.runs /\ remote.runs > 0
      BY <1>8, <3>4 DEF AgentSound, RowKnowsRuns
    <3>7. \A q \in Pollers : ~Calls(q, "reply")' /\ (~agent.remote => ~Calls(q, "launch")')
      BY <1>8, <2>1, <3>4, <3>5 DEF AgentSound, SendsAlone
    <3> QED BY <1>1, <1>4, <3>2, <3>3, <3>4, <3>5, <3>6, <3>7 DEF LearnedTrue, w
  <2>5. ASSUME NEW q \in Pollers \ {p} PROVE Planned(poll'[q]) /\ HolderRead(q)' /\ LearnedTrue(q)'
    BY <1>1, <1>3, <1>4, <1>8, <2>1, BystanderKept
  <2>6. RowKnowsRuns' /\ OverIsQuiet' /\ SentAsAsked' /\ ReplyRead' /\ SendsAlone'
    BY <1>1, <1>3, <1>4, <1>8, <2>1, IntentKept
  <2> QED BY <2>2, <2>3, <2>4, <2>5, <2>6 DEF AgentSound, w
<1> QED BY <1>1, <1>6, <1>7, <1>8

LEMMA PollMarksKeeps ==
  ASSUME AgentInv, NEW p \in Pollers, pollMarks(p)
  PROVE  AgentInv'
<1> USE DEF AgentInv
<1>1. /\ UNCHANGED <<life, remote, reply, attached, wakes, chance>> /\ poll[p].pc = "mark"
      /\ agent \in Row
      /\ chance' \in [lost : Nat, dies : Nat, lapses : Nat, replies : Gens, cancels : BOOLEAN]
  BY DEF pollMarks, AgentTyped
<1>2. agent.status # "none"
  BY <1>1, Launched
<1>3. CASE ~fence(p)
  <2>1. poll' = [poll EXCEPT ![p].pc = "release"] /\ UNCHANGED agent
    BY <1>3 DEF pollMarks
  <2>2. SameIntent(agent, agent') /\ SameStory(agent, agent')
    BY <2>1 DEF SameIntent, SameStory
  <2> QED BY <1>1, <2>1, <2>2, PollGoes, PollStops
<1>4. CASE fence(p)
  <2>1. \/ /\ poll[p].op = "launch" /\ agent' = [agent EXCEPT !.dispatched = TRUE]
           /\ poll' = [poll EXCEPT ![p].pc = IF poll[p].row.request THEN "call" ELSE "retry"]
        \/ /\ poll[p].op # "launch" /\ agent' = [agent EXCEPT !.dispatching = TRUE]
           /\ poll' = [poll EXCEPT ![p].pc = "call"]
    BY <1>4 DEF pollMarks
  <2>2. /\ agent' \in Row /\ SameStory(agent, agent') /\ agent'.lease = p
        /\ agent'.remote = agent.remote /\ agent'.latest = agent.latest
        /\ agent'.followup = agent.followup /\ agent'.request = agent.request
        /\ \/ /\ poll[p].op = "launch" /\ agent'.dispatched /\ agent'.dispatching = agent.dispatching
           \/ /\ poll[p].op # "launch" /\ agent'.dispatching /\ agent'.dispatched = agent.dispatched
    <3>1. agent.lease = p
      BY <1>4 DEF fence
    <3>2. CASE poll[p].op = "launch"
      <4>1. agent' = [agent EXCEPT !.dispatched = TRUE]
        BY <2>1, <3>2
      <4> QED BY <1>1, <3>1, <3>2, <4>1 DEF Row, SameStory
    <3>3. CASE poll[p].op # "launch"
      <4>1. agent' = [agent EXCEPT !.dispatching = TRUE]
        BY <2>1, <3>3
      <4> QED BY <1>1, <3>1, <3>3, <4>1 DEF Row, SameStory
    <3> QED BY <3>2, <3>3
  <2>3. /\ poll' \in [Pollers -> PollState] /\ SameKnown(poll[p], poll'[p])
        /\ \A q \in Pollers \ {p} : poll'[q] = poll[q]
        /\ \/ poll'[p].pc = "call" /\ (poll[p].op = "launch" => poll[p].row.request)
           \/ poll'[p].pc = "retry" /\ poll[p].op = "launch"
    <3>1. CASE poll' = [poll EXCEPT ![p].pc = "call"] /\ (poll[p].op = "launch" => poll[p].row.request)
      BY <3>1, PollGoes
    <3>2. CASE poll' = [poll EXCEPT ![p].pc = "retry"] /\ poll[p].op = "launch"
      BY <3>2, PollGoes
    <3> QED BY <2>1, <3>1, <3>2
  <2>4. AgentTyped'
    BY <1>1, <2>2, <2>3 DEF AgentTyped
  <2>5. RepliesCounted' /\ NoneYet' /\ CancelRead' /\ ToldOnce'
    <3>1. \A q \in Pollers :
            /\ poll'[q].abandoned => poll[q].abandoned \/ ~attached
            /\ poll'[q].pc # "idle" /\ poll'[q].valid =>
                 poll[q].pc # "idle" /\ poll[q].valid /\ poll'[q].row = poll[q].row
      BY <1>1, <2>3 DEF SameKnown
    <3> QED BY <1>1, <1>2, <2>2, <3>1, StoryKept
  <2>6. ASSUME AgentSound PROVE AgentSound'
    <3>1. /\ Planned(poll[p]) /\ poll[p].op \in {"launch", "reply"}
          /\ poll[p].row.remote = agent.remote /\ poll[p].row.latest = agent.latest
          /\ poll[p].row.followup = agent.followup /\ poll[p].row.request = agent.request
          /\ poll[p].row.dispatching = agent.dispatching
          /\ poll[p].row.dispatched = agent.dispatched
      <4>1. MayWrite(p) /\ ~Marked(p, "reply") /\ ~Marked(p, "launch")
        BY <1>1, <1>4 DEF MayWrite, Marked
      <4> QED BY <1>1, <2>6, <4>1 DEF AgentSound, HolderRead, Planned
    <3>2. \A q \in Pollers \ {p} : ~MayWrite(q)'
      BY <2>2 DEF MayWrite, fence
    <3>3. ASSUME NEW q \in Pollers \ {p} PROVE Planned(poll'[q]) /\ HolderRead(q)' /\ LearnedTrue(q)'
      BY <2>3, <2>6, <3>2 DEF AgentSound, HolderRead, LearnedTrue
    <3>4. Planned(poll'[p])
      BY <1>1, <2>3, <3>1 DEF Planned, SameKnown
    <3>5. HolderRead(p)' /\ LearnedTrue(p)'
      BY <2>2, <2>3, <3>1 DEF HolderRead, LearnedTrue, SameKnown, Marked, MayWrite
    <3>6. poll[p].op = "reply" =>
            /\ agent.remote /\ agent.followup /\ ~agent.dispatching
            /\ agent.latest = remote.runs /\ agent.status = "running"
      BY <2>6, <3>1 DEF Planned, AgentSound, RowKnowsRuns
    <3>7. RowKnowsRuns' /\ SentAsAsked' /\ ReplyRead'
      BY <1>1, <2>2, <2>6, <3>1, <3>6 DEF AgentSound, RowKnowsRuns, SentAsAsked, ReplyRead, SameStory
    <3>8. OverIsQuiet'
      <4>1. ASSUME agent.status = "over", NEW q \in Pollers, Calls(q, "launch")'
            PROVE Calls(q, "launch")
        BY <2>3, <2>6, <3>1, <4>1 DEF Calls, SameKnown, AgentSound, OverIsQuiet
      <4> QED BY <1>1, <2>2, <2>6, <4>1 DEF SameStory, AgentSound, OverIsQuiet
    <3>9. SendsAlone'
      <4>1. \A q \in Pollers \ {p}, op \in {"launch", "reply"} :
               Calls(q, op)' => Calls(q, op) /\ poll'[q] = poll[q]
        BY <2>3 DEF Calls
      <4>2. poll[p].op = "reply" => \A q \in Pollers : ~Calls(q, "reply")
        BY <2>6, <3>6 DEF AgentSound, SendsAlone
      <4>3. ASSUME NEW q \in Pollers, Calls(q, "launch")' PROVE agent'.dispatched /\ poll'[q].row.request
        BY <2>2, <2>3, <2>6, <4>1, <4>3 DEF AgentSound, SendsAlone, Calls, SameKnown
      <4>4. ASSUME NEW q \in Pollers, Calls(q, "reply")'
            PROVE  /\ agent'.dispatching /\ agent'.latest = remote'.runs
                   /\ \A r \in Pollers : Calls(r, "reply")' => q = r
        <5>1. CASE poll[p].op = "reply"
          <6>1. q = p /\ \A r \in Pollers : Calls(r, "reply")' => p = r
            BY <4>1, <4>2, <4>4, <5>1
          <6> QED BY <1>1, <2>2, <3>6, <5>1, <6>1
        <5>2. CASE poll[p].op = "launch"
          <6>1. \A r \in Pollers : Calls(r, "reply")' => Calls(r, "reply")
            BY <2>3, <4>1, <5>2 DEF Calls, SameKnown
          <6> QED BY <1>1, <2>2, <2>6, <4>4, <5>2, <6>1 DEF AgentSound, SendsAlone
        <5> QED BY <3>1, <5>1, <5>2
      <4> QED BY <4>3, <4>4 DEF SendsAlone
    <3> QED BY <3>3, <3>4, <3>5, <3>7, <3>8, <3>9 DEF AgentSound
  <2> QED BY <1>1, <2>4, <2>5, <2>6
<1> QED BY <1>3, <1>4

-----------------------------------------------------------------------------
(* A poll and the answer to its request *)

(* A poll that has an answer, or none, and knows what it has read.         *)
Answers(p) ==
  /\ poll' \in [Pollers -> PollState]
  /\ \A q \in Pollers \ {p} : poll'[q] = poll[q]
  /\ poll'[p].row = poll[p].row /\ poll'[p].valid = poll[p].valid
  /\ poll'[p].abandoned = poll[p].abandoned /\ poll'[p].op = poll[p].op
  /\ poll'[p].pc \in {"retry", "finish"}

LEMMA LearnsDoes ==
  ASSUME AgentTyped, NEW p \in Pollers, NEW r \in {0} \cup Runs,
         NEW status \in {"running", "over"}, NEW settles \in BOOLEAN, NEW stops \in BOOLEAN,
         Learns(p, r, status, settles, stops)
  PROVE  /\ Answers(p) /\ poll'[p].pc = "finish"
         /\ poll'[p].data.status = status /\ poll'[p].data.latest = r /\ poll'[p].data.remote
         /\ settles => poll'[p].data.settles
<1> DEFINE v == poll[p]
           d == [status |-> status, latest |-> r, remote |-> TRUE, settles |-> settles,
                 cancel |-> stops]
           w == [v EXCEPT !.pc = "finish", !.data = d]
<1>1. v \in PollState /\ d \in Update
  BY DEF AgentTyped, Update
<1>2. poll' = [poll EXCEPT ![p] = w]
  BY DEF Learns, AgentTyped, PollState
<1>3. d.status = status /\ d.latest = r /\ d.remote /\ d.settles = settles
  OBVIOUS
<1> HIDE DEF v, d
<1>4. /\ w \in PollState /\ w.row = v.row /\ w.valid = v.valid /\ w.abandoned = v.abandoned
      /\ w.op = v.op /\ w.pc = "finish" /\ w.data = d
  BY <1>1 DEF PollState
<1> HIDE DEF w
<1>5. poll' \in [Pollers -> PollState] /\ poll'[p] = w /\ \A q \in Pollers \ {p} : poll'[q] = poll[q]
  BY <1>2, <1>4 DEF AgentTyped
<1> QED BY <1>3, <1>4, <1>5 DEF Answers, v

LEMMA FailsDoes ==
  ASSUME AgentTyped, NEW p \in Pollers, Fails(p)
  PROVE  Answers(p) /\ poll'[p].pc = "retry"
BY PollGoes DEF Fails, Answers, SameKnown

LEMMA RejectedDoes ==
  ASSUME AgentTyped, NEW p \in Pollers,
         \/ poll' = [poll EXCEPT ![p].pc = "finish"]
         \/ poll' = [poll EXCEPT ![p].pc = "finish", ![p].data.settles = TRUE]
  PROVE  /\ Answers(p) /\ poll'[p].pc = "finish"
         /\ poll'[p].data.status = poll[p].data.status
         /\ poll'[p].data.latest = poll[p].data.latest
         /\ poll'[p].data.remote = poll[p].data.remote
         /\ IF poll' = [poll EXCEPT ![p].pc = "finish"]
            THEN poll'[p].data = poll[p].data ELSE poll'[p].data.settles
<1>1. CASE poll' = [poll EXCEPT ![p].pc = "finish"]
  BY <1>1, PollGoes DEF Answers, SameKnown
<1>2. CASE poll' # [poll EXCEPT ![p].pc = "finish"]
  <2> DEFINE v == poll[p]
             d == [v.data EXCEPT !.settles = TRUE]
             w == [v EXCEPT !.pc = "finish", !.data = d]
  <2>1. v \in PollState /\ v.data \in Update
    BY DEF AgentTyped, PollState
  <2>2. poll' = [poll EXCEPT ![p] = w]
    BY <1>2 DEF AgentTyped, PollState
  <2> HIDE DEF v
  <2>3. /\ d \in Update /\ d.status = v.data.status /\ d.latest = v.data.latest
        /\ d.remote = v.data.remote /\ d.settles
    BY <2>1 DEF Update
  <2> HIDE DEF d
  <2>4. /\ w \in PollState /\ w.row = v.row /\ w.valid = v.valid /\ w.abandoned = v.abandoned
        /\ w.op = v.op /\ w.pc = "finish" /\ w.data = d
    BY <2>1, <2>3 DEF PollState
  <2> HIDE DEF w
  <2>5. poll' \in [Pollers -> PollState] /\ poll'[p] = w
        /\ \A q \in Pollers \ {p} : poll'[q] = poll[q]
    BY <2>2, <2>4 DEF AgentTyped
  <2> QED BY <1>2, <2>3, <2>4, <2>5 DEF Answers, v
<1> QED BY <1>1, <1>2

(* An answer does not touch the row; what is left of the invariant is about *)
(* the runs and about what the poll has learned.                           *)
LEMMA AnswerKept ==
  ASSUME AgentInv, NEW p \in Pollers, poll[p].pc = "call", Answers(p), Elsewhere,
         remote' \in [runs : {0} \cup Runs, refused : BOOLEAN, busy : SUBSET Runs],
         Lose \/ UNCHANGED chance,
         ~life.gap => /\ RowKnowsRuns' /\ OverIsQuiet' /\ SentAsAsked' /\ SendsAlone'
                      /\ LearnedTrue(p)' /\ \A q \in Pollers \ {p} : LearnedTrue(q)'
  PROVE  AgentInv'
<1> USE DEF AgentInv
<1>1. /\ UNCHANGED <<life, agent, reply, attached, wakes>>
      /\ chance' \in [lost : Nat, dies : Nat, lapses : Nat, replies : Gens, cancels : BOOLEAN]
      /\ chance'.replies = chance.replies
  <2>1. CASE Lose
    BY <2>1 DEF Elsewhere, Lose, AgentTyped
  <2>2. CASE UNCHANGED chance
    BY <2>2 DEF Elsewhere, AgentTyped
  <2> QED BY <2>1, <2>2
<1>2. agent.status # "none"
  BY Launched
<1>3. SameIntent(agent, agent') /\ SameStory(agent, agent')
  BY <1>1 DEF SameIntent, SameStory
<1>4. AgentTyped'
  BY <1>1 DEF AgentTyped, Answers
<1>5. RepliesCounted' /\ NoneYet' /\ CancelRead' /\ ToldOnce'
  <2>1. \A q \in Pollers :
          /\ poll'[q].abandoned => poll[q].abandoned \/ ~attached
          /\ poll'[q].pc # "idle" /\ poll'[q].valid =>
               poll[q].pc # "idle" /\ poll[q].valid /\ poll'[q].row = poll[q].row
    BY DEF Answers
  <2> QED BY <1>1, <1>2, <1>3, <2>1, StoryKept
<1>6. ASSUME AgentSound, ~life.gap PROVE AgentSound'
  <2>1. ReplyRead'
    BY <1>1, <1>6 DEF AgentSound, ReplyRead
  <2>2. \A q \in Pollers : HolderRead(q)'
    BY <1>1, <1>6 DEF AgentSound, HolderRead, MayWrite, fence, Marked, Answers
  <2>3. \A q \in Pollers : Planned(poll'[q])
    BY <1>6 DEF AgentSound, Planned, Answers
  <2> QED BY <1>6, <2>1, <2>2, <2>3 DEF AgentSound
<1> QED BY <1>1, <1>4, <1>5, <1>6

(* The runs are as they were, or one of them is over.                      *)
LEMMA AnswerLeavesRuns ==
  ASSUME AgentInv, NEW p \in Pollers, poll[p].pc = "call", Answers(p), Elsewhere,
         remote' \in [runs : {0} \cup Runs, refused : BOOLEAN, busy : SUBSET Runs],
         remote'.runs = remote.runs, remote'.refused = remote.refused,
         remote'.busy \subseteq remote.busy, Lose \/ UNCHANGED chance,
         ~life.gap /\ AgentSound => LearnedTrue(p)'
  PROVE  AgentInv'
<1>1. ASSUME ~life.gap, AgentSound
      PROVE  /\ RowKnowsRuns' /\ OverIsQuiet' /\ SentAsAsked' /\ SendsAlone'
             /\ \A q \in Pollers \ {p} : LearnedTrue(q)'
  <2>1. SameIntent(agent, agent') /\ SameStory(agent, agent') /\ UNCHANGED <<agent, reply>>
    BY DEF Elsewhere, SameIntent, SameStory
  <2>2. \A q \in Pollers, op \in {"launch", "reply"} : Calls(q, op)' => Calls(q, op) /\ q # p
    BY DEF Calls, Answers
  <2>3. RowKnowsRuns' /\ OverIsQuiet' /\ SentAsAsked' /\ SendsAlone'
    BY <1>1, <2>1, <2>2, IntentKept DEF Answers
  <2>4. ASSUME NEW q \in Pollers \ {p} PROVE LearnedTrue(q)'
    BY <1>1, <2>1, <2>2, BystanderKept DEF Answers
  <2> QED BY <2>3, <2>4
<1> QED BY <1>1, AnswerKept DEF AgentInv

(* What the poll has asked for, and holds the lease for, is the last run.  *)
LEMMA LastIsAsked ==
  ASSUME AgentTyped, AgentSound, NEW p \in Pollers, MayWrite(p), poll[p].pc = "call",
         poll[p].op \in {"cancel", "observe", "get"},
         NEW r \in Asked(p), ~Unsettled(p, r)
  PROVE  /\ r = remote.runs /\ remote.runs > 0 /\ agent.remote
         /\ poll[p].op = "get" => ~agent.followup
         /\ \A q \in Pollers : ~Calls(q, "reply")
<1>1. /\ poll[p].row.remote = agent.remote /\ poll[p].row.latest = agent.latest
      /\ poll[p].row.followup = agent.followup /\ poll[p].row.dispatching = agent.dispatching
      /\ poll[p].row.remote /\ (poll[p].op = "get" => ~agent.followup)
  BY DEF AgentSound, HolderRead, Marked, Planned
<1>2. remote.runs > 0 /\ agent.remote
  BY <1>1 DEF AgentSound, RowKnowsRuns
<1>3. CASE agent.dispatching
  <2>1. r \in agent.latest .. remote.runs /\ r # agent.latest
    BY <1>1, <1>3 DEF Asked, Unsettled
  <2>2. remote.runs \in {agent.latest, agent.latest + 1}
    BY <1>3 DEF AgentSound, RowKnowsRuns
  <2>3. r = remote.runs /\ agent.latest # remote.runs
    BY <2>1, <2>2, AgentCounts
  <2> QED BY <1>1, <1>2, <2>3 DEF AgentSound, SendsAlone
<1>4. CASE ~agent.dispatching
  <2>1. r = agent.latest
    BY <1>1, <1>4 DEF Asked
  <2>2. agent.latest = remote.runs
    BY <1>2, <1>4 DEF AgentSound, RowKnowsRuns
  <2> QED BY <1>1, <1>2, <1>4, <2>1, <2>2 DEF AgentSound, SendsAlone
<1> QED BY <1>3, <1>4

(* An answer about the last run is the truth.                              *)
LEMMA LearnsLast ==
  ASSUME AgentTyped, AgentSound, NEW p \in Pollers, poll[p].pc = "call", Answers(p), Elsewhere,
         poll[p].op \in {"cancel", "observe", "get"},
         remote'.runs = remote.runs, remote'.busy \subseteq remote.busy,
         poll'[p].pc = "finish" =>
           \E r \in Asked(p) :
             /\ ~Unsettled(p, r) /\ poll'[p].data.latest = r /\ poll'[p].data.remote
             /\ poll[p].op # "get" => poll'[p].data.settles
             /\ r \in remote'.busy => poll'[p].data.status = "running"
  PROVE  LearnedTrue(p)'
<1>1. SUFFICES ASSUME MayWrite(p)', poll'[p].pc = "finish" PROVE LearnedTrue(p)'
  BY DEF LearnedTrue
<1>2. PICK r \in Asked(p) :
        /\ ~Unsettled(p, r) /\ poll'[p].data.latest = r /\ poll'[p].data.remote
        /\ poll[p].op # "get" => poll'[p].data.settles
        /\ r \in remote'.busy => poll'[p].data.status = "running"
  BY <1>1
<1>3. MayWrite(p) /\ UNCHANGED agent /\ poll'[p].op = poll[p].op
  BY <1>1 DEF MayWrite, fence, Answers, Elsewhere
<1>4. /\ r = remote.runs /\ remote.runs > 0 /\ agent.remote
      /\ poll[p].op = "get" => ~agent.followup
      /\ \A q \in Pollers : ~Calls(q, "reply")
  BY <1>2, <1>3, LastIsAsked
<1>5. \A q \in Pollers : ~Calls(q, "reply")'
  BY <1>4 DEF Calls, Answers
<1>6. remote'.busy \subseteq {remote.runs}
  BY DEF AgentSound, RowKnowsRuns
<1> QED BY <1>2, <1>3, <1>4, <1>5, <1>6 DEF LearnedTrue

LEMMA AskedTyped ==
  ASSUME AgentTyped, NEW p \in Pollers
  PROVE  Asked(p) \subseteq {0} \cup Runs
<1>1. poll[p].row \in Row
  BY DEF AgentTyped, PollState
<1>2. poll[p].row.latest \in 0 .. MaxReplies + 1 /\ remote.runs \in 0 .. MaxReplies + 1
  BY <1>1, AgentNumbers DEF Row, AgentTyped
<1>3. \A r \in poll[p].row.latest .. remote.runs : r \in 0 .. MaxReplies + 1
  BY ONLY <1>2, AgentNumbers
<1>4. Asked(p) \subseteq (poll[p].row.latest .. remote.runs) \cup {poll[p].row.latest}
  BY DEF Asked
<1> QED BY <1>2, <1>3, <1>4, AgentNumbers

LEMMA SendCancelKeeps ==
  ASSUME AgentInv, NEW p \in Pollers, sendCancel(p)
  PROVE  AgentInv'
<1>0. AgentTyped /\ poll[p].pc = "call" /\ poll[p].op = "cancel" /\ Elsewhere
  BY DEF AgentInv, sendCancel, Calls
<1>1. CASE Lose /\ Fails(p) /\ UNCHANGED remote
  <2>1. Answers(p) /\ poll'[p].pc = "retry"
    BY <1>0, <1>1, FailsDoes
  <2>2. LearnedTrue(p)'
    BY <2>1 DEF LearnedTrue
  <2>3. remote' \in [runs : {0} \cup Runs, refused : BOOLEAN, busy : SUBSET Runs]
    BY <1>0, <1>1 DEF AgentTyped
  <2> QED BY <1>0, <1>1, <2>1, <2>2, <2>3, AnswerLeavesRuns
<1>2. CASE \E r \in Asked(p) :
             /\ remote' \in {remote, [remote EXCEPT !.busy = @ \ {r}]}
             /\ LET status == IF r \in remote'.busy THEN "running" ELSE "over" IN
                IF Unsettled(p, r) THEN Fails(p) ELSE Learns(p, r, status, TRUE, status = "running")
             /\ UNCHANGED chance
  <2>1. PICK r \in Asked(p) :
          /\ remote' \in {remote, [remote EXCEPT !.busy = @ \ {r}]}
          /\ LET status == IF r \in remote'.busy THEN "running" ELSE "over" IN
             IF Unsettled(p, r) THEN Fails(p) ELSE Learns(p, r, status, TRUE, status = "running")
          /\ UNCHANGED chance
    BY <1>2
  <2>2. /\ remote' \in [runs : {0} \cup Runs, refused : BOOLEAN, busy : SUBSET Runs]
        /\ remote'.runs = remote.runs /\ remote'.refused = remote.refused
        /\ remote'.busy \subseteq remote.busy
    BY <1>0, <2>1 DEF AgentTyped
  <2>3. r \in {0} \cup Runs
    BY <1>0, AskedTyped
  <2>4. /\ Answers(p)
        /\ poll'[p].pc = "finish" =>
             /\ ~Unsettled(p, r) /\ poll'[p].data.latest = r /\ poll'[p].data.remote
             /\ poll'[p].data.settles
             /\ r \in remote'.busy => poll'[p].data.status = "running"
    <3>1. CASE Unsettled(p, r)
      <4>1. Fails(p)
        BY <2>1, <3>1
      <4> QED BY <1>0, <4>1, FailsDoes
    <3>2. CASE ~Unsettled(p, r)
      <4> DEFINE status == IF r \in remote'.busy THEN "running" ELSE "over"
      <4>1. status \in {"running", "over"}
        OBVIOUS
      <4>2. PICK settles \in BOOLEAN, stops \in BOOLEAN :
              /\ settles \in BOOLEAN /\ stops \in BOOLEAN
              /\ Learns(p, r, status, settles, stops)
        BY <2>1, <3>2
      <4>3. r \in remote'.busy => status = "running"
        OBVIOUS
      <4> HIDE DEF status
      <4>4. /\ Answers(p) /\ poll'[p].pc = "finish"
            /\ poll'[p].data.status = status /\ poll'[p].data.latest = r /\ poll'[p].data.remote
        BY <1>0, <2>3, <4>1, <4>2, LearnsDoes
      <4>5. poll'[p].data.settles
        BY <1>0, <2>1, <3>2 DEF Learns, AgentTyped, PollState
      <4> QED BY <3>2, <4>3, <4>4, <4>5
    <3> QED BY <3>1, <3>2
  <2>5. AgentSound => LearnedTrue(p)'
    BY <1>0, <2>2, <2>4, LearnsLast
  <2> QED BY <1>0, <2>1, <2>2, <2>4, <2>5, AnswerLeavesRuns
<1> QED BY <1>1, <1>2 DEF sendCancel

LEMMA SendGetKeeps ==
  ASSUME AgentInv, NEW p \in Pollers, sendGet(p)
  PROVE  AgentInv'
<1>0. /\ AgentTyped /\ poll[p].pc = "call" /\ poll[p].op \in {"observe", "get"} /\ Elsewhere
      /\ UNCHANGED remote
  BY DEF AgentInv, sendGet, Calls
<1>3. remote' \in [runs : {0} \cup Runs, refused : BOOLEAN, busy : SUBSET Runs]
  BY <1>0 DEF AgentTyped
<1>1. CASE Lose /\ Fails(p)
  <2>1. Answers(p) /\ poll'[p].pc = "retry"
    BY <1>0, <1>1, FailsDoes
  <2>2. LearnedTrue(p)'
    BY <2>1 DEF LearnedTrue
  <2> QED BY <1>0, <1>1, <1>3, <2>1, <2>2, AnswerLeavesRuns
<1>2. CASE \E r \in Asked(p) :
             /\ IF Unsettled(p, r) THEN Fails(p)
                ELSE Learns(p, r, StatusOf(r), poll[p].op = "observe", FALSE)
             /\ UNCHANGED chance
  <2>1. PICK r \in Asked(p) :
          /\ IF Unsettled(p, r) THEN Fails(p)
             ELSE Learns(p, r, StatusOf(r), poll[p].op = "observe", FALSE)
          /\ UNCHANGED chance
    BY <1>2
  <2>3. r \in {0} \cup Runs
    BY <1>0, AskedTyped
  <2>4. /\ Answers(p)
        /\ poll'[p].pc = "finish" =>
             /\ ~Unsettled(p, r) /\ poll'[p].data.latest = r /\ poll'[p].data.remote
             /\ poll[p].op # "get" => poll'[p].data.settles
             /\ r \in remote'.busy => poll'[p].data.status = "running"
    <3>1. CASE Unsettled(p, r)
      <4>1. Fails(p)
        BY <2>1, <3>1
      <4> QED BY <1>0, <4>1, FailsDoes
    <3>2. CASE ~Unsettled(p, r)
      <4> DEFINE status == StatusOf(r)
                 settles == poll[p].op = "observe"
                 stops == FALSE
      <4>1. /\ status \in {"running", "over"} /\ settles \in BOOLEAN /\ stops \in BOOLEAN
            /\ poll[p].op # "get" => settles
        BY <1>0 DEF StatusOf
      <4>2. Learns(p, r, status, settles, stops)
        BY <2>1, <3>2
      <4>3. r \in remote'.busy => status = "running"
        BY <1>0 DEF StatusOf
      <4> HIDE DEF status, settles, stops
      <4>4. /\ Answers(p) /\ poll'[p].pc = "finish"
            /\ poll'[p].data.status = status /\ poll'[p].data.latest = r
            /\ poll'[p].data.remote /\ (settles => poll'[p].data.settles)
        BY <1>0, <2>3, <4>1, <4>2, LearnsDoes
      <4> QED BY <3>2, <4>1, <4>3, <4>4
    <3> QED BY <3>1, <3>2
  <2>5. AgentSound => LearnedTrue(p)'
    BY <1>0, <2>4, LearnsLast
  <2> QED BY <1>0, <1>3, <2>1, <2>4, <2>5, AnswerLeavesRuns
<1> QED BY <1>1, <1>2 DEF sendGet

LEMMA SendLaunchKeeps ==
  ASSUME AgentInv, NEW p \in Pollers, sendLaunch(p)
  PROVE  AgentInv'
<1> DEFINE r == IF remote.runs = 0 THEN 1 ELSE remote.runs
<1>0. /\ AgentTyped /\ poll[p].pc = "call" /\ poll[p].op = "launch" /\ Elsewhere /\ Calls(p, "launch")
      /\ remote \in [runs : {0} \cup Runs, refused : BOOLEAN, busy : SUBSET Runs]
  BY DEF AgentInv, sendLaunch, Calls, AgentTyped
<1>1. UNCHANGED agent
  BY <1>0 DEF Elsewhere
(* Who launches has read a row without a remote agent. *)
<1>2. ASSUME AgentSound
      PROVE  /\ agent.dispatched
             /\ MayWrite(p) => /\ ~agent.remote /\ ~agent.followup /\ agent.latest = 0
                               /\ ~poll[p].data.remote /\ poll[p].data.latest = 0
             /\ ~agent.remote => \A q \in Pollers : ~Calls(q, "reply")
  <2>1. agent.dispatched /\ ~poll[p].row.remote /\ ~poll[p].data.remote
        /\ poll[p].data.latest = poll[p].row.latest
    BY <1>0, <1>2 DEF AgentSound, SendsAlone, Planned
  <2>2. ~agent.remote => ~agent.followup /\ agent.latest = 0 /\ ~agent.dispatching
    BY <1>2 DEF AgentSound, RowKnowsRuns
  <2>3. MayWrite(p) => ~agent.remote /\ poll[p].row.latest = agent.latest
    BY <1>2, <2>1 DEF AgentSound, HolderRead
  <2> QED BY <1>2, <2>1, <2>2, <2>3 DEF AgentSound, SendsAlone
<1>3. CASE Lose /\ Fails(p) /\ UNCHANGED remote
  <2>1. Answers(p) /\ poll'[p].pc = "retry"
    BY <1>0, <1>3, FailsDoes
  <2>2. LearnedTrue(p)'
    BY <2>1 DEF LearnedTrue
  <2> QED BY <1>0, <1>3, <2>1, <2>2, AnswerLeavesRuns
<1>4. CASE /\ remote.runs = 0
           /\ remote' = [remote EXCEPT !.refused = TRUE]
           /\ poll' = [poll EXCEPT ![p].pc = "finish"]
           /\ UNCHANGED chance
  <2>1. /\ Answers(p) /\ poll'[p].pc = "finish" /\ poll'[p].data = poll[p].data
    BY <1>0, <1>4, RejectedDoes
  <2>2. /\ remote' \in [runs : {0} \cup Runs, refused : BOOLEAN, busy : SUBSET Runs]
        /\ remote'.runs = 0 /\ remote'.refused /\ remote'.busy = remote.busy
    BY <1>0, <1>4
  <2>3. ASSUME AgentSound
        PROVE  /\ RowKnowsRuns' /\ OverIsQuiet' /\ SentAsAsked' /\ SendsAlone'
               /\ LearnedTrue(p)' /\ \A q \in Pollers \ {p} : LearnedTrue(q)'
    <3>1. \A q \in Pollers, op \in {"launch", "reply"} :
            Calls(q, op)' => Calls(q, op) /\ poll'[q] = poll[q]
      BY <2>1 DEF Calls, Answers
    <3>2. ~agent.remote /\ remote.busy = {} /\ ~agent.dispatching
      BY <1>0, <1>4, <2>3, AgentCounts DEF AgentSound, RowKnowsRuns
    <3>3. RowKnowsRuns' /\ OverIsQuiet' /\ SentAsAsked'
      BY <1>1, <1>2, <1>4, <2>2, <2>3, <3>2 DEF AgentSound, RowKnowsRuns, OverIsQuiet, SentAsAsked
    <3>4. SendsAlone'
      BY <1>1, <1>4, <2>2, <2>3, <3>1 DEF AgentSound, SendsAlone
    <3>5. LearnedTrue(p)'
      <4>1. SUFFICES ASSUME MayWrite(p)' PROVE LearnedTrue(p)'
        BY DEF LearnedTrue
      <4>2. MayWrite(p) /\ poll'[p].op = "launch"
        BY <1>0, <1>1, <2>1, <4>1 DEF MayWrite, fence, Answers
      <4> QED BY <1>1, <1>2, <2>1, <2>2, <2>3, <3>1, <3>2, <4>2 DEF LearnedTrue
    <3>6. ASSUME NEW q \in Pollers \ {p} PROVE LearnedTrue(q)'
      <4>1. (MayWrite(q) <=> MayWrite(q)') /\ poll'[q] = poll[q]
        BY <1>1, <2>1 DEF MayWrite, fence, Answers
      <4> QED BY <1>1, <1>4, <2>2, <2>3, <3>1, <4>1 DEF AgentSound, LearnedTrue
    <3> QED BY <3>3, <3>4, <3>5, <3>6
  <2> QED BY <1>0, <1>4, <2>1, <2>2, <2>3, AnswerKept DEF AgentInv
<1>5. CASE /\ ~remote.refused
           /\ remote' = IF remote.runs = 0 THEN [remote EXCEPT !.runs = 1, !.busy = {1}] ELSE remote
           /\ \/ /\ Learns(p, r, IF r \in remote'.busy THEN "running" ELSE "over", FALSE,
                           poll[p].abandoned \/ poll[p].row.cancel)
                 /\ UNCHANGED chance
              \/ Lose /\ Fails(p)
  <2>1. /\ remote' \in [runs : {0} \cup Runs, refused : BOOLEAN, busy : SUBSET Runs]
        /\ remote'.runs = r /\ ~remote'.refused /\ r \in Runs
        /\ IF remote.runs = 0 THEN remote'.busy = {1} ELSE remote' = remote
    <3>1. 1 \in Runs /\ remote.runs \in {0} \cup Runs
      BY <1>0, AgentNumbers
    <3> QED BY <1>0, <1>5, <3>1
  <2>2. /\ Answers(p)
        /\ poll'[p].pc = "finish" =>
             /\ poll'[p].data.latest = r /\ poll'[p].data.remote
             /\ r \in remote'.busy => poll'[p].data.status = "running"
    <3>1. CASE Fails(p)
      BY <1>0, <3>1, FailsDoes
    <3>2. CASE Learns(p, r, IF r \in remote'.busy THEN "running" ELSE "over", FALSE,
                      poll[p].abandoned \/ poll[p].row.cancel)
      <4> DEFINE status == IF r \in remote'.busy THEN "running" ELSE "over"
                 settles == FALSE
                 stops == poll[p].abandoned \/ poll[p].row.cancel
      <4>1. /\ status \in {"running", "over"} /\ settles \in BOOLEAN /\ stops \in BOOLEAN
            /\ r \in remote'.busy => status = "running"
        OBVIOUS
      <4>2. Learns(p, r, status, settles, stops) /\ r \in {0} \cup Runs
        BY <2>1, <3>2
      <4> HIDE DEF status, settles, stops, r
      <4>3. /\ Answers(p) /\ poll'[p].pc = "finish"
            /\ poll'[p].data.status = status /\ poll'[p].data.latest = r
            /\ poll'[p].data.remote
        BY <1>0, <4>1, <4>2, LearnsDoes
      <4> QED BY <4>1, <4>3
    <3> QED BY <1>5, <3>1, <3>2
  <2> HIDE DEF r
  <2>3. ASSUME AgentSound
        PROVE  /\ RowKnowsRuns' /\ OverIsQuiet' /\ SentAsAsked' /\ SendsAlone'
               /\ LearnedTrue(p)' /\ \A q \in Pollers \ {p} : LearnedTrue(q)'
    <3>1. \A q \in Pollers, op \in {"launch", "reply"} :
            Calls(q, op)' => Calls(q, op) /\ poll'[q] = poll[q]
      BY <2>2 DEF Calls, Answers
    <3>2. /\ r > 0 /\ remote'.busy \subseteq {r} /\ (remote.runs > 0 => remote' = remote /\ r = remote.runs)
          /\ remote.runs = 0 => r = 1 /\ ~agent.remote /\ agent.status # "over"
      <4>1. remote.runs > 0 => remote.runs # 0
        OBVIOUS
      <4>2. remote.runs = 0 => ~agent.remote
        BY <2>3 DEF AgentSound, RowKnowsRuns
      <4>3. remote.runs = 0 => agent.status # "over"
        BY <1>0, <1>5, <2>3, <4>2 DEF AgentSound, OverIsQuiet
      <4>4. remote.busy \subseteq {remote.runs} /\ remote.runs \in Nat
        BY <1>0, <2>3, AgentCounts DEF AgentSound, RowKnowsRuns
      <4> QED BY <2>1, <4>1, <4>2, <4>3, <4>4 DEF r
    <3>3. ASSUME remote.runs > 0
          PROVE  RowKnowsRuns' /\ OverIsQuiet' /\ SentAsAsked' /\ SendsAlone'
      <4>1. remote' = remote
        BY <3>2, <3>3
      <4>2. RowKnowsRuns' /\ SentAsAsked'
        BY <1>1, <2>3, <4>1 DEF AgentSound, RowKnowsRuns, SentAsAsked
      <4>3. OverIsQuiet'
        BY <1>1, <2>3, <3>1, <4>1 DEF AgentSound, OverIsQuiet
      <4>4. SendsAlone'
        <5>1. UNCHANGED <<agent, remote>> /\ SendsAlone
          BY <1>1, <2>3, <4>1 DEF AgentSound
        <5>2. ASSUME NEW q \in Pollers, Calls(q, "launch")'
              PROVE  agent'.dispatched /\ poll'[q].row.request
          BY <3>1, <5>1, <5>2 DEF SendsAlone
        <5>3. \A q \in Pollers : Calls(q, "reply")' => Calls(q, "reply")
          BY <3>1
        <5> QED BY <5>1, <5>2, <5>3 DEF SendsAlone
      <4> QED BY <4>2, <4>3, <4>4
    <3>4. ASSUME remote.runs = 0
          PROVE  RowKnowsRuns' /\ OverIsQuiet' /\ SentAsAsked' /\ SendsAlone'
      <4>1. r = 1 /\ ~agent.remote /\ agent.status # "over" /\ ~agent.followup /\ ~agent.dispatching
            /\ agent.latest = 0
        BY <2>3, <3>2, <3>4 DEF AgentSound, RowKnowsRuns
      <4>2. RowKnowsRuns' /\ OverIsQuiet'
        BY <1>1, <1>2, <2>1, <2>3, <3>2, <4>1 DEF RowKnowsRuns, OverIsQuiet
      <4>3. SentAsAsked'
        BY <1>0, <1>1, <2>1, <4>1, AgentCounts DEF SentAsAsked
      <4>4. SendsAlone'
        <5>1. \A q \in Pollers : ~Calls(q, "reply")'
          BY <1>2, <2>3, <3>1, <4>1
        <5>2. agent'.dispatched /\ SendsAlone
          BY <1>1, <1>2, <2>3 DEF AgentSound
        <5>3. ASSUME NEW q \in Pollers, Calls(q, "launch")'
              PROVE  agent'.dispatched /\ poll'[q].row.request
          BY <3>1, <5>2, <5>3 DEF SendsAlone
        <5>4. \A q \in Pollers : ~Calls(q, "reply")'
          BY <3>1, <5>1
        <5> QED BY <5>3, <5>4 DEF SendsAlone
      <4> QED BY <4>2, <4>3, <4>4
    <3>5. RowKnowsRuns' /\ OverIsQuiet' /\ SentAsAsked' /\ SendsAlone'
      BY <1>0, <3>3, <3>4, AgentCounts
    <3>6. LearnedTrue(p)'
      <4>1. SUFFICES ASSUME MayWrite(p)', poll'[p].pc = "finish" PROVE LearnedTrue(p)'
        BY DEF LearnedTrue
      <4>2. MayWrite(p) /\ poll'[p].op = "launch"
        BY <1>0, <1>1, <2>2, <4>1 DEF MayWrite, fence, Answers
      <4>3. \A q \in Pollers : ~Calls(q, "reply")'
        BY <1>2, <2>3, <3>1, <4>2
      <4> QED BY <1>1, <1>2, <2>1, <2>2, <2>3, <3>2, <4>1, <4>2, <4>3 DEF LearnedTrue
    <3>7. ASSUME NEW q \in Pollers \ {p} PROVE LearnedTrue(q)'
      <4>1. (MayWrite(q) <=> MayWrite(q)') /\ poll'[q] = poll[q]
        BY <1>1, <2>2 DEF MayWrite, fence, Answers
      <4>2. SUFFICES ASSUME MayWrite(q), poll[q].pc = "finish" PROVE LearnedTrue(q)'
        BY <4>1 DEF LearnedTrue
      <4>3. LearnedTrue(q) /\ poll[q].data.remote \in BOOLEAN
        BY <1>0, <2>3 DEF AgentSound, AgentTyped, PollState, Update
      <4>4. poll[q].data.remote
        BY <1>0, <1>5, <4>2, <4>3 DEF LearnedTrue
      <4>5. remote' = remote
        BY <3>2, <4>2, <4>3, <4>4 DEF LearnedTrue
      <4> QED BY <1>1, <3>1, <4>1, <4>3, <4>5 DEF LearnedTrue
    <3> QED BY <3>5, <3>6, <3>7
  <2> QED BY <1>0, <1>5, <2>1, <2>2, <2>3, AnswerKept DEF AgentInv
<1> QED BY <1>3, <1>4, <1>5 DEF sendLaunch

LEMMA SendReplyKeeps ==
  ASSUME AgentInv, NEW p \in Pollers, sendReply(p)
  PROVE  AgentInv'
<1> DEFINE r == remote.runs + 1
<1>0. /\ AgentTyped /\ poll[p].pc = "call" /\ poll[p].op = "reply" /\ Elsewhere /\ Calls(p, "reply")
      /\ remote \in [runs : {0} \cup Runs, refused : BOOLEAN, busy : SUBSET Runs]
  BY DEF AgentInv, sendReply, Calls, AgentTyped
<1>1. UNCHANGED agent
  BY <1>0 DEF Elsewhere
(* Who sends a follow-up is alone with it, and nothing else runs. *)
<1>2. ASSUME AgentSound
      PROVE  /\ agent.dispatching /\ agent.followup /\ agent.remote /\ agent.status = "running"
             /\ agent.latest = remote.runs /\ remote.runs > 0 /\ remote.busy = {}
             /\ \A q \in Pollers \ {p} : ~Calls(q, "reply")
  BY <1>0, <1>2 DEF AgentSound, SendsAlone, RowKnowsRuns
(* So no other poll with the lease is about to write. *)
<1>3. ASSUME AgentSound, Answers(p), NEW q \in Pollers \ {p} PROVE LearnedTrue(q)'
  <2>1. ~(MayWrite(q) /\ poll[q].pc = "finish")
    BY <1>0, <1>3 DEF AgentSound, LearnedTrue
  <2>2. ~(MayWrite(q)' /\ poll'[q].pc = "finish")
    BY <1>1, <1>3, <2>1 DEF Answers, MayWrite, fence
  <2> QED BY <2>2 DEF LearnedTrue
<1>4. CASE Lose /\ Fails(p) /\ UNCHANGED remote
  <2>1. Answers(p) /\ poll'[p].pc = "retry"
    BY <1>0, <1>4, FailsDoes
  <2>2. LearnedTrue(p)'
    BY <2>1 DEF LearnedTrue
  <2> QED BY <1>0, <1>4, <2>1, <2>2, AnswerLeavesRuns
<1>5. CASE /\ poll' = [poll EXCEPT ![p].pc = "finish", ![p].data.settles = TRUE]
           /\ UNCHANGED <<remote, chance>>
  <2>1. /\ Answers(p) /\ poll'[p].pc = "finish"
        /\ poll'[p].data.latest = poll[p].data.latest
        /\ poll'[p].data.remote = poll[p].data.remote
        /\ IF poll' = [poll EXCEPT ![p].pc = "finish"]
           THEN poll'[p].data = poll[p].data ELSE poll'[p].data.settles
    BY <1>0, <1>5, RejectedDoes
  <2>2. poll'[p].data.settles
    BY <1>0, <1>5 DEF AgentTyped, PollState, Update
  <2>3. ASSUME AgentSound PROVE LearnedTrue(p)'
    <3>1. SUFFICES ASSUME MayWrite(p)' PROVE LearnedTrue(p)'
      BY DEF LearnedTrue
    <3>2. MayWrite(p) /\ poll'[p].op = "reply"
      BY <1>0, <1>1, <2>1, <3>1 DEF MayWrite, fence, Answers
    <3>3. poll[p].data.remote /\ poll[p].data.latest = agent.latest
      BY <1>0, <1>2, <2>3, <3>2 DEF AgentSound, HolderRead, Planned
    <3>4. \A q \in Pollers : ~Calls(q, "reply")'
      BY <1>2, <2>1, <2>3 DEF Calls, Answers
    <3> QED BY <1>1, <1>2, <1>5, <2>1, <2>2, <2>3, <3>2, <3>3, <3>4 DEF LearnedTrue
  <2> QED BY <1>0, <1>5, <2>1, <2>3, AnswerLeavesRuns
<1>6. CASE /\ r \in Runs
           /\ remote' = [remote EXCEPT !.runs = r, !.busy = @ \cup {r}]
           /\ \/ Learns(p, r, "running", TRUE, FALSE) /\ UNCHANGED chance
              \/ Lose /\ Fails(p)
  <2>1. /\ remote' \in [runs : {0} \cup Runs, refused : BOOLEAN, busy : SUBSET Runs]
        /\ remote'.runs = r /\ remote'.refused = remote.refused
        /\ remote'.busy = remote.busy \cup {r}
    BY <1>0, <1>6
  <2>2. /\ Answers(p)
        /\ poll'[p].pc = "finish" =>
             /\ poll'[p].data.latest = r /\ poll'[p].data.remote
             /\ poll'[p].data.status = "running" /\ poll'[p].data.settles
    <3>1. CASE Fails(p)
      BY <1>0, <3>1, FailsDoes
    <3>2. CASE Learns(p, r, "running", TRUE, FALSE)
      <4>1. r \in {0} \cup Runs
        BY <1>6
      <4>2. PICK settles \in BOOLEAN, stops \in BOOLEAN :
              /\ settles \in BOOLEAN /\ stops \in BOOLEAN
              /\ Learns(p, r, "running", settles, stops)
        BY <3>2
      <4> HIDE DEF r
      <4>3. /\ Answers(p) /\ poll'[p].pc = "finish"
            /\ poll'[p].data.status = "running" /\ poll'[p].data.latest = r
            /\ poll'[p].data.remote
        BY <1>0, <4>1, <4>2, LearnsDoes
      <4>4. poll'[p].data.settles
        BY <1>0, <3>2 DEF Learns, AgentTyped, PollState
      <4> QED BY <4>3, <4>4
    <3> QED BY <1>6, <3>1, <3>2
  <2>3. ASSUME AgentSound
        PROVE  /\ RowKnowsRuns' /\ OverIsQuiet' /\ SentAsAsked' /\ SendsAlone'
               /\ LearnedTrue(p)'
    <3>1. \A q \in Pollers, op \in {"launch", "reply"} :
            Calls(q, op)' => Calls(q, op) /\ poll'[q] = poll[q] /\ q # p
      BY <2>2 DEF Calls, Answers
    <3>2. \A q \in Pollers : ~Calls(q, "reply")'
      BY <1>2, <2>3, <3>1
    <3>3. /\ r = agent.latest + 1 /\ r > 0 /\ r # agent.latest /\ remote'.busy = {r}
          /\ ~remote.refused
      <4>1. remote.runs \in Nat
        BY <1>0, AgentCounts
      <4> QED BY <1>2, <2>1, <2>3, <4>1 DEF AgentSound, RowKnowsRuns
    <3> HIDE DEF r
    <3>4. RowKnowsRuns' /\ OverIsQuiet'
      BY <1>1, <1>2, <2>1, <2>3, <3>3 DEF AgentSound, RowKnowsRuns, OverIsQuiet
    <3>5. SentAsAsked'
      <4>1. remote.runs <= agent.gen
        BY <1>2, <2>3 DEF AgentSound, SentAsAsked
      <4>2. r <= agent.gen + 1
        BY <1>0, <4>1, AgentCounts DEF r
      <4> QED BY <1>1, <2>1, <3>3, <4>2 DEF SentAsAsked
    <3>6. SendsAlone'
      BY <1>1, <2>3, <3>1, <3>2 DEF AgentSound, SendsAlone
    <3>7. LearnedTrue(p)'
      <4>1. SUFFICES ASSUME poll'[p].pc = "finish" PROVE LearnedTrue(p)'
        BY DEF LearnedTrue
      <4>2. poll'[p].op = "reply"
        BY <1>0, <2>2 DEF Answers
      <4> QED BY <2>1, <2>2, <3>2, <3>3, <4>1, <4>2 DEF LearnedTrue
    <3> QED BY <3>4, <3>5, <3>6, <3>7
  <2> QED BY <1>0, <1>3, <1>6, <2>1, <2>2, <2>3, AnswerKept DEF AgentInv
<1> QED BY <1>4, <1>5, <1>6 DEF sendReply

-----------------------------------------------------------------------------
(* A poll that writes what it has learned *)

(* The bot is to be told now. *)
TellsNow(p) ==
  poll[p].data.status = "over" /\ ~(poll[p].abandoned \/ ~attached) /\ Wakes(agent)

LEMMA FinishDoes ==
  ASSUME AgentTyped, NEW p \in Pollers, finishPoll(p), fence(p)
  PROVE  LET d == poll[p].data IN
         /\ agent' \in Row
         /\ ~agent'.request /\ agent'.status = d.status /\ agent'.latest = d.latest
         /\ agent'.remote = (agent.remote \/ d.remote) /\ agent'.dispatched = agent.dispatched
         /\ agent'.followup = (agent.followup /\ ~d.settles)
         /\ agent'.dispatching = (agent.dispatching /\ ~(d.settles /\ poll[p].op # "drop"))
         /\ agent'.gen = agent.gen
         /\ agent'.cancel => d.status # "over"
         /\ agent.cancel /\ ~agent'.cancel => d.status = "over" \/ ~poll[p].row.cancel
         /\ agent'.woken = IF TellsNow(p) THEN agent.gen ELSE agent.woken
         /\ wakes' = IF TellsNow(p) THEN [wakes EXCEPT ![agent.gen] = @ + 1] ELSE wakes
<1> DEFINE d == poll[p].data
           followup == IF d.settles THEN FALSE ELSE agent.followup
           dispatching == IF d.settles /\ poll[p].op # "drop" THEN FALSE ELSE agent.dispatching
           detached == poll[p].abandoned \/ ~attached
           stops == d.status # "over" /\ (detached \/ d.cancel \/ poll[p].row.cancel)
           woken == IF TellsNow(p) THEN agent.gen ELSE agent.woken
           remoteNow == agent.remote \/ d.remote
           due == d.status # "over"
<1>1. /\ agent \in Row /\ d \in Update /\ poll[p].row \in Row
  BY DEF AgentTyped, PollState
<1>2. agent' = [agent EXCEPT
        !.request = FALSE, !.status = d.status, !.latest = d.latest, !.remote = remoteNow,
        !.followup = followup, !.dispatching = dispatching, !.cancel = stops,
        !.due = due, !.lease = NoPoller, !.live = FALSE, !.woken = woken]
  BY DEF finishPoll, TellsNow
<1>3. /\ followup \in BOOLEAN /\ dispatching \in BOOLEAN /\ stops \in BOOLEAN
      /\ remoteNow \in BOOLEAN /\ due \in BOOLEAN
      /\ followup = (agent.followup /\ ~d.settles)
      /\ dispatching = (agent.dispatching /\ ~(d.settles /\ poll[p].op # "drop"))
  BY <1>1 DEF Row, Update
<1>4. woken \in {-1} \cup Gens /\ d.status \in {"running", "over"} /\ d.latest \in {0} \cup Runs
  BY <1>1 DEF Row, Update
<1>5. stops => d.status # "over"
  OBVIOUS
<1>6. ~stops => d.status = "over" \/ ~poll[p].row.cancel
  OBVIOUS
<1> HIDE DEF d, followup, dispatching, detached, stops, woken, remoteNow, due
<1>7. /\ agent' \in Row
      /\ ~agent'.request /\ agent'.status = d.status /\ agent'.latest = d.latest
      /\ agent'.remote = remoteNow /\ agent'.dispatched = agent.dispatched
      /\ agent'.followup = followup /\ agent'.dispatching = dispatching
      /\ agent'.gen = agent.gen /\ agent'.cancel = stops /\ agent'.woken = woken
  <2>1. PICK f \in BOOLEAN, g \in BOOLEAN, c \in BOOLEAN, u \in BOOLEAN, m \in BOOLEAN :
          /\ f = followup /\ g = dispatching /\ c = stops /\ u = due /\ m = remoteNow
          /\ f \in BOOLEAN /\ g \in BOOLEAN /\ c \in BOOLEAN /\ u \in BOOLEAN /\ m \in BOOLEAN
    BY <1>3, Zenon
  <2>2. agent' = [agent EXCEPT
          !.request = FALSE, !.status = d.status, !.latest = d.latest, !.remote = m,
          !.followup = f, !.dispatching = g, !.cancel = c,
          !.due = u, !.lease = NoPoller, !.live = FALSE, !.woken = woken]
    BY <1>2, <2>1, Zenon
  <2>3. /\ agent' \in Row
        /\ ~agent'.request /\ agent'.status = d.status /\ agent'.latest = d.latest
        /\ agent'.remote = m /\ agent'.dispatched = agent.dispatched
        /\ agent'.followup = f /\ agent'.dispatching = g
        /\ agent'.gen = agent.gen /\ agent'.cancel = c /\ agent'.woken = woken
    <3> DEFINE x == [agent EXCEPT !.request = FALSE, !.status = d.status, !.latest = d.latest,
                                  !.remote = m]
               y == [x EXCEPT !.followup = f, !.dispatching = g, !.cancel = c, !.due = u]
               z == [y EXCEPT !.lease = NoPoller, !.live = FALSE, !.woken = woken]
    <3>0. m \in BOOLEAN /\ f \in BOOLEAN /\ g \in BOOLEAN /\ c \in BOOLEAN /\ u \in BOOLEAN
      BY <2>1
    <3>1. agent' = z
      BY <2>2
    <3>2. x \in Row
      BY ONLY <1>1, <1>4, <3>0 DEF Row
    <3>7. /\ ~x.request /\ x.status = d.status /\ x.latest = d.latest /\ x.remote = m
          /\ x.dispatched = agent.dispatched /\ x.gen = agent.gen
      BY <1>1 DEF Row
    <3> HIDE DEF x
    <3>3. y \in Row
      BY ONLY <3>0, <3>2 DEF Row
    <3>4. /\ y.request = x.request /\ y.status = x.status /\ y.latest = x.latest
          /\ y.remote = x.remote /\ y.dispatched = x.dispatched /\ y.gen = x.gen
      BY <3>2 DEF Row
    <3>5. y.followup = f /\ y.dispatching = g /\ y.cancel = c
      BY <2>1, <3>2 DEF Row
    <3> HIDE DEF y
    <3>6. /\ z \in Row /\ z.request = y.request /\ z.status = y.status /\ z.latest = y.latest
          /\ z.remote = y.remote /\ z.dispatched = y.dispatched /\ z.gen = y.gen
          /\ z.followup = y.followup /\ z.dispatching = y.dispatching /\ z.cancel = y.cancel
          /\ z.woken = woken
      BY <1>4, <3>3 DEF Row
    <3> HIDE DEF z
    <3> QED BY <3>1, <3>4, <3>5, <3>6, <3>7
  <2> QED BY <2>1, <2>3, Zenon
<1>8. wakes' = IF TellsNow(p) THEN [wakes EXCEPT ![agent.gen] = @ + 1] ELSE wakes
  BY DEF finishPoll, TellsNow
<1> QED BY <1>3, <1>5, <1>6, <1>7, <1>8 DEF d, remoteNow, woken

LEMMA StaleReleases ==
  ASSUME AgentTyped, NEW p \in Pollers, poll' = [Stale EXCEPT ![p].pc = "release"]
  PROVE  /\ poll' \in [Pollers -> PollState]
         /\ \A q \in Pollers :
              /\ ~poll'[q].valid /\ (poll'[q].pc = poll[q].pc \/ poll'[q].pc = "release")
              /\ poll'[q].row = poll[q].row /\ poll'[q].abandoned = poll[q].abandoned
              /\ poll'[q].op = poll[q].op /\ poll'[q].data = poll[q].data
<1>1. Stale[p] \in PollState /\ Stale \in [Pollers -> PollState]
  BY StaleDoes
<1> DEFINE w == [Stale[p] EXCEPT !.pc = "release"]
<1>2. /\ w \in PollState /\ w.valid = Stale[p].valid /\ w.pc = "release" /\ w.row = Stale[p].row
      /\ w.abandoned = Stale[p].abandoned /\ w.op = Stale[p].op /\ w.data = Stale[p].data
  BY <1>1 DEF PollState
<1>3. poll' = [Stale EXCEPT ![p] = w]
  BY <1>1
<1> HIDE DEF w
<1>4. /\ poll' \in [Pollers -> PollState] /\ poll'[p] = w
      /\ \A q \in Pollers \ {p} : poll'[q] = Stale[q]
  BY <1>1, <1>2, <1>3
<1> QED BY <1>2, <1>4, StaleDoes

LEMMA FinishPollKeeps ==
  ASSUME AgentInv, NEW p \in Pollers, finishPoll(p)
  PROVE  AgentInv'
<1> USE DEF AgentInv
<1>1. /\ UNCHANGED <<life, remote, attached, chance>> /\ poll[p].pc = "finish"
      /\ chance' \in [lost : Nat, dies : Nat, lapses : Nat, replies : Gens, cancels : BOOLEAN]
  BY DEF finishPoll, AgentTyped
<1>2. CASE ~fence(p)
  <2>1. poll' = [poll EXCEPT ![p].pc = "release"] /\ UNCHANGED <<agent, wakes, reply>>
    BY <1>2 DEF finishPoll
  <2>2. SameIntent(agent, agent') /\ SameStory(agent, agent') /\ agent' \in Row
    BY <2>1 DEF SameIntent, SameStory, AgentTyped
  <2> QED BY <1>1, <2>1, <2>2, PollGoes, PollStops
<1>3. CASE fence(p)
  <2> DEFINE d == poll[p].data
  <2>1. /\ poll' = [Stale EXCEPT ![p].pc = "release"]
        /\ reply' = [reply EXCEPT !.valid = FALSE]
    BY <1>3 DEF finishPoll
  <2>2. /\ reply' \in [pc : {"idle", "write"}, valid : BOOLEAN]
        /\ reply'.pc = reply.pc /\ ~reply'.valid
    BY <2>1 DEF AgentTyped
  <2>3. /\ agent' \in Row
        /\ ~agent'.request /\ agent'.status = d.status /\ agent'.latest = d.latest
        /\ agent'.remote = (agent.remote \/ d.remote) /\ agent'.dispatched = agent.dispatched
        /\ agent'.followup = (agent.followup /\ ~d.settles)
        /\ agent'.dispatching = (agent.dispatching /\ ~(d.settles /\ poll[p].op # "drop"))
        /\ agent'.gen = agent.gen
        /\ agent'.woken = IF TellsNow(p) THEN agent.gen ELSE agent.woken
        /\ wakes' = IF TellsNow(p) THEN [wakes EXCEPT ![agent.gen] = @ + 1] ELSE wakes
    BY <1>3, FinishDoes
  <2>4. /\ d.status \in {"running", "over"} /\ d.remote \in BOOLEAN /\ d.settles \in BOOLEAN
        /\ agent.remote \in BOOLEAN /\ agent.followup \in BOOLEAN /\ agent.dispatching \in BOOLEAN
        /\ wakes \in [Gens -> Nat] /\ agent.gen \in Gens
    BY DEF AgentTyped, PollState, Update, Row
  <2> HIDE DEF d
  <2>5. AgentTyped'
    <3>1. wakes' \in [Gens -> Nat]
      BY <2>3, <2>4
    <3>2. poll' \in [Pollers -> PollState]
      BY <2>1, StaleReleases
    <3> QED BY <1>1, <2>2, <2>3, <3>1, <3>2 DEF AgentTyped
  <2>6. RepliesCounted' /\ NoneYet' /\ CancelRead'
    BY <1>1, <2>1, <2>2, <2>3, <2>4, StaleReleases DEF RepliesCounted, NoneYet, CancelRead
  <2>7. ToldOnce'
    <3>1. \A q \in Pollers : poll'[q].abandoned => ~attached'
      BY <1>1, <2>1, StaleReleases DEF ToldOnce
    <3>2. CASE TellsNow(p)
      <4>1. agent.woken # agent.gen
        BY <3>2, AgentCounts DEF TellsNow, Wakes
      <4>2. wakes[agent.gen] = 0
        BY <4>1 DEF ToldOnce
      <4>3. agent'.woken = agent.gen /\ wakes' = [wakes EXCEPT ![agent.gen] = wakes[agent.gen] + 1]
        BY <2>3, <3>2
      <4>4. wakes'[agent.gen] = 1 /\ \A g \in Gens : g > agent.gen => wakes'[g] = wakes[g]
        BY <2>4, <4>2, <4>3, AgentCounts
      <4> QED BY <2>3, <3>1, <4>3, <4>4, AgentCounts DEF ToldOnce
    <3>3. CASE ~TellsNow(p)
      <4>1. agent'.woken = agent.woken /\ wakes' = wakes
        BY <2>3, <3>3
      <4>2. d.status = "over" /\ attached => agent.woken = agent.gen
        <5>1. ASSUME d.status = "over", attached PROVE ~Wakes(agent)
          BY <3>3, <5>1 DEF TellsNow, ToldOnce, d
        <5> QED BY <5>1, AgentCounts DEF Wakes, ToldOnce
      <4> QED BY <1>1, <2>3, <3>1, <4>1, <4>2 DEF ToldOnce
    <3> QED BY <3>2, <3>3
  <2>8. ASSUME AgentSound PROVE AgentSound'
    <3>1. MayWrite(p)
      BY <1>1, <1>3 DEF MayWrite
    <3>2. /\ d.status = "over" => remote.busy = {}
          /\ d.settles \/ ~agent.followup
          /\ \A q \in Pollers : ~Calls(q, "reply")
          /\ agent.remote => d.remote
          /\ d.remote => d.latest = remote.runs /\ remote.runs > 0
          /\ ~d.remote => /\ d.latest = 0 /\ remote.runs = 0
                          /\ remote.refused \/ \A q \in Pollers : ~Calls(q, "launch")
      BY <1>1, <2>8, <3>1 DEF AgentSound, LearnedTrue, d
    <3>3. agent.dispatching => agent.followup /\ agent.remote
      BY <2>8 DEF AgentSound, RowKnowsRuns
    <3>4. poll[p].op = "drop" => ~agent.dispatching
      BY <2>8, <3>1, <3>3 DEF AgentSound, Planned, HolderRead, Marked
    <3>5. ~agent'.followup /\ ~agent'.dispatching /\ agent'.remote = d.remote
      BY <2>3, <2>4, <3>2, <3>3, <3>4
    <3>6. \A q \in Pollers : ~MayWrite(q)'
      BY <2>1, StaleReleases DEF MayWrite, fence
    <3>7. \A q \in Pollers :
            /\ Planned(poll'[q]) /\ HolderRead(q)' /\ LearnedTrue(q)'
            /\ \A op : Calls(q, op)' => Calls(q, op)
      BY <2>1, <2>8, <3>6, StaleReleases, NobodyWrites
    <3>8. RowKnowsRuns'
      BY <1>1, <2>3, <2>4, <2>8, <3>2, <3>5 DEF AgentSound, RowKnowsRuns
    <3>9. OverIsQuiet'
      BY <1>1, <2>3, <3>2, <3>5, <3>7 DEF OverIsQuiet
    <3>10. SentAsAsked' /\ ReplyRead'
      BY <1>1, <2>2, <2>3, <2>8, <3>5 DEF AgentSound, SentAsAsked, ReplyRead
    <3>11. SendsAlone'
      <4>1. ASSUME NEW q \in Pollers, Calls(q, "launch")'
            PROVE  agent'.dispatched /\ poll'[q].row.request
        BY <2>1, <2>3, <2>8, <3>7, <4>1, StaleReleases DEF AgentSound, SendsAlone
      <4> QED BY <3>2, <3>7, <4>1 DEF SendsAlone
    <3> QED BY <3>7, <3>8, <3>9, <3>10, <3>11 DEF AgentSound
  <2> QED BY <1>1, <2>5, <2>6, <2>7, <2>8
<1> QED BY <1>2, <1>3

-----------------------------------------------------------------------------
(* The cloud agents: what is proved of them *)

LEMMA AgentInitHolds ==
  ASSUME AgentInit PROVE AgentInv
<1>1. life \in Agents /\ life.lost \in Nat /\ life.dies \in Nat /\ life.lapses \in Nat
      /\ life.replies \in Gens /\ life.cancels \in BOOLEAN
  BY AgentAssumption DEF AgentInit, AgentAssumption, Gens
<1>2. /\ agent = NoRow /\ remote = [runs |-> 0, refused |-> FALSE, busy |-> {}]
      /\ poll = [p \in Pollers |-> NoPoll] /\ reply = [pc |-> "idle", valid |-> FALSE]
      /\ attached = TRUE /\ wakes = [g \in Gens |-> 0]
      /\ chance = [lost |-> life.lost, dies |-> life.dies, lapses |-> life.lapses,
                   replies |-> life.replies, cancels |-> life.cancels]
  BY DEF AgentInit
<1>3. AgentTyped
  BY <1>1, <1>2, NothingTyped DEF AgentTyped
<1>4. /\ agent.gen = 0 /\ agent.woken = -1 /\ agent.status = "none" /\ ~agent.remote
      /\ ~agent.followup /\ ~agent.dispatching /\ agent.latest = 0
      /\ chance.replies \in Gens
      /\ \A p \in Pollers : poll[p] = NoPoll /\ poll[p].pc = "idle" /\ ~poll[p].abandoned
  BY <1>1, <1>2 DEF NoRow, NoPoll
<1>5. RepliesCounted /\ NoneYet /\ CancelRead /\ ToldOnce
  BY <1>2, <1>4, AgentNumbers DEF RepliesCounted, NoneYet, CancelRead, ToldOnce
<1>6. \A p \in Pollers : Planned(poll[p]) /\ ~MayWrite(p) /\ ~Calls(p, "launch") /\ ~Calls(p, "reply")
  BY <1>4, NothingTyped DEF MayWrite, Calls
<1>7. AgentSound
  BY <1>2, <1>4, <1>6, AgentNumbers DEF AgentSound, RowKnowsRuns, OverIsQuiet, SentAsAsked, ReplyRead,
                            SendsAlone, HolderRead, LearnedTrue
<1> QED BY <1>3, <1>5, <1>7 DEF AgentInv

LEMMA AgentStepKeeps ==
  ASSUME AgentInv, [AgentNext]_agentVars
  PROVE  AgentInv'
<1>1. CASE launchTool
  BY <1>1, LaunchToolKeeps
<1>2. CASE replyReads
  BY <1>2, ReplyReadsKeeps
<1>3. CASE replyWrites
  BY <1>3, ReplyWritesKeeps
<1>4. CASE cancelTool
  BY <1>4, CancelToolKeeps
<1>5. CASE Detach
  BY <1>5, DetachKeeps
<1>6. CASE \E p \in Pollers : pollReads(p) \/ pollProceeds(p) \/ pollDies(p)
  <2>1. PICK p \in Pollers : pollReads(p) \/ pollProceeds(p) \/ pollDies(p)
    BY <1>6
  <2> QED BY <2>1, PollReadsKeeps, PollClaimsKeeps, PollChecksKeeps, PollMarksKeeps,
             SendLaunchKeeps, SendReplyKeeps, SendCancelKeeps, SendGetKeeps, FinishPollKeeps,
             RetryPollKeeps, PollReleasesKeeps, PollDiesKeeps DEF pollProceeds
<1>7. CASE remoteEnds
  BY <1>7, RemoteEndsKeeps
<1>8. CASE leaseLapses
  BY <1>8, LeaseLapsesKeeps
<1>9. CASE UNCHANGED agentVars
  <2>1. UNCHANGED <<life, agent, remote, poll, reply, attached, wakes, chance>>
    BY <1>9 DEF agentVars
  <2>2. AgentTyped' /\ RepliesCounted' /\ NoneYet' /\ CancelRead' /\ ToldOnce'
    BY <2>1 DEF AgentInv, AgentTyped, RepliesCounted, NoneYet, CancelRead, ToldOnce
  <2>3. ASSUME AgentSound PROVE AgentSound'
    <3>1. \A p \in Pollers : HolderRead(p)' /\ LearnedTrue(p)'
      BY <2>1, <2>3 DEF AgentSound, HolderRead, LearnedTrue, MayWrite, fence, Marked, Calls
    <3>2. RowKnowsRuns' /\ OverIsQuiet' /\ SentAsAsked' /\ ReplyRead' /\ SendsAlone'
      BY <2>1, <2>3 DEF AgentSound, RowKnowsRuns, OverIsQuiet, SentAsAsked, ReplyRead, SendsAlone,
                        Calls
    <3> QED BY <2>1, <2>3, <3>1, <3>2 DEF AgentSound
  <2> QED BY <2>1, <2>2, <2>3 DEF AgentInv
<1> QED BY <1>1, <1>2, <1>3, <1>4, <1>5, <1>6, <1>7, <1>8, <1>9 DEF AgentNext

LEMMA AgentInvariant == AgentSpec => []AgentInv
<1>1. AgentInit => AgentInv
  BY AgentInitHolds
<1>2. AgentInv /\ [AgentNext]_agentVars => AgentInv'
  BY AgentStepKeeps
<1> QED BY <1>1, <1>2, PTL DEF AgentSpec

(* The row, the polls and the provider's agent keep their types.           *)
THEOREM AgentTypeCorrect == AgentSpec => []AgentTypeOK
<1>1. AgentInv => AgentTypeOK
  BY DEF AgentInv, AgentTyped, AgentTypeOK, PollState, PollOps
<1> QED BY <1>1, AgentInvariant, PTL

(* However requests and answers are lost, polls die or outlast their       *)
(* leases, a follow-up reaches the provider at most once                   *)
(* (cloud-agent-poll.ts: the mark that is written before the request).     *)
THEOREM FollowupOnce == AgentSpec => []FollowupIsSentOnce
<1>1. AgentInv => FollowupIsSentOnce
  BY DEF AgentInv, AgentSound, SentAsAsked, FollowupIsSentOnce
<1> QED BY <1>1, AgentInvariant, PTL

(* The one step that takes a cancel off the row is a poll's, and it writes *)
(* that the agent is over, or it had read the cancel.                      *)
LEMMA CancelStepKept ==
  ASSUME AgentInv, [AgentNext]_agentVars
  PROVE  agent.cancel /\ ~agent'.cancel => agent'.status = "over"
<1> SUFFICES ASSUME agent.cancel, ~agent'.cancel PROVE agent'.status = "over"
  OBVIOUS
<1>1. AgentTyped /\ CancelRead /\ NoneYet /\ agent \in Row
  BY DEF AgentInv, AgentTyped
<1>2. agent' # agent
  OBVIOUS
<1>3. ~launchTool
  BY <1>1 DEF launchTool, NoneYet, NoRow
<1>4. ~replyReads /\ ~Detach /\ ~remoteEnds /\ agentVars' # agentVars
  BY <1>2 DEF replyReads, Detach, remoteEnds, agentVars
<1>5. ~replyWrites /\ ~cancelTool /\ ~leaseLapses
  <2>1. ~replyWrites
    BY <1>1, <1>2 DEF replyWrites, Row
  <2>2. ~cancelTool
    BY <1>1 DEF cancelTool, Row
  <2>3. ~leaseLapses
    BY <1>1 DEF leaseLapses, Row
  <2> QED BY <2>1, <2>2, <2>3
<1>6. PICK p \in Pollers : pollReads(p) \/ pollProceeds(p) \/ pollDies(p)
  BY <1>3, <1>4, <1>5 DEF AgentNext
<1>7. finishPoll(p)
  <2>1. ~pollReads(p) /\ ~pollClaims(p) /\ ~pollMarks(p)
    BY <1>1, <1>2 DEF pollReads, pollClaims, pollMarks, Row
  <2>2. ~pollChecks(p) /\ ~sendLaunch(p) /\ ~sendReply(p) /\ ~sendCancel(p) /\ ~sendGet(p)
        /\ ~pollDies(p)
    BY <1>2 DEF pollChecks, sendLaunch, sendReply, sendCancel, sendGet, pollDies, Elsewhere
  <2>3. ~retryPoll(p) /\ ~pollReleases(p)
    BY <1>1, <1>2 DEF retryPoll, pollReleases, Row
  <2> QED BY <1>6, <2>1, <2>2, <2>3 DEF pollProceeds
<1>8. fence(p) /\ poll[p].pc = "finish"
  BY <1>2, <1>7 DEF finishPoll
<1>9. poll[p].row.cancel
  BY <1>1, <1>8 DEF CancelRead, fence
<1> QED BY <1>1, <1>7, <1>8, <1>9, FinishDoes

(* A cancel is not forgotten, and when the agent is shown as over nothing  *)
(* of it runs on (cloud-agent-service.ts: cancel, and the polls that write *)
(* under their token and version).                                         *)
THEOREM CancelHolds == AgentSpec => CancelTakesHold
<1>1. AgentInv => OverIsOver
  BY DEF AgentInv, AgentSound, OverIsQuiet, ToldOnce, OverIsOver
<1>2. AgentInv /\ [AgentNext]_agentVars =>
        [agent.cancel /\ ~agent'.cancel => agent'.status = "over"]_agentVars
  BY CancelStepKept
<1>3. AgentSpec => []OverIsOver
  BY <1>1, AgentInvariant, PTL
<1>4. AgentSpec => [][agent.cancel /\ ~agent'.cancel => agent'.status = "over"]_agentVars
  BY <1>2, AgentInvariant, PTL DEF AgentSpec
<1> QED BY <1>3, <1>4 DEF CancelTakesHold, CancelIsKept
-----------------------------------------------------------------------------
(* The feed: the inductive invariant *)

Seqs == Nat \cup {NONE}
FeedTyped ==
  /\ feed \in Feeds
  /\ thread \in [next : Nat, events : SUBSET Nat, messages : SUBSET Nat, clears : SUBSET Nat]
  /\ writer \in [Writers -> [pc : {"idle", "open", "notify"}, seq : Seqs, clears : BOOLEAN]]
  /\ stream \in [pc : {"out", "query", "yield", "wait"}, got : SUBSET Nat, full : BOOLEAN,
                 changed : BOOLEAN]
  /\ sub \in [pc : {"load", "head", "run"}, cursor : Seqs, ready : BOOLEAN, pending : SUBSET Nat]
  /\ view \in [have : BOOLEAN, cursor : Seqs, messages : SUBSET Nat]
  /\ req \in [pc : {"none", "lock", "messages", "cursor", "back"},
              by : {"load", "client", "stream", "retry"}, messages : SUBSET Nat, cursor : Seqs,
              stale : BOOLEAN]

(* A seq from before whatever a transaction may still commit. *)
Past(s) == s < thread.next /\ \A w \in Writers : writer[w].pc = "open" => s < writer[w].seq
(* One that is not after the thread's last event. *)
Reached(s) == s = NONE \/ \E e \in thread.events : s <= e
(* One of an event there is, or was before a clear. *)
Known(e) ==
  e \in thread.messages \cup thread.clears \/ \E c \in thread.clears : c > e

(* The table: the last clear and the messages since. *)
TableOfClear ==
  /\ thread.messages \cap thread.clears = {} /\ thread.messages \subseteq thread.events
  /\ thread.events \subseteq thread.messages \cup thread.clears
  /\ \A c \in thread.clears : \A e \in thread.events : c <= e
  /\ \A c \in thread.clears : \E d \in thread.clears \cap thread.events : c <= d
TableHasLast ==
  thread.events # {} => \E e \in thread.events : \A d \in thread.events : d <= e
TableIsPast == \A s \in thread.events \cup thread.clears : Past(s)
OneWrites ==
  \A w \in Writers : writer[w].pc = "open" =>
    /\ thread.next = writer[w].seq + 1 /\ writer[w].seq \in Nat
    /\ \A v \in Writers : writer[v].pc = "open" => v = w
Table == TableOfClear /\ TableHasLast /\ TableIsPast /\ OneWrites

(* Messages that are what ViewIsWhole asks of a client that has come to k. *)
Whole(ms, k) ==
  /\ \A m \in thread.messages : m <= k => m \in ms
  /\ \A m \in ms \ thread.messages : \E c \in thread.clears : c > m /\ c > k
  /\ \A m \in ms : Past(m)

(* What lies between a snapshot and the subscription is kept as pending. *)
Bridged(q) ==
  /\ \A e \in thread.events : q < e /\ e <= sub.cursor => e \in sub.pending
  /\ q < sub.cursor => sub.cursor \in sub.pending

(* The batch of the stream: the events after the cursor, and none between. *)
BatchFollows ==
  /\ stream.pc = "out" => stream.got = {}
  /\ \A e \in stream.got :
       /\ sub.cursor < e /\ Known(e) /\ Reached(e) /\ Past(e)
       /\ \A d \in thread.events : sub.cursor < d /\ d < e => d \in stream.got
PendingLed ==
  /\ Reached(sub.cursor) /\ Past(sub.cursor)
  /\ \A e \in sub.pending : e <= sub.cursor /\ Known(e)
  /\ sub.pending \cap thread.clears # {} =>
       \E e \in sub.pending \cap thread.clears : \A d \in sub.pending \cap thread.clears : d <= e
  /\ sub.ready => sub.pending = {}

(* Before the subscription runs there is no snapshot. *)
LoadFirst ==
  /\ sub.pc # "run" => ~view.have /\ ~sub.ready /\ sub.pending = {} /\ stream.pc = "out"
  /\ sub.pc = "head" => req.pc = "none"
  /\ req.pc # "none" => (req.by = "load" <=> sub.pc = "load")
(* A snapshot that is read is one state of the thread. *)
SnapshotExact ==
  /\ req.pc \in {"messages", "cursor"} => ~Opened
  /\ req.pc = "cursor" => req.messages = thread.messages
  /\ req.pc = "back" =>
       /\ Whole(req.messages, req.cursor) /\ Reached(req.cursor) /\ Past(req.cursor)
       /\ ~sub.ready => Bridged(req.cursor)
ViewSound ==
  /\ sub.ready => view.have /\ sub.cursor <= view.cursor /\ Whole(view.messages, sub.cursor)
  /\ view.have /\ ~sub.ready => Whole(view.messages, view.cursor) /\ Past(view.cursor) /\ Bridged(view.cursor)

FeedInv ==
  FeedTyped /\ Table /\ BatchFollows /\ PendingLed /\ LoadFirst /\ SnapshotExact /\ ViewSound

-----------------------------------------------------------------------------
(* Least and greatest seqs *)

LEMMA MinOfSeqs ==
  ASSUME NEW S \in SUBSET Nat, S # {}
  PROVE  Min(S) \in S /\ \A s \in S : Min(S) <= s
<1>1. \E x \in S : \A y \in S : ~(<<y, x>> \in OpToRel(<, Nat))
  BY NatLessThanWellFounded, WFMin
<1>2. \A x, y \in Nat : x < y => <<x, y>> \in OpToRel(<, Nat)
  BY DEF OpToRel
<1>3. \E x \in S : \A y \in S : x <= y
  <2>1. PICK x \in S : \A y \in S : ~(<<y, x>> \in OpToRel(<, Nat))
    BY <1>1
  <2>2. \A y \in S : ~(y < x)
    BY <1>2, <2>1
  <2> QED
    BY <2>2
<1> QED
  BY <1>3 DEF Min

LEMMA MaxOfSeqs ==
  ASSUME NEW S \in SUBSET Int, NEW x \in S, \A s \in S : s <= x
  PROVE  Max(S) = x
<1>1. \E y \in S : \A s \in S : y >= s
  OBVIOUS
<1>2. Max(S) \in S /\ \A s \in S : Max(S) >= s
  BY <1>1, Zenon DEF Max
<1>3. Max(S) \in Int /\ x \in Int /\ Max(S) >= x /\ Max(S) <= x
  BY <1>2, Zenon
<1> QED
  BY <1>3

LEMMA LastOfSeqs ==
  ASSUME NEW S \in SUBSET Nat
  PROVE  /\ S = {} => LastOf(S) = NONE
         /\ \A x \in S : (\A s \in S : s <= x) => LastOf(S) = x
<1>1. ASSUME S = {} PROVE LastOf(S) = NONE
  <2>1. S \cup {NONE} = {NONE} /\ NONE \in Int
    BY <1>1 DEF NONE
  <2> QED
    BY <2>1, MaxOfSeqs DEF LastOf
<1>2. ASSUME NEW x \in S, \A s \in S : s <= x PROVE LastOf(S) = x
  <2>1. S \cup {NONE} \in SUBSET Int /\ \A s \in S \cup {NONE} : s <= x
    BY <1>2 DEF NONE
  <2> QED
    BY <2>1, MaxOfSeqs DEF LastOf
<1> QED
  BY <1>1, <1>2

-----------------------------------------------------------------------------
(* Writers *)

(* What is new comes after all that anyone has come to, and what is taken  *)
(* away by a clear is made up for by its event.                            *)
Grows ==
  /\ \A s \in Seqs : Past(s) => Past(s)'
  /\ \A x \in Nat : \/ x \in thread'.events /\ x \notin thread.events
                    \/ x \in thread'.messages /\ x \notin thread.messages
                    \/ x \in thread'.clears /\ x \notin thread.clears
                    => \A s \in Seqs : Past(s) => s < x
  /\ thread.clears \subseteq thread'.clears
  /\ thread.messages \subseteq thread'.messages \/ \E c \in thread'.clears : c \notin thread.clears
  /\ thread.events \subseteq thread'.events \/ \E e \in thread'.events : e \notin thread.events

(* A transaction begins, is rolled back, or announces what it has done.    *)
LEMMA WriterKeepsTable ==
  ASSUME FeedTyped, Table, NEW w \in Writers,
         (\E clears \in BOOLEAN : open(w, clears)) \/ rollback(w) \/ notifyRealtime(w)
  PROVE  /\ Table' /\ Grows
         /\ thread' \in [next : Nat, events : SUBSET Nat, messages : SUBSET Nat,
                         clears : SUBSET Nat]
         /\ writer' \in [Writers -> [pc : {"idle", "open", "notify"}, seq : Seqs,
                                     clears : BOOLEAN]]
         /\ thread'.messages = thread.messages
<1>1. /\ thread \in [next : Nat, events : SUBSET Nat, messages : SUBSET Nat, clears : SUBSET Nat]
      /\ writer \in [Writers -> [pc : {"idle", "open", "notify"}, seq : Seqs, clears : BOOLEAN]]
      /\ Resting \in [pc : {"idle", "open", "notify"}, seq : Seqs, clears : BOOLEAN]
      /\ Resting.pc = "idle"
  BY DEF FeedTyped, Resting, Seqs
<1>2. ASSUME thread'.events = thread.events, thread'.messages = thread.messages,
             thread'.clears = thread.clears, thread' \in [next : Nat, events : SUBSET Nat,
               messages : SUBSET Nat, clears : SUBSET Nat],
             \A s \in Seqs : Past(s) => Past(s)', OneWrites'
      PROVE  Table' /\ Grows
  <2>1. TableIsPast'
    BY <1>1, <1>2 DEF Table, TableIsPast, Seqs
  <2>2. TableOfClear' /\ TableHasLast'
    BY <1>2 DEF Table, TableOfClear, TableHasLast
  <2> QED
    BY <1>2, <2>1, <2>2 DEF Table, Grows
<1>3. ASSUME NEW clears \in BOOLEAN, open(w, clears)
      PROVE  /\ Table' /\ Grows
             /\ thread' \in [next : Nat, events : SUBSET Nat, messages : SUBSET Nat,
                             clears : SUBSET Nat]
             /\ writer' \in [Writers -> [pc : {"idle", "open", "notify"}, seq : Seqs,
                                         clears : BOOLEAN]]
             /\ thread'.messages = thread.messages
  <2>1. /\ thread' = [thread EXCEPT !.next = @ + 1]
        /\ writer' = [writer EXCEPT ![w] = [pc |-> "open", seq |-> thread.next, clears |-> clears]]
        /\ \A v \in Writers : writer[v].pc # "open"
    BY <1>3 DEF open, Opened
  <2>2. /\ thread'.next = thread.next + 1 /\ thread.next \in Nat
        /\ thread'.events = thread.events /\ thread'.messages = thread.messages
        /\ thread'.clears = thread.clears
        /\ thread' \in [next : Nat, events : SUBSET Nat, messages : SUBSET Nat,
                        clears : SUBSET Nat]
    BY <1>1, <2>1
  <2>3. /\ writer' \in [Writers -> [pc : {"idle", "open", "notify"}, seq : Seqs,
                                    clears : BOOLEAN]]
        /\ writer'[w].seq = thread.next /\ \A v \in Writers \ {w} : writer'[v] = writer[v]
    BY <1>1, <2>1 DEF Seqs
  <2>4. \A s \in Seqs : Past(s) => Past(s)'
    BY <2>1, <2>2, <2>3 DEF Past, Seqs, NONE
  <2>5. OneWrites'
    BY <2>1, <2>2, <2>3 DEF OneWrites
  <2> QED
    BY <1>2, <2>2, <2>3, <2>4, <2>5
<1>4. CASE rollback(w)
  <2>1. /\ thread' = [thread EXCEPT !.next = writer[w].seq]
        /\ writer' = [writer EXCEPT ![w] = Resting] /\ writer[w].pc = "open"
    BY <1>4 DEF rollback
  <2>2. writer[w].seq \in Nat /\ \A v \in Writers : writer[v].pc = "open" => v = w
    BY <2>1 DEF Table, OneWrites
  <2>3. /\ thread'.next = writer[w].seq
        /\ thread'.events = thread.events /\ thread'.messages = thread.messages
        /\ thread'.clears = thread.clears
        /\ thread' \in [next : Nat, events : SUBSET Nat, messages : SUBSET Nat,
                        clears : SUBSET Nat]
    BY <1>1, <2>1, <2>2
  <2>4. /\ writer' \in [Writers -> [pc : {"idle", "open", "notify"}, seq : Seqs,
                                    clears : BOOLEAN]]
        /\ \A v \in Writers : writer'[v].pc # "open"
    BY <1>1, <2>1, <2>2
  <2>5. (\A s \in Seqs : Past(s) => Past(s)') /\ OneWrites'
    BY <2>1, <2>3, <2>4 DEF Past, OneWrites
  <2> QED
    BY <1>2, <2>3, <2>4, <2>5
<1>5. CASE notifyRealtime(w)
  <2>1. thread' = thread /\ writer' = [writer EXCEPT ![w] = Resting]
    BY <1>5 DEF notifyRealtime
  <2>2. /\ writer' \in [Writers -> [pc : {"idle", "open", "notify"}, seq : Seqs,
                                    clears : BOOLEAN]]
        /\ \A v \in Writers : writer'[v].pc = "open" => writer'[v] = writer[v]
    BY <1>1, <2>1
  <2>3. (\A s \in Seqs : Past(s) => Past(s)') /\ OneWrites'
    BY <2>1, <2>2 DEF Past, Table, OneWrites
  <2> QED
    BY <1>1, <1>2, <2>1, <2>2, <2>3
<1> QED
  BY <1>3, <1>4, <1>5

(* A transaction commits: its event is the last one.                       *)
LEMMA CommitKeepsTable ==
  ASSUME FeedTyped, Table, NEW w \in Writers, commit(w)
  PROVE  /\ Table' /\ Grows
         /\ thread' \in [next : Nat, events : SUBSET Nat, messages : SUBSET Nat,
                         clears : SUBSET Nat]
         /\ writer' \in [Writers -> [pc : {"idle", "open", "notify"}, seq : Seqs,
                                     clears : BOOLEAN]]
<1> DEFINE e == writer[w].seq
<1>1. /\ thread \in [next : Nat, events : SUBSET Nat, messages : SUBSET Nat, clears : SUBSET Nat]
      /\ writer \in [Writers -> [pc : {"idle", "open", "notify"}, seq : Seqs, clears : BOOLEAN]]
      /\ Resting \in [pc : {"idle", "open", "notify"}, seq : Seqs, clears : BOOLEAN]
      /\ Resting.pc = "idle"
  BY DEF FeedTyped, Resting, Seqs
<1>2. /\ writer[w].pc = "open" /\ e \in Nat /\ thread.next = e + 1
      /\ \A v \in Writers : writer[v].pc = "open" => v = w
  BY DEF commit, Table, OneWrites
<1>3. \A s \in Seqs : Past(s) => s < e
  BY <1>2 DEF Past
<1>4. /\ writer' \in [Writers -> [pc : {"idle", "open", "notify"}, seq : Seqs, clears : BOOLEAN]]
      /\ \A v \in Writers : writer'[v].pc # "open"
  <2>1. [writer[w] EXCEPT !.pc = "notify"] \in
          [pc : {"idle", "open", "notify"}, seq : Seqs, clears : BOOLEAN]
    BY <1>1
  <2>2. \/ writer' = [writer EXCEPT ![w] = [writer[w] EXCEPT !.pc = "notify"]]
        \/ writer' = [writer EXCEPT ![w] = Resting]
    BY DEF commit
  <2> QED
    BY <1>1, <1>2, <2>1, <2>2
<1>5. /\ thread'.next = thread.next
      /\ thread' \in [next : Nat, events : SUBSET Nat, messages : SUBSET Nat, clears : SUBSET Nat]
      /\ \/ /\ thread'.events = {e} /\ thread'.messages = {}
            /\ thread'.clears = thread.clears \cup {e}
         \/ /\ thread'.events = thread.events \cup {e}
            /\ thread'.messages = thread.messages \cup {e}
            /\ thread'.clears = thread.clears
  BY <1>1, <1>2 DEF commit
<1>6. \A s \in thread.events \cup thread.clears : s \in Nat /\ Past(s) /\ s < e
  BY <1>1, <1>3 DEF Table, TableIsPast, Seqs
<1>7. \A s \in Seqs : (Past(s) => Past(s)') /\ (s = e => Past(s)')
  BY <1>2, <1>4, <1>5 DEF Past
<1>8. Grows
  BY <1>3, <1>5, <1>6, <1>7 DEF Grows
<1>9. TableIsPast' /\ OneWrites'
  BY <1>2, <1>4, <1>5, <1>6, <1>7 DEF TableIsPast, OneWrites, Seqs
<1>10. TableOfClear' /\ TableHasLast'
  BY <1>1, <1>2, <1>5, <1>6 DEF Table, TableOfClear, TableHasLast
<1> QED
  BY <1>4, <1>5, <1>8, <1>9, <1>10 DEF Table

(* Whole, of the next state's thread.                                      *)
WholeThen(ms, k) ==
  /\ \A m \in thread'.messages : m <= k => m \in ms
  /\ \A m \in ms \ thread'.messages : \E c \in thread'.clears : c > m /\ c > k
  /\ \A m \in ms : Past(m)'
LEMMA WholeNext ==
  ASSUME NEW ms, NEW k, WholeThen(ms, k)
  PROVE  /\ req'.messages = ms /\ req'.cursor = k => Whole(req.messages, req.cursor)'
         /\ view'.messages = ms /\ view'.cursor = k => Whole(view.messages, view.cursor)'
         /\ view'.messages = ms /\ sub'.cursor = k => Whole(view.messages, sub.cursor)'
BY DEF Whole, WholeThen

(* Whoever has come somewhere is there still.                              *)
LEMMA WritersKeep ==
  ASSUME FeedInv, Grows, Table', UNCHANGED <<stream, sub, view, req>>,
         thread' \in [next : Nat, events : SUBSET Nat, messages : SUBSET Nat,
                      clears : SUBSET Nat],
         req.pc \in {"messages", "cursor"} => ~Opened' /\ thread'.messages = thread.messages
  PROVE  BatchFollows' /\ PendingLed' /\ LoadFirst' /\ SnapshotExact' /\ ViewSound'
<1>0. /\ FeedTyped /\ Table /\ BatchFollows /\ PendingLed /\ LoadFirst /\ SnapshotExact /\ ViewSound
      /\ thread \in [next : Nat, events : SUBSET Nat, messages : SUBSET Nat, clears : SUBSET Nat]
      /\ stream.got \in SUBSET Nat /\ sub.pending \in SUBSET Nat /\ sub.cursor \in Seqs
      /\ view.messages \in SUBSET Nat /\ view.cursor \in Seqs
      /\ req.messages \in SUBSET Nat /\ req.cursor \in Seqs
  BY DEF FeedInv, FeedTyped
<1>1. \A s \in Seqs : Past(s) => Past(s)'
  BY DEF Grows
<1>2. \A s \in Seqs : Past(s) /\ Reached(s) => Reached(s)'
  <2>1. ASSUME NEW s \in Seqs, Past(s), NEW x \in thread.events, s <= x
        PROVE  \E y \in thread'.events : s <= y
    <3>1. CASE x \in thread'.events
      BY <2>1, <3>1
    <3>2. ASSUME NEW y \in thread'.events, y \notin thread.events PROVE s <= y
      BY <2>1, <3>2 DEF Grows, Seqs, NONE
    <3> QED
      BY <2>1, <3>1, <3>2 DEF Grows
  <2> QED
    BY <2>1 DEF Reached
<1>3. \A s \in Nat : Past(s) /\ Known(s) => Known(s)'
  <2>1. ASSUME NEW s \in Nat, Past(s), Known(s) PROVE Known(s)'
    <3>1. ASSUME NEW c \in thread'.clears, c \notin thread.clears PROVE c > s
      BY <2>1, <3>1 DEF Grows, Seqs
    <3> QED
      BY <2>1, <3>1 DEF Known, Grows
  <2> QED
    BY <2>1
<1>4. ASSUME NEW ms \in SUBSET Nat, NEW k \in Seqs, Past(k), Whole(ms, k)
      PROVE  WholeThen(ms, k)
  <2>1. ASSUME NEW m \in thread'.messages, m <= k PROVE m \in ms
    BY <1>4, <2>1 DEF Whole, Grows, Seqs, NONE
  <2>2. ASSUME NEW m \in ms \ thread'.messages PROVE \E c \in thread'.clears : c > m /\ c > k
    <3>1. ASSUME NEW c \in thread'.clears, c \notin thread.clears PROVE c > m /\ c > k
      BY <1>4, <3>1 DEF Whole, Grows, Seqs, NONE
    <3> QED
      BY <1>4, <2>2, <3>1 DEF Whole, Grows
  <2> QED
    BY <1>1, <1>4, <2>1, <2>2 DEF Whole, WholeThen, Seqs
<1>5. Past(sub.cursor) /\ \A x \in thread'.events : x <= sub.cursor => x \in thread.events
  BY <1>0 DEF PendingLed, Grows, Seqs, NONE
<1>6. BatchFollows'
  <2>1. ASSUME NEW e \in stream.got, NEW d \in thread'.events, sub.cursor < d, d < e
        PROVE  d \in stream.got
    BY <1>0, <2>1 DEF BatchFollows, Grows, Seqs, NONE
  <2> QED
    BY <1>0, <1>1, <1>2, <1>3, <2>1 DEF BatchFollows, Seqs
<1>7. \A e \in sub.pending : Past(e)
  <2>1. \A e \in sub.pending : e \in Nat /\ e <= sub.cursor
    BY <1>0 DEF PendingLed
  <2>2. \A w \in Writers : writer[w].pc = "open" => writer[w].seq \in Nat
    BY <1>0 DEF Table, OneWrites
  <2> QED
    BY <1>0, <1>5, <2>1, <2>2 DEF Past, Seqs, NONE
<1>8. PendingLed'
  <2>1. sub.pending \cap thread'.clears = sub.pending \cap thread.clears
    BY <1>0, <1>7 DEF Grows, Seqs
  <2> QED
    BY <1>0, <1>1, <1>2, <1>3, <1>7, <2>1 DEF PendingLed
<1>9. LoadFirst'
  BY <1>0 DEF LoadFirst
<1>10. \A q \in Seqs : Bridged(q) => /\ \A x \in thread'.events : q < x /\ x <= sub.cursor =>
                                           x \in sub.pending
                                     /\ q < sub.cursor => sub.cursor \in sub.pending
  BY <1>5 DEF Bridged
<1>11. SnapshotExact'
  <2>1. ASSUME req.pc = "back"
        PROVE  /\ Whole(req.messages, req.cursor)' /\ Reached(req.cursor)' /\ Past(req.cursor)'
               /\ ~sub.ready => Bridged(req.cursor)'
    <3>1. /\ Whole(req.messages, req.cursor) /\ Reached(req.cursor) /\ Past(req.cursor)
          /\ ~sub.ready => Bridged(req.cursor)
      BY <1>0, <2>1 DEF SnapshotExact
    <3>2. Whole(req.messages, req.cursor)'
      BY <1>0, <1>4, <3>1, WholeNext
    <3>3. ~sub.ready => Bridged(req.cursor)'
      BY <1>0, <1>10, <3>1 DEF Bridged
    <3> QED
      BY <1>0, <1>1, <1>2, <3>1, <3>2, <3>3
  <2> QED
    BY <1>0, <2>1 DEF SnapshotExact
<1>12. ViewSound'
  <2>1. ASSUME sub.ready PROVE Whole(view.messages, sub.cursor)'
    <3>1. Whole(view.messages, sub.cursor)
      BY <1>0, <2>1 DEF ViewSound
    <3> QED
      BY <1>0, <1>4, <1>5, <3>1, WholeNext
  <2>2. ASSUME view.have, ~sub.ready
        PROVE  Whole(view.messages, view.cursor)' /\ Past(view.cursor)' /\ Bridged(view.cursor)'
    <3>1. Whole(view.messages, view.cursor) /\ Past(view.cursor) /\ Bridged(view.cursor)
      BY <1>0, <2>2 DEF ViewSound
    <3>2. Whole(view.messages, view.cursor)'
      BY <1>0, <1>4, <3>1, WholeNext
    <3>3. Bridged(view.cursor)'
      BY <1>0, <1>10, <3>1 DEF Bridged
    <3> QED
      BY <1>0, <1>1, <3>1, <3>2, <3>3
  <2> QED
    BY <1>0, <2>1, <2>2 DEF ViewSound
<1> QED
  BY <1>6, <1>8, <1>9, <1>11, <1>12

-----------------------------------------------------------------------------
(* Steps that leave the thread alone *)

LEMMA Unmoved ==
  ASSUME UNCHANGED <<thread, writer>>, Table
  PROVE  /\ Table' /\ (Opened' <=> Opened)
         /\ \A s : (Past(s)' <=> Past(s)) /\ (Known(s)' <=> Known(s)) /\ (Reached(s)' <=> Reached(s))
         /\ \A ms, k : Whole(ms, k) => WholeThen(ms, k)
<1>1. /\ (Opened' <=> Opened)
      /\ \A s : (Past(s)' <=> Past(s)) /\ (Known(s)' <=> Known(s)) /\ (Reached(s)' <=> Reached(s))
  BY DEF Opened, Past, Known, Reached
<1>2. \A ms, k : Whole(ms, k) => WholeThen(ms, k)
  BY <1>1 DEF Whole, WholeThen
<1>3. Table'
  <2>1. TableIsPast' /\ OneWrites'
    BY <1>1 DEF Table, TableIsPast, OneWrites
  <2> QED
    BY <2>1 DEF Table, TableOfClear, TableHasLast
<1> QED
  BY <1>1, <1>2, <1>3

(* What the client has, where it stays as it is.                           *)
LEMMA ClientStays ==
  ASSUME FeedInv, UNCHANGED <<thread, writer, sub, view>>
  PROVE  PendingLed' /\ ViewSound' /\ (\A q : Bridged(q)' <=> Bridged(q))
<1>1. \A q : Bridged(q)' <=> Bridged(q)
  BY DEF Bridged
<1>2. PendingLed'
  BY Unmoved DEF FeedInv, PendingLed
<1>3. ViewSound'
  <2>1. ASSUME sub.ready PROVE Whole(view.messages, sub.cursor)'
    BY <2>1, Unmoved, WholeNext DEF FeedInv, ViewSound
  <2>2. ASSUME view.have, ~sub.ready
        PROVE  Whole(view.messages, view.cursor)' /\ Past(view.cursor)' /\ Bridged(view.cursor)'
    <3>1. Whole(view.messages, view.cursor) /\ Past(view.cursor) /\ Bridged(view.cursor)
      BY <2>2 DEF FeedInv, ViewSound
    <3> QED
      BY <3>1, Unmoved, WholeNext DEF FeedInv, Bridged
  <2> QED
    BY <2>1, <2>2 DEF FeedInv, ViewSound
<1> QED
  BY <1>1, <1>2, <1>3

LEMMA SnapshotStays ==
  ASSUME FeedInv, UNCHANGED <<thread, writer, sub, view, req>>
  PROVE  SnapshotExact'
<1>1. ASSUME req.pc = "back"
      PROVE  /\ Whole(req.messages, req.cursor)' /\ Reached(req.cursor)' /\ Past(req.cursor)'
             /\ ~sub.ready => Bridged(req.cursor)'
  <2>1. /\ Whole(req.messages, req.cursor) /\ Reached(req.cursor) /\ Past(req.cursor)
        /\ ~sub.ready => Bridged(req.cursor)
    BY <1>1 DEF FeedInv, SnapshotExact
  <2> QED
    BY <2>1, Unmoved, WholeNext DEF FeedInv, Bridged
<1> QED
  BY <1>1, Unmoved DEF FeedInv, SnapshotExact

(* The fanout, and the stream while it has no events to add.               *)
LEMMA StreamStep ==
  ASSUME FeedInv, UNCHANGED <<feed, thread, writer, sub, view, req>>,
         stream' \in [pc : {"out", "query", "yield", "wait"}, got : SUBSET Nat, full : BOOLEAN,
                      changed : BOOLEAN],
         stream'.got = stream.got, stream'.pc = "out" => stream.pc = "out",
         stream.pc = "out" => sub.pc = "run" \/ stream'.pc = "out"
  PROVE  FeedInv'
<1>1. BatchFollows'
  BY Unmoved DEF FeedInv, BatchFollows
<1>2. LoadFirst'
  BY DEF FeedInv, LoadFirst
<1>3. FeedTyped'
  BY DEF FeedInv, FeedTyped
<1> QED
  BY <1>1, <1>2, <1>3, Unmoved, ClientStays, SnapshotStays DEF FeedInv

LEMMA FanoutInv ==
  ASSUME FeedInv,
         \/ connects \/ connected \/ disposed \/ reconnects \/ handleNotification
         \/ handleDisconnect \/ subscribe \/ waitForChange \/ catchUp
  PROVE  FeedInv'
<1>1. stream \in [pc : {"out", "query", "yield", "wait"}, got : SUBSET Nat, full : BOOLEAN,
                  changed : BOOLEAN]
  BY DEF FeedInv, FeedTyped
<1>2. UNCHANGED <<feed, thread, writer, sub, view, req>>
  BY DEF connects, connected, disposed, reconnects, handleNotification, handleDisconnect,
         subscribe, waitForChange, catchUp, notThread, notClient
<1>3. /\ stream' \in [pc : {"out", "query", "yield", "wait"}, got : SUBSET Nat, full : BOOLEAN,
                      changed : BOOLEAN]
      /\ stream'.got = stream.got /\ (stream'.pc = "out" => stream.pc = "out")
      /\ stream.pc = "out" => sub.pc = "run" \/ stream'.pc = "out"
  <2>1. CASE stream' = stream
    BY <1>1, <2>1
  <2>2. CASE stream' = Notified(stream)
    BY <1>1, <2>2 DEF Notified
  <2>3. CASE subscribe
    BY <1>1, <2>3 DEF subscribe
  <2>4. CASE waitForChange \/ catchUp
    BY <1>1, <2>4 DEF waitForChange, catchUp
  <2> QED
    BY <2>1, <2>2, <2>3, <2>4 DEF connects, connected, disposed, reconnects, handleNotification,
                                  handleDisconnect
<1> QED
  BY <1>2, <1>3, StreamStep

(* A batch is a beginning of what comes after the cursor.                  *)
LEMMA BatchInv ==
  ASSUME FeedInv, eventsAfter
  PROVE  FeedInv'
<1> DEFINE after == {e \in thread.events : e > sub.cursor}
           got == {e \in after : Cardinality({d \in after : d < e}) < EVENT_BATCH_SIZE}
<1>1. /\ stream \in [pc : {"out", "query", "yield", "wait"}, got : SUBSET Nat, full : BOOLEAN,
                     changed : BOOLEAN]
      /\ thread.events \in SUBSET Nat /\ thread.next \in Nat /\ sub.cursor \in Seqs
      /\ EVENT_BATCH_SIZE \in Nat
  BY FeedAssumption DEF FeedInv, FeedTyped
<1>2. /\ stream.pc = "query" /\ stream'.pc = "yield" /\ stream'.got = got
      /\ stream' \in [pc : {"out", "query", "yield", "wait"}, got : SUBSET Nat, full : BOOLEAN,
                      changed : BOOLEAN]
  <2>1. got \in SUBSET Nat
    BY <1>1
  <2> HIDE DEF got
  <2> QED
    BY <1>1, <2>1 DEF eventsAfter, got
<1>3. UNCHANGED <<feed, thread, writer, sub, view, req>>
  BY DEF eventsAfter, notThread, notClient
<1>4. ASSUME NEW e \in got, NEW d \in after, d < e PROVE d \in got
  <2> DEFINE before(x) == {c \in after : c < x}
  <2>1. IsFiniteSet(before(e))
    <3>1. before(e) \subseteq 0..thread.next
      BY <1>1 DEF FeedInv, Table, TableIsPast, Past
    <3>2. IsFiniteSet(0..thread.next)
      BY <1>1, FS_Interval
    <3> HIDE DEF before
    <3> QED
      BY <3>1, <3>2, FS_Subset
  <2>2. before(d) \subseteq before(e)
    BY <1>1, <1>4
  <2>3. Cardinality(before(d)) <= Cardinality(before(e)) /\ IsFiniteSet(before(d))
    BY <2>1, <2>2, FS_Subset
  <2>4. Cardinality(before(d)) \in Nat /\ Cardinality(before(e)) \in Nat
    BY <2>1, <2>3, FS_CardinalityType
  <2>5. Cardinality(before(e)) < EVENT_BATCH_SIZE
    BY <1>4
  <2> HIDE DEF before
  <2>6. Cardinality(before(d)) < EVENT_BATCH_SIZE
    BY <1>1, <2>3, <2>4, <2>5
  <2> QED
    BY <1>4, <2>6 DEF before
<1>5. ASSUME NEW e \in got
      PROVE  /\ e \in thread.events /\ sub.cursor < e /\ Known(e) /\ Reached(e) /\ Past(e)
             /\ \A d \in thread.events : sub.cursor < d /\ d < e => d \in got
  <2>1. e \in thread.events /\ e \in Nat /\ sub.cursor < e
    BY <1>1 DEF Seqs, NONE
  <2>2. Known(e) /\ Reached(e) /\ Past(e)
    BY <2>1 DEF FeedInv, Table, TableOfClear, TableIsPast, Known, Reached
  <2>3. \A d \in thread.events : sub.cursor < d /\ d < e => d \in after
    BY <1>1 DEF Seqs, NONE
  <2> HIDE DEF got, after
  <2> QED
    BY <1>4, <2>1, <2>2, <2>3
<1>6. BatchFollows'
  BY <1>2, <1>3, <1>5, Unmoved DEF FeedInv, BatchFollows
<1>7. LoadFirst'
  BY <1>2, <1>3 DEF FeedInv, LoadFirst
<1>8. FeedTyped'
  BY <1>2, <1>3 DEF FeedInv, FeedTyped
<1> QED
  BY <1>3, <1>6, <1>7, <1>8, Unmoved, ClientStays, SnapshotStays DEF FeedInv

(* The client asks for a snapshot.                                         *)
LEMMA FetchInv ==
  ASSUME FeedInv, streamEnds \/ refresh \/ retrySnapshot
  PROVE  FeedInv'
<1>1. /\ stream \in [pc : {"out", "query", "yield", "wait"}, got : SUBSET Nat, full : BOOLEAN,
                     changed : BOOLEAN]
      /\ LoadFirst /\ BatchFollows
  BY DEF FeedInv, FeedTyped
<1>2. UNCHANGED <<feed, thread, writer, sub, view>> /\ sub.pc = "run"
  BY <1>1 DEF streamEnds, refresh, retrySnapshot, notThread, LoadFirst
<1>3. /\ req' \in [pc : {"none", "lock", "messages", "cursor", "back"},
                   by : {"load", "client", "stream", "retry"}, messages : SUBSET Nat,
                   cursor : Seqs, stale : BOOLEAN]
      /\ req'.pc = "lock" /\ req'.by # "load"
  <2>1. \A by \in {"load", "client", "stream", "retry"} :
          /\ Fetch(by) \in [pc : {"none", "lock", "messages", "cursor", "back"},
                            by : {"load", "client", "stream", "retry"}, messages : SUBSET Nat,
                            cursor : Seqs, stale : BOOLEAN]
          /\ Fetch(by).pc = "lock" /\ Fetch(by).by = by
    BY DEF Fetch, Seqs
  <2>2. req' \in {Fetch("stream"), Fetch("client"), Fetch("retry")}
    BY DEF streamEnds, refresh, retrySnapshot
  <2> QED
    BY <2>1, <2>2
<1>4. /\ stream' \in [pc : {"out", "query", "yield", "wait"}, got : SUBSET Nat, full : BOOLEAN,
                      changed : BOOLEAN]
      /\ stream' = stream \/ stream'.got = {}
  BY <1>1 DEF streamEnds, refresh, retrySnapshot
<1>5. BatchFollows'
  <2>1. CASE stream' = stream
    BY <1>1, <1>2, <2>1, Unmoved DEF FeedInv, BatchFollows
  <2>2. CASE stream'.got = {}
    BY <2>2 DEF BatchFollows
  <2> QED
    BY <1>4, <2>1, <2>2
<1>6. LoadFirst' /\ SnapshotExact'
  BY <1>2, <1>3 DEF LoadFirst, SnapshotExact
<1>7. FeedTyped'
  BY <1>2, <1>3, <1>4 DEF FeedInv, FeedTyped
<1> QED
  BY <1>2, <1>5, <1>6, <1>7, Unmoved, ClientStays DEF FeedInv

(* What the table's last event says: the cursor of a snapshot.             *)
LEMMA LastEvent ==
  ASSUME FeedInv
  PROVE  LET q == LastOf(thread.events) IN
         /\ q \in Seqs /\ Reached(q) /\ Past(q)
         /\ \A e \in thread.events : e <= q
         /\ sub.cursor <= q
<1> DEFINE q == LastOf(thread.events)
<1>1. /\ thread.events \in SUBSET Nat /\ thread.next \in Nat /\ sub.cursor \in Seqs
      /\ Table /\ Reached(sub.cursor)
      /\ \A w \in Writers : writer[w].pc = "open" => writer[w].seq \in Nat
  BY DEF FeedInv, FeedTyped, PendingLed, Table, OneWrites
<1>2. CASE thread.events = {}
  <2>1. q = NONE /\ sub.cursor = NONE
    BY <1>1, <1>2, LastOfSeqs DEF Reached
  <2> HIDE DEF q
  <2> QED
    BY <1>1, <1>2, <2>1 DEF Seqs, NONE, Reached, Past, q
<1>3. CASE thread.events # {}
  <2>1. PICK x \in thread.events : \A d \in thread.events : d <= x
    BY <1>1, <1>3 DEF Table, TableHasLast
  <2>2. q = x
    BY <1>1, <2>1, LastOfSeqs
  <2> HIDE DEF q
  <2>3. q \in Nat /\ Past(q) /\ Reached(q)
    BY <1>1, <2>1, <2>2 DEF Table, TableIsPast, Reached
  <2>4. sub.cursor <= q
    BY <1>1, <2>1, <2>2, <2>3 DEF Reached, Seqs, NONE
  <2> QED
    BY <2>1, <2>2, <2>3, <2>4 DEF Seqs, q
<1> QED
  BY <1>2, <1>3

(* The transaction of a snapshot: what it reads is one state.              *)
LEMMA ReadInv ==
  ASSUME FeedInv, lockThread \/ loadMessagePage \/ findLast
  PROVE  FeedInv'
<1>1. /\ req \in [pc : {"none", "lock", "messages", "cursor", "back"},
                  by : {"load", "client", "stream", "retry"}, messages : SUBSET Nat,
                  cursor : Seqs, stale : BOOLEAN]
      /\ thread.messages \in SUBSET Nat /\ LoadFirst /\ SnapshotExact
  BY DEF FeedInv, FeedTyped
<1>2. UNCHANGED <<feed, thread, writer, stream, sub, view>>
  BY DEF lockThread, loadMessagePage, findLast, notThread
<1>3. LastOf(thread.events) \in Seqs
  BY LastEvent
<1>4. /\ req' \in [pc : {"none", "lock", "messages", "cursor", "back"},
                   by : {"load", "client", "stream", "retry"}, messages : SUBSET Nat,
                   cursor : Seqs, stale : BOOLEAN]
      /\ req'.by = req.by /\ req.pc # "none" /\ req'.pc # "none"
  BY <1>1, <1>3 DEF lockThread, loadMessagePage, findLast
<1>5. SnapshotExact'
  <2>1. CASE lockThread
    BY <1>1, <1>2, <2>1, Unmoved DEF lockThread, SnapshotExact, FeedInv
  <2>2. CASE loadMessagePage
    BY <1>1, <1>2, <2>2, Unmoved DEF loadMessagePage, SnapshotExact, FeedInv
  <2>3. CASE findLast
    <3> DEFINE q == LastOf(thread.events)
    <3>1. /\ req'.pc = "back" /\ req'.cursor = q /\ req'.messages = req.messages
          /\ req.messages = thread.messages
      BY <1>1, <2>3 DEF findLast, SnapshotExact
    <3>2. /\ q \in Seqs /\ Reached(q) /\ Past(q) /\ sub.cursor <= q /\ sub.cursor \in Seqs
          /\ \A e \in thread.events : e <= q /\ e \in Nat
      BY LastEvent DEF FeedInv, FeedTyped
    <3> HIDE DEF q
    <3>3. Whole(req.messages, q)
      BY <3>1 DEF Whole, FeedInv, Table, TableOfClear, TableIsPast
    <3>4. ~(q < sub.cursor) /\ \A e \in thread.events : ~(q < e)
      BY <3>2 DEF Seqs, NONE
    <3>5. Bridged(q)
      BY <3>4 DEF Bridged
    <3>6. Whole(req.messages, req.cursor)'
      BY <1>2, <3>1, <3>3, Unmoved, WholeNext DEF FeedInv
    <3>7. Bridged(req.cursor)'
      BY <1>2, <3>1, <3>5 DEF Bridged
    <3> QED
      BY <1>2, <3>1, <3>2, <3>6, <3>7, Unmoved DEF FeedInv, SnapshotExact
  <2> QED
    BY <2>1, <2>2, <2>3
<1>6. BatchFollows'
  BY <1>2, Unmoved DEF FeedInv, BatchFollows
<1>7. LoadFirst'
  BY <1>1, <1>2, <1>4 DEF LoadFirst
<1>8. FeedTyped'
  BY <1>2, <1>4 DEF FeedInv, FeedTyped
<1> QED
  BY <1>2, <1>5, <1>6, <1>7, <1>8, Unmoved, ClientStays DEF FeedInv

-----------------------------------------------------------------------------
(* Steps that change what the client has *)

ViewState == [have : BOOLEAN, cursor : Seqs, messages : SUBSET Nat]

LEMMA WholeBefore ==
  ASSUME NEW ms, NEW k \in Int, NEW j \in Int, j <= k, FeedTyped, Whole(ms, k)
  PROVE  Whole(ms, j)
<1>1. thread.messages \in SUBSET Nat /\ thread.clears \in SUBSET Nat
  BY DEF FeedTyped
<1>2. \A m \in thread.messages : m <= j => m <= k
  BY <1>1
<1>3. \A c \in thread.clears : c > k => c > j
  BY <1>1
<1> QED
  BY <1>2, <1>3 DEF Whole

(* Events applied to a snapshot, when none that follows it is left out.    *)
LEMMA AppliedWhole ==
  ASSUME FeedTyped, Table, NEW v \in ViewState, NEW q \in Seqs, Whole(v.messages, q),
         NEW es \in SUBSET Nat, NEW k \in es,
         \A e \in es : q < e /\ e <= k /\ Known(e) /\ Past(e),
         es \cap thread.clears # {} =>
           \E e \in es \cap thread.clears : \A d \in es \cap thread.clears : d <= e,
         \A e \in thread.events : q < e /\ e <= k => e \in es
  PROVE  /\ Applied(v, es) \in ViewState
         /\ Applied(v, es).have = v.have /\ Applied(v, es).cursor = k
         /\ Whole(Applied(v, es).messages, k)
<1> DEFINE C == es \cap thread.clears
           last == LastOf(C)
           ms == (IF last = NONE THEN v.messages ELSE {}) \cup {e \in es : e > last}
<1>1. /\ thread.messages \in SUBSET Nat /\ thread.clears \in SUBSET Nat
      /\ thread.events \in SUBSET Nat /\ v.messages \in SUBSET Nat /\ q \in Int /\ k \in Nat
  BY DEF FeedTyped, ViewState, Seqs, NONE
<1>2. Max(es) = k
  BY <1>1, MaxOfSeqs
<1>3. Applied(v, es) = [v EXCEPT !.cursor = k, !.messages = ms]
  BY <1>2 DEF Applied, ViewState
<1>4. ms \in SUBSET Nat
  BY <1>1
(* A clear after the cursor, of whatever is above q: it has its own event. *)
<1>5. ASSUME NEW c \in thread.clears, c > q, C = {} \/ (\A d \in C : d < c)
      PROVE  \E d \in thread.clears : d >= c /\ d > k
  <2>1. PICK d \in thread.clears \cap thread.events : c <= d
    BY DEF Table, TableOfClear
  <2>2. ~(d <= k)
    BY <1>1, <1>5, <2>1
  <2> QED
    BY <1>1, <2>1, <2>2
<1>6. Whole(ms, k)
  <2>1. CASE C = {}
    <3>1. last = NONE
      BY <1>1, <2>1, LastOfSeqs
    <3>2. ms = v.messages \cup es
      <4>1. \A e \in es : e > NONE
        BY DEF NONE
      <4> HIDE DEF last
      <4> QED
        BY <3>1, <4>1
    <3> HIDE DEF last, ms
    <3>3. ASSUME NEW m \in thread.messages, m <= k PROVE m \in ms
      <4>1. CASE m <= q
        BY <3>2, <4>1 DEF Whole
      <4>2. CASE q < m
        BY <1>1, <3>2, <3>3, <4>2 DEF Table, TableOfClear
      <4> QED
        BY <1>1, <4>1, <4>2
    <3>4. ASSUME NEW m \in ms \ thread.messages
          PROVE  \E c \in thread.clears : c > m /\ c > k
      <4>1. \E c \in thread.clears : c > m /\ c > q
        <5>1. CASE m \in es
          BY <1>1, <2>1, <3>4, <5>1 DEF Known
        <5>2. CASE m \in v.messages
          BY <3>4, <5>2 DEF Whole
        <5> QED
          BY <3>2, <5>1, <5>2
      <4> QED
        BY <1>1, <1>4, <1>5, <2>1, <4>1
    <3> QED
      BY <3>2, <3>3, <3>4 DEF Whole
  <2>2. CASE C # {}
    <3>1. PICK x \in C : \A d \in C : d <= x
      BY <2>2
    <3>2. last = x /\ x \in Nat
      BY <1>1, <3>1, LastOfSeqs
    <3>3. ms = {e \in es : e > x}
      BY <3>2 DEF NONE
    <3> HIDE DEF last, ms
    <3>4. ASSUME NEW m \in thread.messages, m <= k PROVE m \in ms
      <4>1. x <= m /\ x # m
        BY <3>1 DEF Table, TableOfClear
      <4> QED
        BY <1>1, <3>1, <3>2, <3>3, <3>4, <4>1 DEF Table, TableOfClear
    <3>5. ASSUME NEW m \in ms \ thread.messages
          PROVE  \E c \in thread.clears : c > m /\ c > k
      <4>1. m \in es /\ m > x /\ m \notin C
        BY <1>1, <3>1, <3>2, <3>3, <3>5
      <4>2. PICK c \in thread.clears : c > m
        BY <3>5, <4>1 DEF Known
      <4> QED
        BY <1>1, <1>5, <3>1, <3>2, <4>1, <4>2
    <3> QED
      BY <3>3, <3>4, <3>5 DEF Whole
  <2> QED
    BY <2>1, <2>2
<1> HIDE DEF ms
<1> QED
  BY <1>1, <1>3, <1>4, <1>6 DEF ViewState, Seqs

(* The next event of the batch is the first after the cursor.              *)
LEMMA DeliverInv ==
  ASSUME FeedInv, deliver
  PROVE  FeedInv'
<1> DEFINE e == Min(stream.got)
           k == sub.cursor
<1>1. /\ stream \in [pc : {"out", "query", "yield", "wait"}, got : SUBSET Nat, full : BOOLEAN,
                     changed : BOOLEAN]
      /\ sub \in [pc : {"load", "head", "run"}, cursor : Seqs, ready : BOOLEAN,
                  pending : SUBSET Nat]
      /\ view \in ViewState
      /\ req \in [pc : {"none", "lock", "messages", "cursor", "back"},
                  by : {"load", "client", "stream", "retry"}, messages : SUBSET Nat,
                  cursor : Seqs, stale : BOOLEAN]
      /\ thread.events \in SUBSET Nat /\ thread.clears \in SUBSET Nat
      /\ FeedTyped /\ Table /\ BatchFollows /\ PendingLed /\ LoadFirst /\ SnapshotExact /\ ViewSound
  BY DEF FeedInv, FeedTyped, ViewState
<1>2. e \in stream.got /\ \A d \in stream.got : e <= d
  BY <1>1, MinOfSeqs DEF deliver
<1>3. /\ e \in Nat /\ k \in Int /\ k \in Seqs /\ k < e /\ Known(e) /\ Reached(e) /\ Past(e)
      /\ \A d \in thread.events : ~(k < d /\ d < e)
  BY <1>1, <1>2 DEF BatchFollows, Seqs, NONE
<1>4. Max({k, e}) = e
  BY <1>3, MaxOfSeqs
<1>5. /\ UNCHANGED <<feed, thread, writer>>
      /\ stream' = [stream EXCEPT !.got = @ \ {e}] /\ stream.pc = "yield"
      /\ sub'.cursor = e /\ sub'.ready = sub.ready /\ sub'.pc = sub.pc
      /\ sub' \in [pc : {"load", "head", "run"}, cursor : Seqs, ready : BOOLEAN,
                   pending : SUBSET Nat]
      /\ sub'.pending = IF sub.ready THEN sub.pending ELSE sub.pending \cup {e}
      /\ view' = IF sub.ready THEN Applied(view, {e}) ELSE view
      /\ req' \in [pc : {"none", "lock", "messages", "cursor", "back"},
                   by : {"load", "client", "stream", "retry"}, messages : SUBSET Nat,
                   cursor : Seqs, stale : BOOLEAN]
      /\ req'.pc = req.pc /\ req'.by = req.by /\ req'.messages = req.messages
      /\ req'.cursor = req.cursor
  <2> HIDE DEF e
  <2>1. \/ sub.ready /\ sub' = [sub EXCEPT !.cursor = e] /\ view' = Applied(view, {e})
        \/ /\ ~sub.ready /\ sub' = [sub EXCEPT !.cursor = e, !.pending = @ \cup {e}]
           /\ view' = view
    BY <1>1, <1>4 DEF deliver, e
  <2>2. req' = [req EXCEPT !.stale = @ \/ (req.pc # "none" /\ e \in thread.clears)]
    BY DEF deliver, e
  <2>3. /\ UNCHANGED <<feed, thread, writer>>
        /\ stream' = [stream EXCEPT !.got = @ \ {e}] /\ stream.pc = "yield"
    BY DEF deliver, notThread, e
  <2>4. /\ req' \in [pc : {"none", "lock", "messages", "cursor", "back"},
                     by : {"load", "client", "stream", "retry"}, messages : SUBSET Nat,
                     cursor : Seqs, stale : BOOLEAN]
        /\ req'.pc = req.pc /\ req'.by = req.by /\ req'.messages = req.messages
        /\ req'.cursor = req.cursor
    BY <1>1, <2>2
  <2>5. e \in Seqs
    BY <1>3 DEF Seqs
  <2>6. /\ sub'.cursor = e /\ sub'.ready = sub.ready /\ sub'.pc = sub.pc
        /\ sub' \in [pc : {"load", "head", "run"}, cursor : Seqs, ready : BOOLEAN,
                     pending : SUBSET Nat]
        /\ sub'.pending = IF sub.ready THEN sub.pending ELSE sub.pending \cup {e}
    <3>1. CASE sub.ready
      BY <1>1, <1>3, <2>1, <2>5, <3>1
    <3>2. CASE ~sub.ready
      <4>1. sub.pending \cup {e} \in SUBSET Nat
        BY <1>1, <1>3
      <4>2. sub' = [sub EXCEPT !.cursor = e, !.pending = sub.pending \cup {e}]
        BY <2>1, <3>2
      <4> QED
        BY <1>1, <2>5, <3>2, <4>1, <4>2
    <3> QED
      BY <3>1, <3>2
  <2>7. view' = IF sub.ready THEN Applied(view, {e}) ELSE view
    BY <2>1
  <2> QED
    BY <2>3, <2>4, <2>6, <2>7
<1> HIDE DEF e
<1>6. ASSUME NEW q \in Seqs, Bridged(q), ~sub.ready
      PROVE  /\ \A x \in thread.events : q < x /\ x <= e => x \in sub'.pending
             /\ q < e => e \in sub'.pending
  <2>1. ASSUME NEW x \in thread.events, q < x, x <= e PROVE x \in sub'.pending
    <3>1. x \in Nat /\ (x <= k \/ x = e)
      BY <1>1, <1>3, <2>1
    <3> QED
      BY <1>5, <1>6, <2>1, <3>1 DEF Bridged
  <2> QED
    BY <1>5, <1>6, <2>1
<1>7. BatchFollows'
  <2>1. stream'.got = stream.got \ {e} /\ stream'.pc = "yield"
    BY <1>1, <1>5
  <2>2. ASSUME NEW x \in stream'.got
        PROVE  /\ e < x /\ Known(x) /\ Reached(x) /\ Past(x)
               /\ \A d \in thread.events : e < d /\ d < x => d \in stream'.got
    <3>1. x \in stream.got /\ x # e /\ x \in Nat
      BY <1>1, <2>1, <2>2
    <3>2. \A d \in thread.events : e < d /\ d < x => k < d /\ d # e
      BY <1>1, <1>3
    <3> QED
      BY <1>1, <1>2, <1>3, <2>1, <3>1, <3>2 DEF BatchFollows
  <2> QED
    BY <1>1, <1>5, <2>1, <2>2, Unmoved DEF BatchFollows
<1>8. PendingLed'
  <2>1. ASSUME NEW x \in sub'.pending PROVE x <= e /\ Known(x)
    BY <1>1, <1>3, <1>5, <2>1 DEF PendingLed
  <2>2. sub'.pending \cap thread.clears # {} =>
          \E x \in sub'.pending \cap thread.clears : \A d \in sub'.pending \cap thread.clears : d <= x
    <3>1. CASE e \in sub'.pending \cap thread.clears
      BY <2>1, <3>1
    <3>2. CASE e \notin sub'.pending \cap thread.clears
      <4>1. sub'.pending \cap thread.clears = sub.pending \cap thread.clears
        BY <1>5, <3>2
      <4> QED
        BY <1>1, <4>1 DEF PendingLed
    <3> QED
      BY <3>1, <3>2
  <2>3. sub'.ready => sub'.pending = {}
    BY <1>1, <1>5 DEF PendingLed
  <2> QED
    BY <1>1, <1>3, <1>5, <2>1, <2>2, <2>3, Unmoved DEF PendingLed
<1>9. sub.ready => /\ view' \in ViewState /\ view'.have /\ view'.cursor = e
                   /\ Whole(view'.messages, e)
  <2>1. ASSUME sub.ready
        PROVE  /\ Applied(view, {e}) \in ViewState /\ Applied(view, {e}).have = view.have
               /\ Applied(view, {e}).cursor = e /\ Whole(Applied(view, {e}).messages, e)
    <3>1. Whole(view.messages, k)
      BY <1>1, <2>1 DEF ViewSound
    <3>2. \A x \in thread.events : k < x /\ x <= e => x = e
      BY <1>1, <1>3
    <3>3. {e} \cap thread.clears # {} =>
            \E x \in {e} \cap thread.clears : \A d \in {e} \cap thread.clears : d <= x
      BY <1>3
    <3> QED
      BY <1>1, <1>3, <3>1, <3>2, <3>3, AppliedWhole
  <2> QED
    BY <1>1, <1>5, <2>1 DEF ViewSound
<1>10. ViewSound'
  <2>1. ASSUME sub'.ready
        PROVE  view'.have /\ sub'.cursor <= view'.cursor /\ Whole(view.messages, sub.cursor)'
    <3>1. WholeThen(view'.messages, e)
      BY <1>1, <1>5, <1>9, <2>1, Unmoved
    <3> QED
      BY <1>3, <1>5, <1>9, <2>1, <3>1, WholeNext
  <2>2. ASSUME view'.have, ~sub'.ready
        PROVE  Whole(view.messages, view.cursor)' /\ Past(view.cursor)' /\ Bridged(view.cursor)'
    <3>1. Whole(view.messages, view.cursor) /\ Past(view.cursor) /\ Bridged(view.cursor)
      BY <1>1, <1>5, <2>2 DEF ViewSound
    <3>2. view' = view /\ view.cursor \in Seqs
      BY <1>1, <1>5, <2>2 DEF ViewState
    <3>3. Bridged(view.cursor)'
      BY <1>5, <1>6, <2>2, <3>1, <3>2 DEF Bridged
    <3> QED
      BY <1>1, <1>5, <3>1, <3>2, <3>3, Unmoved, WholeNext
  <2> QED
    BY <2>1, <2>2 DEF ViewSound
<1>11. SnapshotExact'
  <2>1. ASSUME req.pc = "back"
        PROVE  /\ Whole(req.messages, req.cursor)' /\ Reached(req.cursor)' /\ Past(req.cursor)'
               /\ ~sub'.ready => Bridged(req.cursor)'
    <3>1. /\ Whole(req.messages, req.cursor) /\ Reached(req.cursor) /\ Past(req.cursor)
          /\ ~sub.ready => Bridged(req.cursor)
      BY <1>1, <2>1 DEF SnapshotExact
    <3>2. ~sub'.ready => Bridged(req.cursor)'
      BY <1>1, <1>5, <1>6, <3>1 DEF Bridged
    <3> QED
      BY <1>1, <1>5, <3>1, <3>2, Unmoved, WholeNext
  <2> QED
    BY <1>1, <1>5, <2>1, Unmoved DEF SnapshotExact
<1>12. LoadFirst'
  BY <1>1, <1>5 DEF LoadFirst
<1>13. FeedTyped'
  BY <1>1, <1>5, <1>9 DEF FeedTyped, ViewState
<1> QED
  BY <1>1, <1>5, <1>7, <1>8, <1>10, <1>11, <1>12, <1>13, Unmoved DEF FeedInv

(* The head alone: the subscription begins without a snapshot.             *)
LEMMA HeadInv ==
  ASSUME FeedInv, loadHead
  PROVE  FeedInv'
<1>1. /\ sub \in [pc : {"load", "head", "run"}, cursor : Seqs, ready : BOOLEAN,
                  pending : SUBSET Nat]
      /\ view.have \in BOOLEAN /\ Table /\ LoadFirst /\ BatchFollows /\ sub.pc = "head"
  BY DEF FeedInv, FeedTyped, loadHead
<1>2. /\ ~view.have /\ sub.pending = {} /\ stream.pc = "out" /\ stream.got = {}
      /\ req.pc = "none"
  BY <1>1 DEF LoadFirst, BatchFollows
<1>3. UNCHANGED <<feed, thread, writer, stream, view, req>>
  BY DEF loadHead, notThread
<1>4. /\ sub' \in [pc : {"load", "head", "run"}, cursor : Seqs, ready : BOOLEAN,
                   pending : SUBSET Nat]
      /\ sub'.pc = "run" /\ sub'.cursor = LastOf(thread.events) /\ ~sub'.ready
      /\ sub'.pending = {}
  BY <1>1, <1>2, LastEvent DEF loadHead
<1>5. PendingLed'
  BY <1>1, <1>3, <1>4, LastEvent, Unmoved DEF PendingLed
<1>6. BatchFollows' /\ ViewSound' /\ SnapshotExact' /\ LoadFirst'
  BY <1>2, <1>3, <1>4 DEF BatchFollows, ViewSound, SnapshotExact, LoadFirst
<1>7. FeedTyped'
  BY <1>3, <1>4 DEF FeedInv, FeedTyped
<1> QED
  BY <1>1, <1>3, <1>5, <1>6, <1>7, Unmoved DEF FeedInv

-----------------------------------------------------------------------------
(* The end of a request *)

(* What the client may take for its snapshot: its own, or the answer.      *)
Answer == [have |-> TRUE, cursor |-> req.cursor, messages |-> req.messages]
Takes(v) == v = view \/ (req.pc = "back" /\ Supersedes /\ v = Answer)
Sound(v) ==
  /\ sub.ready => v.have /\ sub.cursor <= v.cursor /\ Whole(v.messages, sub.cursor)
  /\ v.have /\ ~sub.ready => Whole(v.messages, v.cursor) /\ Past(v.cursor) /\ Bridged(v.cursor)

LEMMA TakenIsSound ==
  ASSUME FeedInv, NEW v, Takes(v)
  PROVE  Sound(v) /\ v \in ViewState
<1>1. FeedTyped /\ view \in ViewState /\ req.messages \in SUBSET Nat /\ req.cursor \in Seqs
      /\ sub.cursor \in Seqs /\ view.cursor \in Seqs
  BY DEF FeedInv, FeedTyped, ViewState
<1>2. CASE v = view
  BY <1>1, <1>2 DEF FeedInv, ViewSound, Sound
<1>3. CASE req.pc = "back" /\ Supersedes /\ v = Answer
  <2>1. v \in ViewState /\ v.have /\ v.cursor = req.cursor /\ v.messages = req.messages
    BY <1>1, <1>3 DEF Answer, ViewState
  <2>2. /\ Whole(req.messages, req.cursor) /\ Past(req.cursor)
        /\ ~sub.ready => Bridged(req.cursor)
    BY <1>3 DEF FeedInv, SnapshotExact
  <2>3. ASSUME sub.ready PROVE sub.cursor <= req.cursor /\ Whole(req.messages, sub.cursor)
    <3>1. view.have /\ sub.cursor <= view.cursor
      BY <2>3 DEF FeedInv, ViewSound
    <3>2. sub.cursor <= req.cursor /\ sub.cursor \in Int /\ req.cursor \in Int
      BY <1>1, <1>3, <3>1 DEF Supersedes, Seqs, NONE
    <3> QED
      BY <1>1, <2>2, <3>2, WholeBefore
  <2> QED
    BY <2>1, <2>2, <2>3 DEF Sound
<1> QED
  BY <1>2, <1>3 DEF Takes

(* What was kept as pending fills the gap.                                 *)
LEMMA FlushedIsSound ==
  ASSUME FeedInv, NEW v, Takes(v), v.have, req.by = "retry"
  PROVE  /\ Flushed(v) \in ViewState /\ Flushed(v).have /\ sub.cursor <= Flushed(v).cursor
         /\ Whole(Flushed(v).messages, sub.cursor)
<1> DEFINE P == {e \in sub.pending : e > v.cursor}
<1>1. /\ FeedTyped /\ Table /\ PendingLed /\ Sound(v) /\ v \in ViewState
      /\ sub.cursor \in Seqs /\ sub.cursor \in Int /\ v.cursor \in Seqs /\ v.cursor \in Int
      /\ sub.pending \in SUBSET Nat /\ thread.events \in SUBSET Nat
      /\ thread.clears \in SUBSET Nat
  BY TakenIsSound DEF FeedInv, FeedTyped, ViewState, Seqs, NONE
<1>2. Flushed(v) = Applied(v, P)
  BY DEF Flushed
<1>3. CASE P = {}
  <2>1. Flushed(v) = v
    BY <1>2, <1>3 DEF Applied
  <2>2. CASE sub.ready
    BY <1>1, <2>1, <2>2 DEF Sound
  <2>3. CASE ~sub.ready
    <3>1. Whole(v.messages, v.cursor) /\ Bridged(v.cursor)
      BY <1>1, <2>3 DEF Sound
    <3>2. ~(v.cursor < sub.cursor)
      BY <1>1, <1>3, <3>1 DEF Bridged
    <3> QED
      BY <1>1, <2>1, <3>1, <3>2, WholeBefore
  <2> QED
    BY <2>2, <2>3
<1>4. CASE P # {}
  <2>1. ~sub.ready /\ v.cursor < sub.cursor
    BY <1>1, <1>4 DEF PendingLed
  <2>2. Whole(v.messages, v.cursor) /\ Bridged(v.cursor)
    BY <1>1, <2>1 DEF Sound
  <2>3. sub.cursor \in P /\ P \in SUBSET Nat
    BY <1>1, <2>1, <2>2 DEF Bridged
  <2>4. \A e \in P : v.cursor < e /\ e <= sub.cursor /\ Known(e) /\ Past(e)
    <3>1. ASSUME NEW e \in P
          PROVE  e \in Nat /\ v.cursor < e /\ e <= sub.cursor /\ Known(e)
      BY <1>1 DEF PendingLed
    <3>2. ASSUME NEW e \in P PROVE Past(e)
      <4>1. /\ Past(sub.cursor) /\ thread.next \in Nat
            /\ \A w \in Writers : writer[w].pc = "open" => writer[w].seq \in Nat
        BY <1>1 DEF PendingLed, FeedTyped, Table, OneWrites
      <4> QED
        BY <1>1, <3>1, <4>1 DEF Past
    <3> QED
      BY <3>1, <3>2
  <2>5. P \cap thread.clears # {} =>
          \E e \in P \cap thread.clears : \A d \in P \cap thread.clears : d <= e
    <3>1. ASSUME NEW x \in P \cap thread.clears
          PROVE  \E e \in P \cap thread.clears : \A d \in P \cap thread.clears : d <= e
      <4>1. PICK e \in sub.pending \cap thread.clears :
              \A d \in sub.pending \cap thread.clears : d <= e
        BY <1>1, <3>1 DEF PendingLed
      <4>2. e \in P
        BY <1>1, <3>1, <4>1
      <4> QED
        BY <4>1, <4>2
    <3> QED
      BY <3>1
  <2>6. \A e \in thread.events : v.cursor < e /\ e <= sub.cursor => e \in P
    BY <1>1, <2>2 DEF Bridged
  <2> HIDE DEF P
  <2>7. /\ Applied(v, P) \in ViewState
        /\ Applied(v, P).have = v.have /\ Applied(v, P).cursor = sub.cursor
        /\ Whole(Applied(v, P).messages, sub.cursor)
    BY <1>1, <2>2, <2>3, <2>4, <2>5, <2>6, AppliedWhole
  <2> QED
    BY <1>1, <1>2, <2>7
<1> QED
  BY <1>3, <1>4

(* A request ends, with an answer that is taken or not.                    *)
LEMMA EndInv ==
  ASSUME FeedInv, NEW v, Takes(v), req.pc # "none",
         view' = Flushed(v), req' = Idle, UNCHANGED <<feed, thread, writer, stream>>,
         \/ sub' = Resumed(v) /\ (req.by = "load" => req.pc = "back")
         \/ /\ v = view
            /\ sub' = [Resumed(v) EXCEPT !.pc = IF req.by = "load" THEN "head" ELSE @]
  PROVE  FeedInv'
<1>1. /\ sub \in [pc : {"load", "head", "run"}, cursor : Seqs, ready : BOOLEAN,
                  pending : SUBSET Nat]
      /\ req.cursor \in Seqs /\ v \in ViewState /\ Sound(v)
      /\ req.by \in {"load", "client", "stream", "retry"}
      /\ req.pc \in {"none", "lock", "messages", "cursor", "back"}
      /\ FeedTyped /\ Table /\ BatchFollows /\ PendingLed /\ LoadFirst /\ SnapshotExact /\ ViewSound
  BY TakenIsSound DEF FeedInv, FeedTyped
<1>2. /\ req' \in [pc : {"none", "lock", "messages", "cursor", "back"},
                   by : {"load", "client", "stream", "retry"}, messages : SUBSET Nat,
                   cursor : Seqs, stale : BOOLEAN]
      /\ req'.pc = "none"
  BY DEF Idle, Fetch, Seqs
<1>3. SnapshotExact'
  BY <1>2 DEF SnapshotExact
<1>4. CASE req.by = "load"
  <2>1. /\ sub.pc = "load" /\ ~view.have /\ ~sub.ready /\ sub.pending = {}
        /\ stream.pc = "out" /\ stream.got = {}
    BY <1>1, <1>4 DEF LoadFirst, BatchFollows
  <2>2. view' = v
    BY <1>4 DEF Flushed
  <2>3. /\ sub' \in [pc : {"load", "head", "run"}, cursor : Seqs, ready : BOOLEAN,
                     pending : SUBSET Nat]
        /\ sub'.pending = {}
        /\ \/ req.pc = "back" /\ sub'.cursor = req.cursor /\ (sub'.ready <=> v.have)
           \/ sub'.cursor = sub.cursor /\ ~sub'.ready /\ v = view
        /\ sub'.pc \in {"run", "head"}
        /\ sub'.pc = "head" => v = view
    <3>1. CASE req.pc = "back"
      <4>1. Resumed(v) = [sub EXCEPT !.pc = "run", !.cursor = req.cursor, !.ready = v.have]
        BY <1>4, <3>1 DEF Resumed
      <4>2. v.have \in BOOLEAN
        BY <1>1 DEF ViewState
      <4> QED
        BY <1>1, <1>4, <2>1, <3>1, <4>1, <4>2
    <3>2. CASE req.pc # "back"
      <4>1. Resumed(v) = [sub EXCEPT !.pc = "head"]
        BY <1>4, <3>2 DEF Resumed
      <4> QED
        BY <1>1, <1>4, <2>1, <3>2, <4>1
    <3> QED
      BY <3>1, <3>2
  <2>4. BatchFollows'
    BY <2>1 DEF BatchFollows
  <2>5. PendingLed'
    BY <1>1, <2>3, Unmoved DEF PendingLed, SnapshotExact
  <2>6. LoadFirst'
    BY <1>2, <2>1, <2>2, <2>3 DEF LoadFirst
  <2>7. ViewSound'
    <3>1. CASE v = view
      BY <2>1, <2>2, <2>3, <3>1 DEF ViewSound
    <3>2. CASE v # view
      <4>1. /\ v = Answer /\ req.pc = "back" /\ v.cursor = req.cursor
            /\ v.messages = req.messages
        BY <3>2 DEF Takes, Answer
      <4>2. sub'.ready /\ sub'.cursor = v.cursor /\ v.have
        BY <1>1, <2>3, <3>2, <4>1 DEF Answer
      <4>3. Whole(v.messages, v.cursor)
        BY <1>1, <4>1 DEF SnapshotExact
      <4>4. Whole(view.messages, sub.cursor)'
        BY <1>1, <2>2, <4>2, <4>3, Unmoved, WholeNext
      <4> QED
        BY <1>1, <2>2, <4>2, <4>4 DEF ViewSound, ViewState, Seqs, NONE
    <3> QED
      BY <3>1, <3>2
  <2>8. FeedTyped'
    BY <1>1, <1>2, <2>2, <2>3 DEF FeedTyped, ViewState
  <2> QED
    BY <1>1, <1>3, <2>4, <2>5, <2>6, <2>7, <2>8, Unmoved DEF FeedInv
<1>5. CASE req.by = "retry" /\ v.have
  <2>1. sub.pc = "run"
    BY <1>1, <1>5 DEF LoadFirst
  <2>2. /\ sub' \in [pc : {"load", "head", "run"}, cursor : Seqs, ready : BOOLEAN,
                     pending : SUBSET Nat]
        /\ sub'.pc = "run" /\ sub'.cursor = sub.cursor /\ sub'.ready /\ sub'.pending = {}
    <3>1. Resumed(v) = [sub EXCEPT !.ready = TRUE, !.pending = {}]
      BY <1>5 DEF Resumed
    <3> QED
      BY <1>1, <1>5, <2>1, <3>1
  <2>3. /\ view' \in ViewState /\ view'.have /\ sub.cursor <= view'.cursor
        /\ Whole(view'.messages, sub.cursor)
    BY <1>5, FlushedIsSound
  <2>4. BatchFollows'
    BY <1>1, <2>2, Unmoved DEF BatchFollows
  <2>5. PendingLed'
    BY <1>1, <2>2, Unmoved DEF PendingLed
  <2>6. LoadFirst'
    BY <1>2, <2>2 DEF LoadFirst
  <2>7. ViewSound'
    <3>1. Whole(view.messages, sub.cursor)'
      BY <1>1, <2>2, <2>3, Unmoved, WholeNext
    <3> QED
      BY <2>2, <2>3, <3>1 DEF ViewSound
  <2>8. FeedTyped'
    BY <1>1, <1>2, <2>2, <2>3 DEF FeedTyped, ViewState
  <2> QED
    BY <1>1, <1>3, <2>4, <2>5, <2>6, <2>7, <2>8, Unmoved DEF FeedInv
<1>6. CASE req.by # "load" /\ ~(req.by = "retry" /\ v.have)
  <2>1. sub.pc = "run"
    BY <1>1, <1>6 DEF LoadFirst
  <2>2. sub' = sub /\ view' = v
    <3>1. Resumed(v) = sub /\ Flushed(v) = v
      BY <1>6 DEF Resumed, Flushed
    <3> QED
      BY <1>1, <1>6, <3>1
  <2>3. BatchFollows' /\ PendingLed'
    BY <1>1, <2>2, Unmoved DEF BatchFollows, PendingLed
  <2>4. LoadFirst'
    BY <1>2, <2>1, <2>2 DEF LoadFirst
  <2>5. ViewSound'
    <3>1. ASSUME sub.ready PROVE Whole(view.messages, sub.cursor)'
      BY <1>1, <2>2, <3>1, Unmoved, WholeNext DEF Sound
    <3>2. ASSUME v.have, ~sub.ready
          PROVE  Whole(view.messages, view.cursor)' /\ Past(view.cursor)' /\ Bridged(view.cursor)'
      <4>1. Whole(v.messages, v.cursor) /\ Past(v.cursor) /\ Bridged(v.cursor)
        BY <1>1, <3>2 DEF Sound
      <4> QED
        BY <1>1, <2>2, <4>1, Unmoved, WholeNext DEF Bridged
    <3> QED
      BY <1>1, <2>2, <3>1, <3>2 DEF Sound, ViewSound
  <2>6. FeedTyped'
    BY <1>1, <1>2, <2>2 DEF FeedTyped, ViewState
  <2> QED
    BY <1>1, <1>3, <2>3, <2>4, <2>5, <2>6, Unmoved DEF FeedInv
<1> QED
  BY <1>4, <1>5, <1>6

-----------------------------------------------------------------------------
(* The feed: the theorems *)

LEMMA FeedInitInv == FeedInit => FeedInv
<1> SUFFICES ASSUME FeedInit PROVE FeedInv
  OBVIOUS
<1>1. /\ thread = [next |-> 0, events |-> {}, messages |-> {}, clears |-> {}]
      /\ stream = [pc |-> "out", got |-> {}, full |-> FALSE, changed |-> FALSE]
      /\ sub = [pc |-> "load", cursor |-> NONE, ready |-> FALSE, pending |-> {}]
      /\ view = [have |-> FALSE, cursor |-> NONE, messages |-> {}]
      /\ \A w \in Writers : writer[w].pc = "idle"
  BY DEF FeedInit, Resting
<1>2. /\ req \in [pc : {"none", "lock", "messages", "cursor", "back"},
                  by : {"load", "client", "stream", "retry"}, messages : SUBSET Nat,
                  cursor : Seqs, stale : BOOLEAN]
      /\ req.pc \in {"none", "lock"} /\ (req.pc # "none" => req.by = "load")
  BY DEF FeedInit, Fetch, Idle, Seqs
<1>3. FeedTyped
  <2>1. writer \in [Writers -> [pc : {"idle", "open", "notify"}, seq : Seqs, clears : BOOLEAN]]
    BY DEF FeedInit, Resting, Seqs
  <2> QED
    BY <1>1, <1>2, <2>1 DEF FeedInit, FeedTyped, Seqs
<1>4. Table
  BY <1>1 DEF Table, TableOfClear, TableHasLast, TableIsPast, OneWrites
<1>5. BatchFollows /\ PendingLed /\ LoadFirst
  BY <1>1, <1>2 DEF BatchFollows, PendingLed, LoadFirst, Reached, Past, NONE
<1>6. SnapshotExact /\ ViewSound
  BY <1>1, <1>2 DEF SnapshotExact, ViewSound
<1> QED
  BY <1>3, <1>4, <1>5, <1>6 DEF FeedInv

LEMMA WriterInv ==
  ASSUME FeedInv, NEW w \in Writers,
         Writes(w) \/ rollback(w) \/ \E clears \in BOOLEAN : open(w, clears)
  PROVE  FeedInv'
<1>1. UNCHANGED <<feed, stream, sub, view, req>> /\ FeedTyped /\ Table
  BY DEF FeedInv, Writes, commit, notifyRealtime, rollback, open, notClient
<1>2. /\ Table' /\ Grows
      /\ thread' \in [next : Nat, events : SUBSET Nat, messages : SUBSET Nat,
                      clears : SUBSET Nat]
      /\ writer' \in [Writers -> [pc : {"idle", "open", "notify"}, seq : Seqs,
                                  clears : BOOLEAN]]
  BY <1>1, WriterKeepsTable, CommitKeepsTable DEF Writes
<1>3. ASSUME req.pc \in {"messages", "cursor"}
      PROVE  ~Opened' /\ thread'.messages = thread.messages
  <2>1. ~Opened /\ Shared
    BY <1>3 DEF FeedInv, SnapshotExact, Shared
  <2>2. notifyRealtime(w)
    BY <2>1 DEF Writes, commit, rollback, open, Opened
  <2> QED
    BY <1>1, <2>1, <2>2 DEF notifyRealtime, Opened, Resting, FeedTyped
<1>4. FeedTyped'
  BY <1>1, <1>2 DEF FeedTyped
<1> QED
  BY <1>1, <1>2, <1>3, <1>4, WritersKeep DEF FeedInv

LEMMA FeedNextInv == FeedInv /\ [FeedNext]_feedVars => FeedInv'
<1> SUFFICES ASSUME FeedInv, [FeedNext]_feedVars PROVE FeedInv'
  OBVIOUS
<1>1. CASE UNCHANGED feedVars
  <2>1. UNCHANGED <<feed, thread, writer, stream, sub, view, req>>
    BY <1>1 DEF feedVars
  <2>2. FeedTyped' /\ BatchFollows' /\ LoadFirst'
    BY <2>1, Unmoved DEF FeedInv, FeedTyped, BatchFollows, LoadFirst
  <2> QED
    BY <2>1, <2>2, Unmoved, ClientStays, SnapshotStays DEF FeedInv
<1>2. CASE reconcileRefreshedThread
  <2> DEFINE v == IF ~req.stale /\ Supersedes THEN Answer ELSE view
  <2>1. Takes(v)
    BY <1>2 DEF reconcileRefreshedThread, Takes
  <2>2. /\ req.pc = "back" /\ sub' = Resumed(v) /\ view' = Flushed(v) /\ req' = Idle
        /\ UNCHANGED <<feed, thread, writer, stream>>
    BY <1>2 DEF reconcileRefreshedThread, Answer, notThread
  <2> HIDE DEF v
  <2> QED
    BY <2>1, <2>2, EndInv
<1>3. CASE refreshFails
  <2>1. Takes(view)
    BY DEF Takes
  <2> QED
    BY <1>3, <2>1, EndInv DEF refreshFails, notThread
<1> QED
  BY <1>1, <1>2, <1>3, WriterInv, FanoutInv, BatchInv, DeliverInv, FetchInv, HeadInv, ReadInv
     DEF FeedNext, Listens, Loads

LEMMA FeedInvariant == FeedSpec => []FeedInv
BY FeedInitInv, FeedNextInv, PTL DEF FeedSpec

(* A client shows every message up to the event it has come to and nothing *)
(* that was cleared before it, for any writers, any batch and any meeting  *)
(* of refreshes, retries, streams that break and clears.                   *)
THEOREM ViewWhole == FeedSpec => []ViewIsWhole
<1>1. FeedInv => ViewIsWhole
  BY DEF FeedInv, ViewSound, Whole, ViewIsWhole
<1> QED
  BY <1>1, FeedInvariant, PTL

(* The rest of the feed's types. *)
FeedRest ==
  /\ listener \in [client : BOOLEAN, pc : {"none", "connect", "listen", "heard", "dispose"},
                   valid : BOOLEAN, timer : BOOLEAN]
  /\ wire \in Nat
  /\ count \in [refreshes : Nat, lost : Nat, drops : Nat, cuts : Nat]
  /\ count.refreshes <= feed.refreshes /\ count.lost <= feed.lost
  /\ count.drops <= feed.drops /\ count.cuts <= feed.cuts

LEMMA FeedRestInv ==
  ASSUME FeedInv, FeedRest, [FeedNext]_feedVars
  PROVE  FeedRest'
<1>1. /\ feed.refreshes \in Nat /\ feed.lost \in Nat /\ feed.drops \in Nat /\ feed.cuts \in Nat
      /\ feed.push \in BOOLEAN
  BY FeedAssumption DEF FeedInv, FeedTyped
<1>2. /\ count' \in [refreshes : Nat, lost : Nat, drops : Nat, cuts : Nat]
      /\ count'.refreshes <= feed.refreshes /\ count'.lost <= feed.lost
      /\ count'.drops <= feed.drops /\ count'.cuts <= feed.cuts
  <2>1. \/ UNCHANGED count
        \/ Counted("refreshes") \/ Counted("lost") \/ Counted("drops") \/ Counted("cuts")
    BY DEF FeedNext, Writes, open, commit, rollback, notifyRealtime, Listens, connects, connected,
           disposed, reconnects, handleNotification, handleDisconnect, subscribe, eventsAfter,
           deliver, waitForChange, catchUp, streamEnds, loadHead, refresh, retrySnapshot, Loads,
           lockThread, loadMessagePage, findLast, reconcileRefreshedThread, refreshFails, feedVars
  <2> QED
    BY <1>1, <2>1 DEF Counted, FeedRest
<1>3. UNCHANGED feed
  BY DEF FeedNext, Writes, open, commit, rollback, notifyRealtime, Listens, connects, connected,
         disposed, reconnects, handleNotification, handleDisconnect, subscribe, eventsAfter,
         deliver, waitForChange, catchUp, streamEnds, loadHead, refresh, retrySnapshot, Loads,
         lockThread, loadMessagePage, findLast, reconcileRefreshedThread, refreshFails, feedVars,
         notThread
<1>4. wire' \in Nat
  <2>1. wire' \in {wire, 0, wire + 1} \/ (wire > 0 /\ wire' = wire - 1)
    BY DEF FeedNext, Writes, open, commit, rollback, notifyRealtime, Listens, connects, connected,
           disposed, reconnects, handleNotification, handleDisconnect, subscribe, eventsAfter,
           deliver, waitForChange, catchUp, streamEnds, loadHead, refresh, retrySnapshot, Loads,
           lockThread, loadMessagePage, findLast, reconcileRefreshedThread, refreshFails, feedVars
  <2> QED
    BY <2>1 DEF FeedRest
<1>5. listener' \in [client : BOOLEAN, pc : {"none", "connect", "listen", "heard", "dispose"},
                     valid : BOOLEAN, timer : BOOLEAN]
  <2> DEFINE L == [client : BOOLEAN, pc : {"none", "connect", "listen", "heard", "dispose"},
                   valid : BOOLEAN, timer : BOOLEAN]
  <2>1. \A l \in L : Ensured(l) \in L /\ Scheduled(l) \in L
    BY DEF Ensured, Scheduled, Subscribers
  <2>2. listener \in L
    BY DEF FeedRest
  <2>3. CASE connects \/ connected \/ disposed
    <3>1. [listener EXCEPT !.pc = "none", !.valid = FALSE] \in L
      BY <2>2
    <3> QED
      BY <2>1, <2>2, <2>3, <3>1 DEF connects, connected, disposed
  <2>4. CASE handleDisconnect
    <3> DEFINE ended == [listener EXCEPT !.valid = FALSE]
               failed == [ended EXCEPT !.pc = "dispose"]
               closed == [listener EXCEPT !.client = FALSE]
    <3>1. ended \in L /\ failed \in L /\ closed \in L
      BY <2>2
    <3>2. listener' \in {Scheduled(closed), Scheduled(ended), failed, Scheduled(failed)}
      BY <2>4 DEF handleDisconnect
    <3> HIDE DEF ended, failed, closed
    <3> QED
      BY <2>1, <3>1, <3>2
  <2>5. CASE reconnects
    <3> DEFINE due == [listener EXCEPT !.timer = FALSE]
    <3>1. due \in L
      BY <2>2
    <3>2. listener' \in {Ensured(due), due}
      BY <2>5 DEF reconnects
    <3> HIDE DEF due
    <3> QED
      BY <2>1, <3>1, <3>2
  <2>6. CASE subscribe
    BY <2>1, <2>2, <2>6 DEF subscribe
  <2>7. CASE UNCHANGED listener
    BY <2>2, <2>7
  <2> QED
    BY <2>3, <2>4, <2>5, <2>6, <2>7
       DEF FeedNext, Writes, open, commit, rollback, notifyRealtime, Listens, handleNotification,
           eventsAfter, deliver, waitForChange, catchUp, streamEnds, loadHead, refresh,
           retrySnapshot, Loads, lockThread, loadMessagePage, findLast, reconcileRefreshedThread,
           refreshFails, feedVars
<1> QED
  BY <1>2, <1>3, <1>4, <1>5 DEF FeedRest

(* The thread, its writers, the fanout, the stream and the client have     *)
(* their types, and the feed's bounds are kept.                            *)
THEOREM FeedTypeCorrect == FeedSpec => []FeedTypeOK
<1>1. FeedInit => FeedRest
  <2>1. ASSUME FeedInit PROVE FeedRest
    BY <2>1, FeedAssumption DEF FeedInit, FeedRest
  <2> QED
    BY <2>1
<1>2. FeedInv /\ FeedRest /\ [FeedNext]_feedVars => FeedRest'
  BY FeedRestInv
<1>3. FeedInv /\ FeedRest => FeedTypeOK
  <2>1. ASSUME FeedInv, FeedRest PROVE FeedTypeOK
    <3>1. \A c \in {"refreshes", "lost", "drops", "cuts"} : count[c] <= feed[c]
      BY <2>1 DEF FeedRest
    <3>2. \A f \in {"client", "valid", "timer"} : listener[f] \in BOOLEAN
      BY <2>1 DEF FeedRest
    <3> QED
      BY <2>1, <3>1, <3>2
         DEF FeedInv, FeedTyped, FeedRest, FeedTypeOK, Table, TableOfClear, ViewSound
  <2> QED
    BY <2>1
<1> QED
  BY <1>1, <1>2, <1>3, FeedInvariant, PTL DEF FeedSpec

-----------------------------------------------------------------------------
(* The four side by side *)

LEMMA BackgroundEach == BackgroundSpec => RoutineSpec /\ AgentSpec /\ QueueSpec /\ FeedSpec
<1>1. BackgroundInit => RoutineInit /\ AgentInit /\ QueueInit /\ FeedInit
  BY DEF BackgroundInit
<1>2. [BackgroundNext]_backgroundVars =>
        /\ [RoutineNext]_routineVars /\ [AgentNext]_agentVars
        /\ [QueueNext]_queueVars /\ [FeedNext]_feedVars
  BY DEF BackgroundNext, backgroundVars
<1> QED
  BY <1>1, <1>2, PTL DEF BackgroundSpec, RoutineSpec, AgentSpec, QueueSpec, FeedSpec

(* Routines, cloud agents, the queue and the feed side by side have their  *)
(* types, and keep what each of them keeps: a routine fires as its user    *)
(* asked, a follow-up is sent once, a closed queue is quiet, and a client  *)
(* shows the thread whole.                                                 *)
THEOREM BackgroundSound ==
  BackgroundSpec =>
    /\ [](BackgroundTypeOK /\ FiresAsAsked /\ FollowupIsSentOnce /\ ClosedIsQuiet /\ ViewIsWhole)
    /\ CancelTakesHold
<1>1. BackgroundTypeOK <=> RoutineTypeOK /\ AgentTypeOK /\ QueueTypeOK /\ FeedTypeOK
  BY DEF BackgroundTypeOK
<1>2. /\ RoutineSpec => []RoutineTypeOK /\ []FiresAsAsked
      /\ AgentSpec => []AgentTypeOK /\ []FollowupIsSentOnce /\ CancelTakesHold
      /\ QueueSpec => []QueueTypeOK /\ []ClosedIsQuiet
      /\ FeedSpec => []FeedTypeOK /\ []ViewIsWhole
  BY RoutineTypeCorrect, RoutineFires, AgentTypeCorrect, FollowupOnce, CancelHolds, QueueTypeCorrect,
     ClosedQuiet, FeedTypeCorrect, ViewWhole
<1> QED
  BY <1>1, <1>2, BackgroundEach, PTL
=============================================================================
