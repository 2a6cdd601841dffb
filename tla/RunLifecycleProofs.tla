------------------------- MODULE RunLifecycleProofs -------------------------
(***************************************************************************)
(* What RunLifecycle's runs check on small instances, for every number of  *)
(* runs, workers, owners and messages.                                     *)
(***************************************************************************)
EXTENDS RunLifecycle, TLAPS

USE RunLifecycleAssumption DEF RunLifecycleAssumption

-----------------------------------------------------------------------------
(* Types *)

(* A row keeps its type when its lease columns are reset. *)
LEMMA UnleasedType ==
  ASSUME NEW row \in Run, NEW status \in Statuses
  PROVE  /\ Unleased(row, status) \in Run
         /\ Unleased(row, status).status = status
         /\ Unleased(row, status).source = row.source
BY DEF Unleased, Run

(* New rows and an idle worker are well typed. *)
LEMMA FreshTypes ==
  /\ Absent \in Run
  /\ \A m \in 0 .. MaxSeq, channel \in BOOLEAN :
       Queued(m, channel) \in Run /\ Queued(m, channel).status = "queued"
  /\ Idle \in Worker
<1>1. /\ 0 \in 0 .. MaxSeq /\ 0 \in 0 .. MaxFence
      /\ "absent" \in Statuses /\ "queued" \in Statuses /\ "none" \in Outcomes
  BY DEF Statuses, Active, Outcomes
<1>2. Absent \in Run
  BY <1>1 DEF Absent, Run
<1>3. ASSUME NEW m \in 0 .. MaxSeq, NEW channel \in BOOLEAN
      PROVE  Queued(m, channel) \in Run /\ Queued(m, channel).status = "queued"
  BY <1>1, <1>2 DEF Absent, Queued, Run
<1>4. Idle \in Worker
  BY <1>1 DEF Idle, Worker
<1> QED
  BY <1>2, <1>3, <1>4

(* A worker that leaves is idle and the others are as they were. *)
LEMMA LeaveType ==
  ASSUME NEW w \in Workers, worker \in [Workers -> Worker], Leave(w)
  PROVE  worker' \in [Workers -> Worker]
BY FreshTypes DEF Leave

(* A cancelled run is a run. *)
LEMMA CancelledType ==
  ASSUME NEW rs \in SUBSET Runs, run \in [Runs -> Run]
  PROVE  Cancelled(rs) \in [Runs -> Run]
BY UnleasedType DEF Cancelled, Statuses, Terminal

(* Ending the attempts of some runs keeps the type. *)
LEMMA EndAttemptsType ==
  ASSUME NEW rs \in SUBSET Runs, worker \in [Workers -> Worker]
  PROVE  /\ EndAttempts(rs) \in [Workers -> Worker]
         /\ \A w \in Workers : /\ EndAttempts(rs)[w].pc = worker[w].pc
                               /\ EndAttempts(rs)[w].run = worker[w].run
BY DEF EndAttempts, Worker

(* An enqueue that succeeds or fails keeps the job's type. *)
LEMMA TryEnqueueType ==
  ASSUME NEW r \in Runs, job \in [Runs -> BOOLEAN], TryEnqueue(r)
  PROVE  job' \in [Runs -> BOOLEAN]
BY DEF TryEnqueue

(* A worker out of the idle state has a run. *)
WorkerHasRun == \A w \in Workers : worker[w].pc # "idle" => worker[w].run \in Runs

TypeInv == TypeOK /\ WorkerHasRun

(* The initial state is well typed. *)
LEMMA TypeInit == Init => TypeInv
<1> SUFFICES ASSUME Init PROVE TypeInv
  OBVIOUS
<1>1. TypeOK
  <2>1. nextSeq \in 1 .. MaxSeq + 1
    BY DEF Init
  <2> QED
    BY <2>1, FreshTypes DEF Init, TypeOK
<1>2. WorkerHasRun
  BY DEF Init, WorkerHasRun, Idle
<1> QED
  BY <1>1, <1>2 DEF TypeInv

(* A worker's steps up to the end of its run keep the types. *)
LEMMA ContinueStepType ==
  ASSUME TypeInv, NEW w \in Workers,
         \/ Claim(w) \/ Start(w) \/ requeueComputerRun(w) \/ CreateAttempt(w)
         \/ renewRunLease(w) \/ LoseLease(w) \/ SetupFails(w) \/ Crash(w)
         \/ pauseRunForInput(w) \/ pauseRunForTakeover(w)
         \/ \E r \in Runs : Dequeue(w, r)
  PROVE  TypeInv'
<1> DEFINE r == worker[w].run
<1> USE DEF TypeInv, WorkerHasRun
<1>0. /\ run \in [Runs -> Run]
      /\ job \in [Runs -> BOOLEAN]
      /\ worker \in [Workers -> Worker]
      /\ worker[w] \in Worker
      /\ worker[w].pc # "idle" => r \in Runs /\ run[r] \in Run
  BY DEF TypeOK
<1>1. CASE Claim(w)
  <2>1. run' \in [Runs -> Run]
    <3>1. CASE Claimable(r)
      <4>1. "leased" \in Statuses /\ "none" \in Outcomes
        BY DEF Statuses, Active, Outcomes
      <4>2. r \in Runs /\ run[r] \in Run /\ worker[w].fence \in 0 .. MaxFence
        BY <1>0, <1>1 DEF Claim, Worker
      <4>3. OwnerOf[w] \in Owners
        OBVIOUS
      <4>4. run' = [run EXCEPT ![r] =
                     [run[r] EXCEPT !.status = "leased", !.owner = OwnerOf[w],
                                    !.fence = worker[w].fence, !.lease = "live",
                                    !.checkpoint = "none"]]
        BY <1>1, <3>1 DEF Claim
      <4> QED
        BY <1>0, <4>1, <4>2, <4>3, <4>4 DEF Run
    <3>2. CASE ~Claimable(r)
      BY <1>0, <1>1, <3>2 DEF Claim
    <3> QED
      BY <3>1, <3>2
  <2>2. worker' \in [Workers -> Worker]
    BY <1>0, <1>1, LeaveType DEF Claim, Worker
  <2>3. WorkerHasRun'
    BY <1>0, <1>1 DEF Claim, Leave, Idle, Worker
  <2> QED
    BY <1>0, <1>1, <2>1, <2>2, <2>3 DEF Claim, TypeOK, steering, routine
<1>2. CASE Start(w)
  <2>1. run' \in [Runs -> Run]
    BY <1>0, <1>2 DEF Start, Run, Statuses, Active
  <2>2. worker' \in [Workers -> Worker]
    BY <1>0, <1>2, LeaveType DEF Start, Worker
  <2>3. WorkerHasRun'
    BY <1>0, <1>2 DEF Start, Leave, Idle, Worker
  <2>4. job' \in [Runs -> BOOLEAN]
    BY <1>0, <1>2, TryEnqueueType DEF Start
  <2> QED
    BY <1>0, <1>2, <2>1, <2>2, <2>3, <2>4 DEF Start, TypeOK, steering, routine
<1>3. CASE requeueComputerRun(w)
  <2>1. Unleased(run[r], "queued") \in Run /\ r \in Runs
    BY <1>0, <1>3, UnleasedType DEF requeueComputerRun, Statuses, Active
  <2>2. run' \in [Runs -> Run]
    <3>1. worker[w].checkpoint \in Outcomes
      BY <1>0 DEF Worker
    <3>2. [Unleased(run[r], "queued") EXCEPT !.checkpoint = worker[w].checkpoint] \in Run
      BY <2>1, <3>1 DEF Run
    <3> QED
      BY <1>0, <1>3, <2>1, <3>2 DEF requeueComputerRun
  <2>3. worker' \in [Workers -> Worker] /\ WorkerHasRun'
    BY <1>0, <1>3, LeaveType DEF requeueComputerRun, Leave, Idle
  <2>4. job' \in [Runs -> BOOLEAN]
    BY <1>0, <1>3, <2>1, TryEnqueueType DEF requeueComputerRun
  <2> QED
    BY <1>0, <1>3, <2>2, <2>3, <2>4 DEF requeueComputerRun, TypeOK, steering, routine
<1>4. CASE CreateAttempt(w)
  <2>1. worker' \in [Workers -> Worker] /\ WorkerHasRun'
    BY <1>0, <1>4 DEF CreateAttempt, Worker
  <2> QED
    BY <1>0, <1>4, <2>1 DEF CreateAttempt, TypeOK, steering, routine
<1>5. CASE renewRunLease(w)
  <2>1. run' \in [Runs -> Run]
    BY <1>0, <1>5 DEF renewRunLease, Working, Run
  <2> QED
    BY <1>0, <1>5, <2>1 DEF renewRunLease, TypeOK, steering, routine
<1>6. CASE LoseLease(w)
  <2>1. worker' \in [Workers -> Worker] /\ WorkerHasRun'
    BY <1>0, <1>6, LeaveType DEF LoseLease, Leave, Idle
  <2> QED
    BY <1>0, <1>6, <2>1 DEF LoseLease, TypeOK, steering, routine
<1>7. CASE SetupFails(w)
  <2>1. Unleased(run[r], "queued") \in Run /\ r \in Runs
    BY <1>0, <1>7, UnleasedType DEF SetupFails, Working, Statuses, Active
  <2>2. run' \in [Runs -> Run]
    <3>1. worker[w].checkpoint \in Outcomes
      BY <1>0 DEF Worker
    <3>2. [Unleased(run[r], "queued") EXCEPT !.checkpoint = worker[w].checkpoint] \in Run
      BY <2>1, <3>1 DEF Run
    <3> QED
      BY <1>0, <1>7, <2>1, <3>2 DEF SetupFails
  <2>3. worker' \in [Workers -> Worker] /\ WorkerHasRun'
    BY <1>0, <1>7, LeaveType DEF SetupFails, Leave, Idle
  <2>4. job' \in [Runs -> BOOLEAN]
    BY <1>0, <1>7, <2>1, TryEnqueueType DEF SetupFails
  <2> QED
    BY <1>0, <1>7, <2>2, <2>3, <2>4 DEF SetupFails, TypeOK, steering, routine
<1>8. CASE Crash(w)
  <2>1. worker' \in [Workers -> Worker] /\ WorkerHasRun'
    BY <1>0, <1>8, LeaveType DEF Crash, Leave, Idle
  <2>2. job' \in [Runs -> BOOLEAN]
    BY <1>0, <1>8, TryEnqueueType DEF Crash
  <2> QED
    BY <1>0, <1>8, <2>1, <2>2 DEF Crash, TypeOK, steering, routine
<1>9. ASSUME NEW status \in Waiting, Pause(w, status)
      PROVE  TypeInv'
  <2>1. run' \in [Runs -> Run]
    BY <1>0, <1>9, UnleasedType DEF Pause, Statuses, Active
  <2>2. worker' \in [Workers -> Worker] /\ WorkerHasRun'
    BY <1>0, <1>9, LeaveType DEF Pause, Leave, Idle
  <2> QED
    BY <1>0, <1>9, <2>1, <2>2 DEF Pause, TypeOK, steering, routine
<1>10. ASSUME NEW q \in Runs, Dequeue(w, q)
       PROVE  TypeInv'
  <2>1. run[q] \in Run /\ job' \in [Runs -> BOOLEAN]
    BY <1>0, <1>10 DEF Dequeue
  <2>2. ASSUME run[q].status \in Active
        PROVE  nextFence(run[q].fence) \in 0 .. MaxFence
    <3>1. run[q].fence \in 0 .. MaxFence /\ run[q].fence < MaxFence
      BY <2>1, <2>2, <1>10 DEF Dequeue, Run
    <3> QED
      BY <3>1 DEF nextFence
  <2>3. worker' \in [Workers -> Worker]
    BY <1>0, <1>10, <2>1, <2>2, FreshTypes DEF Dequeue, Worker, Idle, Run, Outcomes
  <2>4. WorkerHasRun'
    BY <1>0, <1>10 DEF Dequeue, Idle
  <2> QED
    BY <1>0, <1>10, <2>1, <2>3, <2>4 DEF Dequeue, TypeOK, steering, routine
<1> QED
  BY <1>1, <1>2, <1>3, <1>4, <1>5, <1>6, <1>7, <1>8, <1>9, <1>10
  DEF pauseRunForInput, pauseRunForTakeover, Waiting

(* Rows attached to a run after a finalization are attached to runs. *)
LEMMA ReattachType ==
  ASSUME NEW kept, NEW ms, NEW to \in Runs \cup {NoRun},
         attached \in [Seqs -> Runs \cup {NoRun}]
  PROVE  Reattach(kept, ms, to) \in [Seqs -> Runs \cup {NoRun}]
BY DEF Reattach

(* The one transaction that ends a run keeps the types. *)
LEMMA FinalizeType ==
  ASSUME TypeInv, NEW w \in Workers, NEW outcome \in {"completed", "failed"},
         Finalize(w, outcome)
  PROVE  TypeInv'
<1> DEFINE r        == worker[w].run
           ended    == Unleased(run[r], outcome)
           kept     == rows \ Deleted(w, outcome)
           released == Released(w, outcome)
           free     == released \cup {m \in kept : attached[m] = NoRun}
<1> USE DEF TypeInv, WorkerHasRun
<1>0. /\ run \in [Runs -> Run]
      /\ job \in [Runs -> BOOLEAN]
      /\ worker \in [Workers -> Worker]
      /\ rows \subseteq Seqs
      /\ claimed \subseteq rows
      /\ attached \in [Seqs -> Runs \cup {NoRun}]
      /\ r \in Runs
      /\ run[r] \in Run
  BY DEF TypeOK, Finalize, Working
<1>1. ended \in Run
  <2>1. outcome \in Statuses
    BY DEF Statuses, Terminal
  <2> QED
    BY <1>0, <2>1, UnleasedType
<1>2. kept \subseteq rows /\ released \subseteq rows /\ free \subseteq rows
  BY DEF Released
<1>3. worker' \in [Workers -> Worker] /\ WorkerHasRun'
  BY <1>0, LeaveType DEF Finalize, Leave, Idle
<1>4. CASE createSteeringContinuation(r, ended, kept, free)
  <2>1. PICK c \in Runs, last \in free :
          /\ run' = [run EXCEPT ![r] = ended, ![c] = Queued(last, FALSE)]
          /\ attached' = Reattach(kept, free, c)
          /\ TryEnqueue(c)
    BY <1>4 DEF createSteeringContinuation
  <2>2. Queued(last, FALSE) \in Run
    <3>1. last \in Seqs
      BY <1>0, <1>2
    <3>2. last \in 0 .. MaxSeq
      BY <3>1 DEF Seqs
    <3> QED
      BY <3>2, FreshTypes
  <2>3. run' \in [Runs -> Run]
    BY <1>0, <1>1, <2>1, <2>2
  <2>4. attached' \in [Seqs -> Runs \cup {NoRun}]
    BY <1>0, <2>1, ReattachType
  <2>5. job' \in [Runs -> BOOLEAN]
    BY <1>0, <2>1, TryEnqueueType
  <2>6. rows' \subseteq Seqs /\ claimed' \subseteq rows'
    BY <1>0, <1>2, <1>4 DEF createSteeringContinuation, Finalize
  <2> QED
    BY <1>3, <2>3, <2>4, <2>5, <2>6 DEF TypeOK, Finalize, routine
<1>5. CASE /\ run' = [run EXCEPT ![r] = ended]
           /\ attached' = Reattach(kept, released, NoRun)
           /\ claimed' = claimed \cap kept
           /\ UNCHANGED job
  <2>1. run' \in [Runs -> Run]
    BY <1>0, <1>1, <1>5
  <2>2. attached' \in [Seqs -> Runs \cup {NoRun}]
    BY <1>0, <1>5, ReattachType
  <2>3. rows' \subseteq Seqs /\ claimed' \subseteq rows'
    BY <1>0, <1>2, <1>5 DEF Finalize
  <2> QED
    BY <1>0, <1>3, <1>5, <2>1, <2>2, <2>3 DEF TypeOK, Finalize, routine
<1> QED
  BY <1>4, <1>5 DEF Finalize

(* Claiming the waiting messages keeps the types. *)
LEMMA claimSteeringType ==
  ASSUME TypeInv, NEW w \in Workers, claimSteering(w)
  PROVE  TypeInv'
<1> USE DEF TypeInv, WorkerHasRun
<1>0. /\ worker \in [Workers -> Worker]
      /\ worker[w] \in Worker
      /\ worker[w].run \in Runs
      /\ Offered(w) \subseteq rows
      /\ rows \subseteq Seqs
  BY DEF TypeOK, claimSteering, Working, Offered
<1>1. worker' \in [Workers -> Worker] /\ WorkerHasRun'
  BY <1>0 DEF claimSteering, Worker
<1>2. attached' \in [Seqs -> Runs \cup {NoRun}]
  BY <1>0 DEF claimSteering, TypeOK
<1>3. claimed' \subseteq rows'
  BY <1>0 DEF claimSteering, TypeOK
<1> QED
  BY <1>1, <1>2, <1>3 DEF claimSteering, TypeOK, routine

(* The queue's and the scheduler's steps keep the types. *)
LEMMA ScheduleStepType ==
  ASSUME TypeInv, NEW r \in Runs,
         Lapse(r) \/ reconcileOnce(r) \/ wakeRoutine(r) \/ WakeEnqueued \/ WakeUndone
  PROVE  TypeInv'
<1> USE DEF TypeInv, WorkerHasRun
<1>0. /\ run \in [Runs -> Run]
      /\ firing # NoRun => firing \in Runs
  BY DEF TypeOK
<1>1. CASE Lapse(r)
  <2>1. run' \in [Runs -> Run]
    BY <1>0, <1>1 DEF Lapse, Run
  <2> QED
    BY <1>1, <2>1 DEF Lapse, TypeOK, steering, routine
<1>2. CASE reconcileOnce(r)
  BY <1>2 DEF reconcileOnce, TypeOK, steering, routine
<1>3. CASE wakeRoutine(r)
  <2>1. run' \in [Runs -> Run]
    <3>1. 0 \in 0 .. MaxSeq /\ FALSE \in BOOLEAN
      OBVIOUS
    <3>2. Queued(0, FALSE) \in Run
      BY <3>1, FreshTypes
    <3> QED
      BY <1>0, <1>3, <3>2 DEF wakeRoutine
  <2> QED
    BY <1>3, <2>1 DEF wakeRoutine, TypeOK, steering
<1>4. CASE WakeEnqueued
  BY <1>0, <1>4 DEF WakeEnqueued, TypeOK, steering
<1>5. CASE WakeUndone
  <2>1. [Absent EXCEPT !.status = "deleted"] \in Run
    BY FreshTypes DEF Run, Statuses
  <2>2. run' \in [Runs -> Run] /\ attached' \in [Seqs -> Runs \cup {NoRun}]
    BY <1>0, <1>5, <2>1 DEF WakeUndone, TypeOK
  <2> QED
    BY <1>5, <2>2 DEF WakeUndone, TypeOK
<1> QED
  BY <1>1, <1>2, <1>3, <1>4, <1>5

(* The users' and the routines' steps keep the types. *)
LEMMA UserStepType ==
  ASSUME TypeInv, NEW r \in Runs, UserStep(r)
  PROVE  TypeInv'
<1> USE DEF TypeInv, WorkerHasRun
<1>0. /\ run \in [Runs -> Run]
      /\ job \in [Runs -> BOOLEAN]
      /\ nextSeq \in 1 .. MaxSeq + 1
  BY DEF TypeOK
<1>1. ASSUME StartRun(r) PROVE TypeInv'
  <2>1. nextSeq \in 0 .. MaxSeq /\ nextSeq' \in 1 .. MaxSeq + 1
    BY <1>0, <1>1 DEF StartRun
  <2>2. run' \in [Runs -> Run]
    <3>1. (nextSeq \in ChannelSeqs) \in BOOLEAN
      OBVIOUS
    <3>2. Queued(nextSeq, nextSeq \in ChannelSeqs) \in Run
      BY <2>1, <3>1, FreshTypes
    <3> QED
      BY <1>0, <1>1, <3>2 DEF StartRun
  <2>3. job' \in [Runs -> BOOLEAN]
    BY <1>0, <1>1, TryEnqueueType DEF StartRun
  <2> QED
    BY <1>1, <2>1, <2>2, <2>3 DEF StartRun, TypeOK, steering, routine
<1>2. ASSUME Steer(r) PROVE TypeInv'
  <2>1. nextSeq \in Seqs /\ nextSeq' \in 1 .. MaxSeq + 1
    BY <1>0, <1>2 DEF Steer, Seqs
  <2>2. job' \in [Runs -> BOOLEAN]
    BY <1>0, <1>2, TryEnqueueType DEF Steer
  <2> QED
    BY <1>2, <2>1, <2>2 DEF Steer, TypeOK, routine
<1>3. ASSUME answerRunInput(r) PROVE TypeInv'
  <2>1. job' \in [Runs -> BOOLEAN]
    BY <1>0, <1>3, TryEnqueueType DEF answerRunInput
  <2>2. run' \in [Runs -> Run]
    BY <1>0, <1>3 DEF answerRunInput, Run, Statuses, Active
  <2> QED
    BY <1>3, <2>1, <2>2 DEF answerRunInput, TypeOK, steering, routine
<1>4. ASSUME NEW outcome \in {"takeover", "takeover-skipped"},
             finalizeComputerControlRelease(r, outcome)
      PROVE  TypeInv'
  <2>1. job' \in [Runs -> BOOLEAN]
    BY <1>0, <1>4, TryEnqueueType DEF finalizeComputerControlRelease
  <2>2. "queued" \in Statuses /\ outcome \in Outcomes
    BY DEF Statuses, Active, Outcomes
  <2>3. run' \in [Runs -> Run]
    <3>0. run[r] \in Run
      BY <1>0
    <3>1. [run[r] EXCEPT !.status = "queued", !.checkpoint = outcome] \in Run
      BY <3>0, <2>2 DEF Run
    <3>2. run' = [run EXCEPT ![r] = [run[r] EXCEPT !.status = "queued",
                                                   !.checkpoint = outcome]]
      BY <1>0, <3>0, <1>4 DEF finalizeComputerControlRelease
    <3> QED
      BY <1>0, <3>1, <3>2
  <2> QED
    BY <1>4, <2>1, <2>3 DEF finalizeComputerControlRelease, TypeOK, steering, routine
<1> QED
  BY <1>1, <1>2, <1>3, <1>4 DEF UserStep, SendToIdle, SendParallel

(* Steps on a whole thread keep the types. *)
LEMMA ThreadStepType ==
  ASSUME TypeInv, stopThreadRuns \/ clearThread \/ RemovalReads \/ RemovalCancels
  PROVE  TypeInv'
<1> USE DEF TypeInv, WorkerHasRun
<1>0. /\ run \in [Runs -> Run]
      /\ worker \in [Workers -> Worker]
      /\ removal \in SUBSET Runs
      /\ ActiveRuns \in SUBSET Runs
  BY DEF TypeOK, ActiveRuns
<1>1. CASE stopThreadRuns
  <2>1. run' \in [Runs -> Run]
    BY <1>0, <1>1 DEF stopThreadRuns, Run, Statuses, Terminal
  <2> QED
    BY <1>1, <2>1 DEF stopThreadRuns, TypeOK, routine
<1>2. CASE clearThread
  <2>1. Cancelled(ActiveRuns) \in [Runs -> Run]
    BY <1>0, CancelledType
  <2>2. run' \in [Runs -> Run]
    <3>1. 0 \in 0 .. MaxSeq
      OBVIOUS
    <3> QED
      BY <1>2, <2>1, <3>1 DEF clearThread, Run
  <2>3. worker' \in [Workers -> Worker] /\ WorkerHasRun'
    BY <1>0, <1>2, EndAttemptsType DEF clearThread
  <2> QED
    BY <1>2, <2>2, <2>3 DEF clearThread, TypeOK, routine
<1>3. CASE RemovalReads
  BY <1>0, <1>3 DEF RemovalReads, TypeOK, steering, routine
<1>4. CASE RemovalCancels
  <2>1. {r \in removal : run[r].status # "deleted"} \in SUBSET Runs
    BY <1>0
  <2>2. run' \in [Runs -> Run]
    BY <1>0, <1>4, <2>1, CancelledType DEF RemovalCancels
  <2>3. worker' \in [Workers -> Worker] /\ WorkerHasRun'
    BY <1>0, <1>4, EndAttemptsType DEF RemovalCancels
  <2> QED
    BY <1>4, <2>2, <2>3 DEF RemovalCancels, TypeOK, steering, routine
<1> QED
  BY <1>1, <1>2, <1>3, <1>4

(* Every step keeps the types. *)
LEMMA TypeNext == TypeInv /\ [Next]_vars => TypeInv'
<1> SUFFICES ASSUME TypeInv, [Next]_vars PROVE TypeInv'
  OBVIOUS
<1>1. CASE UNCHANGED vars
  BY <1>1 DEF vars, steering, routine, TypeInv, TypeOK, WorkerHasRun
<1>2. ASSUME NEW w \in Workers,
             WorkerStep(w) \/ renewRunLease(w) \/ Crash(w) \/ \E r \in Runs : Dequeue(w, r)
      PROVE  TypeInv'
  <2>1. CASE Complete(w) \/ Fail(w)
    BY <2>1, FinalizeType DEF Complete, Fail
  <2>2. CASE claimSteering(w)
    BY <2>2, claimSteeringType
  <2> QED
    BY <1>2, <2>1, <2>2, ContinueStepType DEF WorkerStep
<1>3. ASSUME NEW r \in Runs,
             \/ Lapse(r) \/ reconcileOnce(r) \/ wakeRoutine(r) \/ UserStep(r)
      PROVE  TypeInv'
  BY <1>3, ScheduleStepType, UserStepType
<1>4. CASE WakeEnqueued \/ WakeUndone
  <2>1. \E r \in Runs : TRUE
    BY <1>4 DEF TypeInv, TypeOK, WakeEnqueued, WakeUndone
  <2> QED
    BY <1>4, <2>1, ScheduleStepType
<1>5. CASE stopThreadRuns \/ clearThread \/ RemovalReads \/ RemovalCancels
  BY <1>5, ThreadStepType
<1> QED
  BY <1>1, <1>2, <1>3, <1>4, <1>5 DEF Next

(* Rows, jobs and workers only ever hold values of their types: no claim   *)
(* leaves the fence's range, no steering row points at a run that is none, *)
(* and every claimed row still exists.                                     *)
THEOREM TypeCorrect == Spec => []TypeOK
<1>1. Spec => []TypeInv
  BY TypeInit, TypeNext, PTL DEF Spec
<1> QED
  BY <1>1, PTL DEF TypeInv

-----------------------------------------------------------------------------
(* Runs that have ended *)

(* A step of a worker, of time or of a request leaves an ended run's       *)
(* status alone, but for the cancellation a group update had planned.      *)
LEMMA EndedStays ==
  ASSUME TypeInv, [Next]_vars, NEW q \in Runs,
         run[q].status \in Terminal \cup {"deleted"}
  PROVE  \/ run'[q].status = run[q].status
         \/ removal # {} /\ run[q].status # "deleted" /\ run'[q].status = "cancelled"
<1> DEFINE Same == run'[q].status = run[q].status
<1>0. /\ run \in [Runs -> Run]
      /\ \A w \in Workers : worker[w].pc # "idle" => worker[w].run \in Runs
      /\ firing # NoRun => firing \in Runs
  BY DEF TypeInv, TypeOK, WorkerHasRun
<1>1. /\ run[q].status \notin Active
      /\ run[q].status # "absent"
      /\ q \notin ActiveRuns
  BY DEF Terminal, Active, Waiting, ActiveRuns
<1>2. ASSUME NEW w \in Workers, WorkerStep(w) \/ renewRunLease(w)
      PROVE  Same
  <2>1. CASE Claim(w)
    BY <1>0, <1>1, <2>1 DEF Claim, Claimable, Active
  <2>2. CASE Start(w)
    BY <1>0, <1>1, <2>2 DEF Start, Active
  <2>3. CASE requeueComputerRun(w)
    BY <1>0, <1>1, <2>3 DEF requeueComputerRun, Holds, Active
  <2>4. CASE CreateAttempt(w) \/ LoseLease(w) \/ claimSteering(w)
    BY <2>4 DEF CreateAttempt, LoseLease, claimSteering
  <2>5. ASSUME NEW status \in Waiting, Pause(w, status) PROVE Same
    BY <1>0, <1>1, <2>5 DEF Pause, Holds, Active
  <2>6. ASSUME NEW outcome \in {"completed", "failed"}, Finalize(w, outcome) PROVE Same
    <3>1. q # worker[w].run
      BY <1>1, <2>6 DEF Finalize, Holds, Active
    <3>2. CASE \E ended, kept, free : createSteeringContinuation(worker[w].run, ended, kept, free)
      BY <1>0, <1>1, <3>1, <3>2 DEF createSteeringContinuation
    <3>3. CASE \E ended : run' = [run EXCEPT ![worker[w].run] = ended]
      BY <1>0, <3>1, <3>3
    <3> QED
      BY <2>6, <3>2, <3>3 DEF Finalize
  <2>7. CASE SetupFails(w)
    BY <1>0, <1>1, <2>7 DEF SetupFails, Holds, Active
  <2>8. CASE renewRunLease(w)
    BY <1>0, <1>1, <2>8 DEF renewRunLease, Holds, Active
  <2> QED
    BY <1>2, <2>1, <2>2, <2>3, <2>4, <2>5, <2>6, <2>7, <2>8
    DEF WorkerStep, pauseRunForInput, pauseRunForTakeover, Waiting, Complete, Fail
<1>3. ASSUME NEW w \in Workers, Crash(w) \/ \E r \in Runs : Dequeue(w, r)
      PROVE  Same
  BY <1>3 DEF Crash, Dequeue
<1>4. ASSUME NEW r \in Runs, Lapse(r) \/ reconcileOnce(r) \/ wakeRoutine(r)
      PROVE  Same
  BY <1>0, <1>1, <1>4 DEF Lapse, reconcileOnce, wakeRoutine, Active
<1>5. ASSUME NEW r \in Runs, UserStep(r) PROVE Same
  BY <1>0, <1>1, <1>5 DEF UserStep, SendToIdle, SendParallel, StartRun, Steer,
     answerRunInput, finalizeComputerControlRelease, Active, Waiting
<1>6. CASE WakeEnqueued \/ WakeUndone
  BY <1>0, <1>1, <1>6 DEF WakeEnqueued, WakeUndone, Active
<1>7. CASE stopThreadRuns \/ clearThread \/ RemovalReads
  BY <1>0, <1>1, <1>7 DEF stopThreadRuns, clearThread, Cancelled, RemovalReads, Run
<1>8. CASE RemovalCancels
  BY <1>0, <1>8 DEF RemovalCancels, Cancelled, Unleased, Run
<1>9. CASE UNCHANGED vars
  BY <1>9 DEF vars
<1> QED
  BY <1>2, <1>3, <1>4, <1>5, <1>6, <1>7, <1>8, <1>9 DEF Next

(* Outside groups nobody plans a removal. *)
NoRemoval == removal = {}

(* Outside groups no run is ever removed. *)
LEMMA NoRemovalStays == ASSUME ~GroupThread
                        PROVE  Spec => []NoRemoval
<1>1. Init => NoRemoval
  BY DEF Init, NoRemoval
<1>2. NoRemoval /\ [Next]_vars => NoRemoval'
  BY DEF NoRemoval, Next, vars, WorkerStep, UserStep, Claim, Start,
     requeueComputerRun, CreateAttempt, renewRunLease, LoseLease, claimSteering,
     pauseRunForInput, pauseRunForTakeover, Pause, Complete, Fail, Finalize,
     SetupFails, Crash, Dequeue, Lapse, reconcileOnce, wakeRoutine, WakeEnqueued,
     WakeUndone, SendToIdle, SendParallel, StartRun, Steer, answerRunInput,
     finalizeComputerControlRelease, stopThreadRuns, clearThread, RemovalReads,
     RemovalCancels
<1> QED
  BY <1>1, <1>2, PTL DEF Spec

(* In a thread that belongs to no group, completed, failed and cancelled   *)
(* are final, however workers, requests and the reconciler interleave.     *)
THEOREM TerminalStays == ASSUME ~GroupThread
                         PROVE  Spec => TerminalIsFinal
<1>1. TypeInv /\ NoRemoval /\ [Next]_vars =>
        [\A r \in Runs : run[r].status \in Terminal => run'[r].status = run[r].status]_vars
  BY EndedStays DEF NoRemoval
<1>2. Spec => []TypeInv
  BY TypeInit, TypeNext, PTL DEF Spec
<1> QED
  BY <1>1, <1>2, NoRemovalStays, PTL DEF Spec, TerminalIsFinal

-----------------------------------------------------------------------------
(* Attempts *)

(* An attempt is only ever ended from outside together with its run, and   *)
(* the run stays cancelled (or is deleted).                                *)
AttemptInv ==
  \A w \in Workers :
    Working(w) => \/ worker[w].attempt = "running"
                  \/ run[worker[w].run].status \in {"cancelled", "deleted"}

(* Every step keeps the attempt invariant. *)
LEMMA AttemptNext == TypeInv /\ AttemptInv /\ [Next]_vars => AttemptInv'
<1> SUFFICES ASSUME TypeInv, AttemptInv, [Next]_vars, NEW w \in Workers, Working(w)'
             PROVE  \/ worker'[w].attempt = "running"
                    \/ run'[worker'[w].run].status \in {"cancelled", "deleted"}
  BY DEF AttemptInv, Working
<1>0. /\ worker \in [Workers -> Worker]
      /\ run \in [Runs -> Run]
      /\ removal \in SUBSET Runs
      /\ \A v \in Workers : worker[v].pc # "idle" => worker[v].run \in Runs
  BY DEF TypeInv, TypeOK, WorkerHasRun
<1> DEFINE Kept == /\ Working(w)
                   /\ worker'[w].run = worker[w].run
                   /\ worker'[w].attempt = worker[w].attempt
<1>1. CASE Kept
  <2>1. CASE worker[w].attempt = "running"
    BY <1>1, <2>1
  <2>2. CASE run[worker[w].run].status \in {"cancelled", "deleted"}
    <3>1. worker[w].run \in Runs
      BY <1>0, <1>1 DEF Working
    <3> QED
      BY <1>1, <2>2, <3>1, EndedStays DEF Terminal
  <2> QED
    BY <1>1, <2>1, <2>2 DEF AttemptInv
<1>2. ASSUME NEW v \in Workers, Leave(v) PROVE Kept
  BY <1>0, <1>2 DEF Leave, Idle, Working
<1>3. ASSUME NEW v \in Workers,
             WorkerStep(v) \/ renewRunLease(v) \/ Crash(v) \/ \E r \in Runs : Dequeue(v, r)
      PROVE  Kept \/ worker'[w].attempt = "running"
  <2>1. CASE Claim(v) \/ Start(v)
    <3>1. \/ Leave(v)
          \/ worker' = [worker EXCEPT ![v].pc = "claimed"]
          \/ worker' = [worker EXCEPT ![v].pc = "started"]
      BY <2>1 DEF Claim, Start
    <3>2. CASE \E pc \in {"claimed", "started"} : worker' = [worker EXCEPT ![v].pc = pc]
      BY <1>0, <3>2 DEF Working, Worker
    <3> QED
      BY <1>2, <3>1, <3>2
  <2>2. CASE CreateAttempt(v)
    BY <1>0, <2>2 DEF CreateAttempt, Working
  <2>3. CASE claimSteering(v)
    BY <1>0, <2>3 DEF claimSteering, Working
  <2>4. CASE renewRunLease(v)
    BY <2>4 DEF renewRunLease, Working
  <2>5. CASE \E r \in Runs : Dequeue(v, r)
    BY <1>0, <2>5 DEF Dequeue, Working, Idle
  <2>6. CASE \/ requeueComputerRun(v) \/ LoseLease(v) \/ SetupFails(v) \/ Crash(v)
             \/ pauseRunForInput(v) \/ pauseRunForTakeover(v) \/ Complete(v) \/ Fail(v)
    <3>1. Leave(v)
      BY <2>6 DEF requeueComputerRun, LoseLease, pauseRunForInput,
         pauseRunForTakeover, Pause, Complete, Fail, Finalize, SetupFails, Crash
    <3> QED
      BY <1>2, <3>1
  <2> QED
    BY <1>3, <2>1, <2>2, <2>3, <2>4, <2>5, <2>6 DEF WorkerStep
<1>4. CASE UNCHANGED worker
  BY <1>1, <1>4 DEF Working
<1>5. ASSUME NEW rs \in SUBSET Runs, worker' = EndAttempts(rs)
      PROVE  /\ Working(w)
             /\ worker'[w].run = worker[w].run
             /\ worker'[w].attempt = worker[w].attempt \/ worker[w].run \in rs
  BY <1>0, <1>5 DEF EndAttempts, Working, Worker
<1>6. CASE clearThread \/ RemovalCancels
  <2>1. PICK rs \in SUBSET Runs :
          /\ worker' = EndAttempts(rs)
          /\ \A r \in rs : run'[r].status \in {"cancelled", "deleted"}
    <3>1. CASE clearThread
      <4>1. \A r \in ActiveRuns : run'[r].status = "cancelled"
        BY <1>0, <3>1 DEF clearThread, Cancelled, Unleased, ActiveRuns, Run
      <4> QED
        BY <3>1, <4>1 DEF clearThread, ActiveRuns
    <3>2. CASE RemovalCancels
      <4>1. ASSUME NEW r \in removal
            PROVE  run'[r].status \in {"cancelled", "deleted"}
        <5>1. r \in Runs
          BY <1>0
        <5>2. CASE run[r].status = "deleted"
          BY <3>2, <5>1, <5>2 DEF RemovalCancels, Cancelled
        <5>3. CASE run[r].status # "deleted"
          BY <1>0, <3>2, <5>1, <5>3 DEF RemovalCancels, Cancelled, Unleased, Run
        <5> QED
          BY <5>2, <5>3
      <4> QED
        BY <1>0, <3>2, <4>1 DEF RemovalCancels
    <3> QED
      BY <1>6, <3>1, <3>2
  <2> QED
    BY <1>1, <1>5, <2>1
<1>7. ASSUME NEW r \in Runs, Lapse(r) \/ reconcileOnce(r) \/ wakeRoutine(r) \/ UserStep(r)
      PROVE  UNCHANGED worker
  BY <1>7 DEF Lapse, reconcileOnce, wakeRoutine, UserStep, SendToIdle, SendParallel,
     StartRun, Steer, answerRunInput, finalizeComputerControlRelease
<1>8. CASE WakeEnqueued \/ WakeUndone \/ stopThreadRuns \/ RemovalReads \/ UNCHANGED vars
  BY <1>4, <1>8 DEF WakeEnqueued, WakeUndone, stopThreadRuns, RemovalReads, vars
<1> QED
  BY <1>1, <1>3, <1>4, <1>6, <1>7, <1>8 DEF Next

(* The two errors of pauses and finalizations about a missing attempt are  *)
(* unreachable, in groups and with shared worker ids too.                  *)
THEOREM AttemptsAvailable == Spec => []AttemptAvailable
<1>1. Init => AttemptInv
  BY DEF Init, AttemptInv, Working, Idle
<1>2. AttemptInv => AttemptAvailable
  BY DEF AttemptInv, AttemptAvailable, Holds
<1>3. Spec => []TypeInv
  BY TypeInit, TypeNext, PTL DEF Spec
<1> QED
  BY <1>1, <1>2, <1>3, AttemptNext, PTL DEF Spec

-----------------------------------------------------------------------------
(* Steering *)

SteeringInv == \A m \in rows : ~Stranded(m)

(* A step that keeps the rows where they are strands none, if active runs  *)
(* stay active and a routine that is due again either fires or stays due.  *)
ReadersKept ==
  /\ \A r \in Runs : run[r].status \in Active => run'[r].status \in Active
  /\ \A r \in Runs : run[r].status = "failed" =>
       run'[r].status = "failed" /\ run'[r].source = run[r].source
  /\ refire => refire' \/ ActiveRuns' # {}
  /\ UNCHANGED <<rows, attached>>

(* If every waiting message keeps a reader, the invariant is kept. *)
LEMMA ReadersKeptSuffice ==
  ASSUME TypeInv, SteeringInv, ReadersKept
  PROVE  SteeringInv'
<1> SUFFICES ASSUME NEW m \in rows, Stranded(m)' PROVE FALSE
  BY DEF SteeringInv, ReadersKept
<1>1. attached[m] \in Runs \cup {NoRun} /\ ~Stranded(m)
  BY DEF TypeInv, TypeOK, SteeringInv
<1>2. CASE attached[m] = NoRun
  BY <1>1, <1>2 DEF ReadersKept, Stranded, ActiveRuns
<1>3. CASE attached[m] # NoRun
  <2>1. attached[m] \in ActiveRuns \/ GivenUp(m)
    BY <1>1, <1>3 DEF Stranded
  <2>2. attached[m] \notin ActiveRuns' /\ ~GivenUp(m)'
    BY <1>3 DEF Stranded, ReadersKept
  <2> QED
    BY <1>1, <1>3, <2>1, <2>2 DEF ReadersKept, ActiveRuns, GivenUp
<1> QED
  BY <1>2, <1>3

(* A worker's step other than the end of its run keeps the readers. *)
LEMMA ReadersKeptByWorker ==
  ASSUME TypeInv, NEW w \in Workers,
         \/ Claim(w) \/ Start(w) \/ requeueComputerRun(w) \/ CreateAttempt(w)
         \/ renewRunLease(w) \/ LoseLease(w) \/ SetupFails(w) \/ Crash(w)
         \/ pauseRunForInput(w) \/ pauseRunForTakeover(w)
         \/ \E r \in Runs : Dequeue(w, r)
  PROVE  ReadersKept
<1>0. /\ run \in [Runs -> Run]
      /\ worker[w].pc # "idle" => worker[w].run \in Runs
      /\ "failed" \notin Active
  BY DEF TypeInv, TypeOK, WorkerHasRun, Active, Waiting
<1>1. CASE Claim(w)
  <2>1. CASE Claimable(worker[w].run)
    <3>0. /\ worker[w].run \in Runs
          /\ run[worker[w].run] \in Run
          /\ run[worker[w].run].status \in Active
      BY <1>0, <1>1, <2>1 DEF Claim, Claimable, Active
    <3>1. /\ run'[worker[w].run].status = "leased"
          /\ \A q \in Runs \ {worker[w].run} : run'[q] = run[q]
      <4> DEFINE row == [run[worker[w].run] EXCEPT
                          !.status = "leased", !.owner = OwnerOf[w],
                          !.fence = worker[w].fence, !.lease = "live",
                          !.checkpoint = "none"]
      <4>1. row.status = "leased"
        BY <3>0 DEF Run
      <4>2. run' = [run EXCEPT ![worker[w].run] = row]
        BY <1>1, <2>1 DEF Claim
      <4> QED
        BY <1>0, <3>0, <4>1, <4>2
    <3> QED
      BY <1>0, <1>1, <3>0, <3>1 DEF Claim, ReadersKept, Active, steering, routine
  <2>2. CASE ~Claimable(worker[w].run)
    BY <1>1, <2>2 DEF Claim, ReadersKept, steering, routine
  <2> QED
    BY <2>1, <2>2
<1>2. CASE Start(w)
  BY <1>0, <1>2 DEF Start, ReadersKept, Active, Run, steering, routine
<1>3. CASE requeueComputerRun(w)
  BY <1>0, <1>3 DEF requeueComputerRun, Unleased, Holds, ReadersKept, Active, Run,
     steering, routine
<1>4. CASE CreateAttempt(w) \/ LoseLease(w) \/ Crash(w) \/ \E r \in Runs : Dequeue(w, r)
  <2>1. UNCHANGED <<run, steering, refire>>
    BY <1>4 DEF CreateAttempt, LoseLease, Crash, Dequeue, routine
  <2> QED
    BY <2>1 DEF ReadersKept, steering
<1>5. CASE renewRunLease(w)
  BY <1>0, <1>5 DEF renewRunLease, Working, ReadersKept, Run, steering, routine
<1>6. CASE SetupFails(w)
  BY <1>0, <1>6 DEF SetupFails, Unleased, Holds, Working, ReadersKept, Active, Run,
     steering, routine
<1>7. ASSUME NEW status \in Waiting, Pause(w, status) PROVE ReadersKept
  BY <1>0, <1>7 DEF Pause, Unleased, Holds, ReadersKept, Active, Run, steering, routine
<1> QED
  BY <1>1, <1>2, <1>3, <1>4, <1>5, <1>6, <1>7
  DEF pauseRunForInput, pauseRunForTakeover, Waiting

(* A step outside the workers keeps the readers. *)
LEMMA ReadersKeptElsewhere ==
  ASSUME TypeInv, NEW r \in Runs,
         \/ Lapse(r) \/ reconcileOnce(r) \/ wakeRoutine(r) \/ WakeEnqueued
         \/ StartRun(r) \/ answerRunInput(r)
         \/ \E outcome \in Outcomes : finalizeComputerControlRelease(r, outcome)
  PROVE  ReadersKept
<1>0. /\ run \in [Runs -> Run]
      /\ "failed" \notin Active /\ "absent" \notin Active
  BY DEF TypeInv, TypeOK, Active, Waiting
<1>1. CASE Lapse(r)
  BY <1>0, <1>1 DEF Lapse, ReadersKept, Run, steering, routine
<1>2. CASE reconcileOnce(r) \/ WakeEnqueued
  BY <1>2 DEF reconcileOnce, WakeEnqueued, ReadersKept, steering, routine
<1>3. CASE wakeRoutine(r)
  <2>1. r \in ActiveRuns'
    BY <1>0, <1>3 DEF wakeRoutine, Queued, Absent, ActiveRuns, Active
  <2> QED
    BY <1>0, <1>3, <2>1 DEF wakeRoutine, ReadersKept, steering
<1>4. CASE StartRun(r)
  BY <1>0, <1>4 DEF StartRun, ReadersKept, steering, routine
<1>5. CASE answerRunInput(r)
  BY <1>0, <1>5 DEF answerRunInput, ReadersKept, Active, Run, steering, routine
<1>6. ASSUME NEW outcome \in Outcomes, finalizeComputerControlRelease(r, outcome)
      PROVE  ReadersKept
  <2>1. /\ run[r].status = "waiting_takeover"
        /\ run'[r].status = "queued"
        /\ \A q \in Runs \ {r} : run'[q] = run[q]
    <3> DEFINE row == [run[r] EXCEPT !.status = "queued", !.checkpoint = outcome]
    <3>1. run[r] \in Run
      BY <1>0
    <3>2. row.status = "queued"
      BY <3>1 DEF Run
    <3>3. run' = [run EXCEPT ![r] = row] /\ run[r].status = "waiting_takeover"
      BY <1>0, <3>1, <1>6 DEF finalizeComputerControlRelease
    <3> QED
      BY <1>0, <3>2, <3>3
  <2> QED
    BY <1>0, <1>6, <2>1 DEF finalizeComputerControlRelease, ReadersKept, Active,
       steering, routine
<1> QED
  BY <1>1, <1>2, <1>3, <1>4, <1>5, <1>6

(* A run that ends either deletes its rows, hands them to a run of their   *)
(* own, leaves them to another active run, or gives up on its source.      *)
LEMMA FinalizeKeepsSteering ==
  ASSUME TypeInv, SteeringInv, NEW w \in Workers, NEW outcome \in {"completed", "failed"},
         Finalize(w, outcome)
  PROVE  SteeringInv'
<1> DEFINE r        == worker[w].run
           ended    == Unleased(run[r], outcome)
           kept     == rows \ Deleted(w, outcome)
           released == Released(w, outcome)
           free     == released \cup {m \in kept : attached[m] = NoRun}
<1>0. /\ run \in [Runs -> Run]
      /\ rows \subseteq Seqs
      /\ attached \in [Seqs -> Runs \cup {NoRun}]
      /\ r \in Runs
      /\ run[r] \in Run
      /\ run[r].status = "running"
      /\ rows' = kept
      /\ NoRun \notin Runs
  BY DEF TypeInv, TypeOK, WorkerHasRun, Finalize, Working, Holds
<1>1. /\ ended.status = outcome
      /\ ended.source = run[r].source
  BY <1>0 DEF Unleased, Run
<1>2. /\ kept \subseteq rows
      /\ free \subseteq kept
  BY DEF Released
(* What becomes of a row attached to another run, or to r and not let go.  *)
<1>3. ASSUME NEW m \in kept, attached[m] \in Runs,
             m \notin released,
             run'[r] = ended,
             \A q \in Runs \ {r} : run[q].status # "absent" => run'[q] = run[q],
             attached'[m] = attached[m]
      PROVE  ~Stranded(m)'
  <2>1. CASE attached[m] = r
    <3>1. outcome = "failed" /\ ~(m > run[r].source)
      BY <1>2, <1>3, <2>1 DEF Released
    <3>2. m \in Nat /\ run[r].source \in Nat
      BY <1>0, <1>2, <1>3 DEF Seqs, Run
    <3>3. m <= run[r].source
      BY <3>1, <3>2
    <3>4. GivenUp(m)'
      BY <1>0, <1>1, <1>3, <2>1, <3>1, <3>3 DEF GivenUp
    <3> QED
      BY <1>0, <1>3, <3>4 DEF Stranded
  <2>2. CASE attached[m] # r
    <3>1. attached[m] \in ActiveRuns \/ GivenUp(m)
      BY <1>0, <1>2, <1>3 DEF SteeringInv, Stranded
    <3>2. run'[attached[m]] = run[attached[m]]
      BY <1>3, <2>2, <3>1 DEF ActiveRuns, Active, Waiting, GivenUp
    <3> QED
      BY <1>0, <1>3, <3>1, <3>2 DEF Stranded, ActiveRuns, GivenUp
  <2> QED
    BY <2>1, <2>2
<1>4. CASE createSteeringContinuation(r, ended, kept, free)
  <2>1. PICK c \in Runs, last \in free :
          /\ run[c].status = "absent"
          /\ run' = [run EXCEPT ![r] = ended, ![c] = Queued(last, FALSE)]
          /\ attached' = Reattach(kept, free, c)
    BY <1>4 DEF createSteeringContinuation
  <2>2. c # r /\ run'[r] = ended /\ run'[c].status = "queued"
        /\ \A q \in Runs \ {r} : run[q].status # "absent" => run'[q] = run[q]
    BY <1>0, <2>1 DEF Queued, Absent
  <2>3. ASSUME NEW m \in kept PROVE ~Stranded(m)'
    <3>0. m \in Seqs
      BY <1>0, <1>2
    <3>1. CASE m \in free
      BY <1>0, <2>1, <2>2, <3>0, <3>1 DEF Reattach, Stranded, ActiveRuns, Active
    <3>2. CASE m \notin free
      <4>1. attached'[m] = attached[m] /\ attached[m] \in Runs /\ m \notin released
        BY <1>0, <2>1, <3>0, <3>2 DEF Reattach
      <4> QED
        BY <1>3, <2>2, <4>1
    <3> QED
      BY <3>1, <3>2
  <2> QED
    BY <1>0, <2>3 DEF SteeringInv
<1>5. CASE /\ ActiveRuns # {r} \/ free = {}
           /\ run' = [run EXCEPT ![r] = ended]
           /\ attached' = Reattach(kept, released, NoRun)
  <2>1. run'[r] = ended /\ \A q \in Runs \ {r} : run'[q] = run[q]
    BY <1>0, <1>5
  <2>2. ASSUME NEW m \in kept PROVE ~Stranded(m)'
    <3>0. m \in Seqs
      BY <1>0, <1>2
    <3>1. CASE m \in free
      <4>1. PICK q \in ActiveRuns : q # r
        BY <1>0, <1>5, <3>1 DEF ActiveRuns, Active
      <4>2. q \in ActiveRuns'
        BY <2>1, <4>1 DEF ActiveRuns
      <4>3. attached'[m] = NoRun
        BY <1>5, <3>0, <3>1 DEF Reattach
      <4> QED
        BY <4>2, <4>3 DEF Stranded
    <3>2. CASE m \notin free
      <4>1. attached'[m] = attached[m] /\ attached[m] \in Runs /\ m \notin released
        BY <1>0, <1>5, <3>0, <3>2 DEF Reattach
      <4> QED
        BY <1>3, <2>1, <4>1
    <3> QED
      BY <3>1, <3>2
  <2> QED
    BY <1>0, <2>2 DEF SteeringInv
<1> QED
  BY <1>4, <1>5 DEF Finalize

(* Every step keeps the steering invariant. *)
LEMMA SteeringNext == TypeInv /\ NoRemoval /\ ~GroupThread /\ SteeringInv /\ [Next]_vars
                        => SteeringInv'
<1> SUFFICES ASSUME TypeInv, NoRemoval, ~GroupThread, SteeringInv, [Next]_vars
             PROVE  SteeringInv'
  OBVIOUS
<1>0. /\ run \in [Runs -> Run]
      /\ attached \in [Seqs -> Runs \cup {NoRun}]
      /\ rows \subseteq Seqs
      /\ NoRun \notin Runs
  BY DEF TypeInv, TypeOK
<1>1. ASSUME NEW w \in Workers, claimSteering(w) PROVE SteeringInv'
  <2>1. worker[w].run \in ActiveRuns /\ worker[w].run # NoRun
    BY <1>0, <1>1 DEF claimSteering, Holds, ActiveRuns, Active
  <2>2. ASSUME NEW m \in rows PROVE ~Stranded(m)'
    BY <1>0, <1>1, <2>1, <2>2 DEF claimSteering, SteeringInv, Stranded, ActiveRuns,
       GivenUp, routine
  <2> QED
    BY <1>1, <2>2 DEF claimSteering, SteeringInv
<1>2. ASSUME NEW r \in Runs, Steer(r) PROVE SteeringInv'
  <2>1. nextSeq \in Seqs
    BY <1>2 DEF Steer, TypeInv, TypeOK, Seqs
  <2>2. ASSUME NEW m \in rows' PROVE ~Stranded(m)'
    BY <1>0, <1>2, <2>1, <2>2 DEF Steer, SteeringInv, Stranded, ActiveRuns,
       GivenUp, routine
  <2> QED
    BY <2>2 DEF SteeringInv
<1>3. CASE WakeUndone
  <2>1. ASSUME NEW m \in rows PROVE ~Stranded(m)'
    <3>0. m \in Seqs /\ ~Stranded(m)
      BY <1>0 DEF SteeringInv
    <3>1. CASE attached'[m] = NoRun
      BY <1>3, <3>1 DEF WakeUndone, Stranded
    <3>2. CASE attached'[m] # NoRun
      <4>1. attached'[m] = attached[m] /\ run'[attached[m]] = run[attached[m]]
        BY <1>0, <1>3, <3>0, <3>2 DEF WakeUndone
      <4> QED
        BY <1>0, <3>0, <3>2, <4>1 DEF Stranded, ActiveRuns, GivenUp
    <3> QED
      BY <3>1, <3>2
  <2> QED
    BY <1>3, <2>1 DEF WakeUndone, SteeringInv
<1>4. CASE stopThreadRuns \/ clearThread
  BY <1>4 DEF stopThreadRuns, clearThread, SteeringInv
<1>5. ~RemovalReads /\ ~RemovalCancels
  BY DEF RemovalReads, RemovalCancels, NoRemoval
<1>6. CASE UNCHANGED vars
  BY <1>6 DEF vars, SteeringInv, Stranded, ActiveRuns, GivenUp
<1>7. ASSUME NEW w \in Workers,
             WorkerStep(w) \/ renewRunLease(w) \/ Crash(w) \/ \E r \in Runs : Dequeue(w, r)
      PROVE  SteeringInv'
  <2>1. CASE Complete(w) \/ Fail(w)
    BY <2>1, FinalizeKeepsSteering DEF Complete, Fail
  <2>2. CASE claimSteering(w)
    BY <1>1, <2>2
  <2> QED
    BY <1>7, <2>1, <2>2, ReadersKeptByWorker, ReadersKeptSuffice DEF WorkerStep
<1>8. ASSUME NEW r \in Runs, Lapse(r) \/ reconcileOnce(r) \/ wakeRoutine(r) \/ UserStep(r)
      PROVE  SteeringInv'
  <2>1. CASE Steer(r)
    BY <1>2, <2>1
  <2>2. {"takeover", "takeover-skipped"} \subseteq Outcomes
    BY DEF Outcomes
  <2> QED
    BY <1>8, <2>1, <2>2, ReadersKeptElsewhere, ReadersKeptSuffice
    DEF UserStep, SendToIdle, SendParallel
<1>9. CASE WakeEnqueued
  <2>1. firing \in Runs
    BY <1>9 DEF WakeEnqueued, TypeInv, TypeOK
  <2> QED
    BY <1>9, <2>1, ReadersKeptElsewhere, ReadersKeptSuffice
<1> QED
  BY <1>3, <1>4, <1>5, <1>6, <1>7, <1>8, <1>9 DEF Next

(* Whatever fails, is requeued or ends, a follow-up keeps a reader: an     *)
(* active run that is offered it, or a routine that is due again.          *)
THEOREM SteeringNeverStranded == Spec => []NoStrandedSteering
<1>1. CASE GroupThread
  <2>1. NoStrandedSteering
    BY <1>1 DEF NoStrandedSteering
  <2> QED
    BY <2>1, PTL
<1>2. CASE ~GroupThread
  <2>1. Init => SteeringInv
    BY DEF Init, SteeringInv
  <2>2. TypeInv /\ NoRemoval /\ SteeringInv /\ [Next]_vars => SteeringInv'
    BY <1>2, SteeringNext
  <2>3. SteeringInv => NoStrandedSteering
    BY DEF SteeringInv, NoStrandedSteering
  <2>4. Spec => []TypeInv
    BY TypeInit, TypeNext, PTL DEF Spec
  <2>5. Spec => []NoRemoval
    BY <1>2, NoRemovalStays
  <2> QED
    BY <2>1, <2>2, <2>3, <2>4, <2>5, PTL DEF Spec
<1> QED
  BY <1>1, <1>2

-----------------------------------------------------------------------------
(* What a worker was given *)

(* Steering rows are of messages that have been sent in the thread itself. *)
RowsAreSteered == rows \subseteq {m \in Seqs \ ChannelSeqs : m < nextSeq}

(* A row is claimed for a run that is there and is given the thread's      *)
(* messages, or was let go of.                                             *)
ClaimsArePlain ==
  \A m \in claimed : attached[m] # NoRun =>
    run[attached[m]].status # "absent" /\ ~run[attached[m]].channel

(* What the table says a run has claimed its worker has been given, as     *)
(* long as the worker's writes would succeed.                              *)
GivenWhatIsClaimed ==
  \A w \in Workers : worker[w].pc = "turn" /\ Holds(w) =>
    \A m \in claimed : attached[m] = worker[w].run => m \in worker[w].seen

GivenInv == RowsAreSteered /\ ClaimsArePlain /\ GivenWhatIsClaimed

(* No two workers pass the same workerId. *)
EachItsOwnProcess == \A v, w \in Workers : OwnerOf[v] = OwnerOf[w] => v = w

(* A run that is there stays there, and does not become a channel's. *)
PlainKept ==
  \A r \in Runs : run[r].status # "absent" =>
    run'[r].status # "absent" /\ (~run[r].channel => ~run'[r].channel)

(* One row written over a run's keeps it there. *)
LEMMA PlainWrite ==
  ASSUME run \in [Runs -> Run], NEW r \in Runs, NEW row,
         run' = [run EXCEPT ![r] = row],
         run[r].status # "absent" =>
           row.status # "absent" /\ (~run[r].channel => ~row.channel)
  PROVE  PlainKept
BY DEF PlainKept

(* No step takes a run away. *)
LEMMA PlainStays ==
  ASSUME TypeInv, [Next]_vars
  PROVE  PlainKept
<1>0. /\ run \in [Runs -> Run]
      /\ \A w \in Workers : worker[w].pc # "idle" => worker[w].run \in Runs
      /\ firing # NoRun => firing \in Runs
  BY DEF TypeInv, TypeOK, WorkerHasRun
<1>1. ASSUME NEW r \in Runs, NEW status \in Statuses \ {"absent"}
      PROVE  /\ Unleased(run[r], status).status = status
             /\ Unleased(run[r], status).channel = run[r].channel
  BY <1>0 DEF Unleased, Run
<1>2. CASE UNCHANGED run
  BY <1>2 DEF PlainKept
<1>3. ASSUME NEW w \in Workers, Claim(w) PROVE PlainKept
  <2>1. CASE Claimable(worker[w].run)
    <3> DEFINE row == [run[worker[w].run] EXCEPT
                        !.status = "leased", !.owner = OwnerOf[w],
                        !.fence = worker[w].fence, !.lease = "live",
                        !.checkpoint = "none"]
    <3>1. worker[w].run \in Runs /\ run[worker[w].run] \in Run
      BY <1>0, <1>3 DEF Claim
    <3>2. row.status = "leased" /\ row.channel = run[worker[w].run].channel
      BY <3>1 DEF Run
    <3>3. run' = [run EXCEPT ![worker[w].run] = row]
      BY <1>3, <2>1 DEF Claim
    <3> QED
      BY <1>0, <3>1, <3>2, <3>3, PlainWrite
  <2> QED
    BY <1>2, <1>3, <2>1 DEF Claim
<1>4. ASSUME NEW w \in Workers, Start(w) PROVE PlainKept
  BY <1>0, <1>4 DEF Start, PlainKept, Run
<1>5. ASSUME NEW w \in Workers, requeueComputerRun(w) \/ SetupFails(w) PROVE PlainKept
  <2> DEFINE row == [Unleased(run[worker[w].run], "queued") EXCEPT
                      !.checkpoint = worker[w].checkpoint]
  <2>1. worker[w].run \in Runs /\ run[worker[w].run] \in Run
    BY <1>0, <1>5 DEF requeueComputerRun, SetupFails, Working
  <2>2. row.status = "queued" /\ row.channel = run[worker[w].run].channel
    BY <2>1 DEF Unleased, Run
  <2>3. UNCHANGED run \/ run' = [run EXCEPT ![worker[w].run] = row]
    BY <1>5 DEF requeueComputerRun, SetupFails
  <2> QED
    BY <1>0, <1>2, <2>1, <2>2, <2>3, PlainWrite
<1>6. ASSUME NEW w \in Workers, renewRunLease(w) PROVE PlainKept
  BY <1>0, <1>6 DEF renewRunLease, Working, PlainKept, Run
<1>7. ASSUME NEW w \in Workers, NEW status \in Waiting, Pause(w, status) PROVE PlainKept
  <2>1. worker[w].run \in Runs /\ status \in Statuses \ {"absent"}
    BY <1>0, <1>7 DEF Pause, Waiting, Statuses, Active
  <2> QED
    BY <1>0, <1>1, <1>7, <2>1, PlainWrite DEF Pause
<1>8. ASSUME NEW w \in Workers, NEW outcome \in {"completed", "failed"}, Finalize(w, outcome)
      PROVE  PlainKept
  <2> DEFINE r     == worker[w].run
             ended == Unleased(run[r], outcome)
  <2>1. r \in Runs /\ outcome \in Statuses \ {"absent"} /\ run[r].status = "running"
    BY <1>0, <1>8 DEF Finalize, Working, Holds, Statuses, Terminal
  <2>2. ended.status = outcome /\ ended.channel = run[r].channel
    BY <1>1, <2>1
  <2>3. \/ \E c \in Runs : \E last :
             run[c].status = "absent"
             /\ run' = [run EXCEPT ![r] = ended, ![c] = Queued(last, FALSE)]
        \/ run' = [run EXCEPT ![r] = ended]
    BY <1>8 DEF Finalize, createSteeringContinuation
  <2> QED
    BY <1>0, <2>1, <2>2, <2>3 DEF PlainKept
<1>9. ASSUME NEW r \in Runs, Lapse(r) \/ answerRunInput(r) PROVE PlainKept
  BY <1>0, <1>9 DEF Lapse, answerRunInput, PlainKept, Run
<1>10. ASSUME NEW r \in Runs, wakeRoutine(r) \/ StartRun(r) PROVE PlainKept
  BY <1>0, <1>10 DEF wakeRoutine, StartRun, PlainKept
<1>11. ASSUME NEW r \in Runs, NEW outcome, finalizeComputerControlRelease(r, outcome)
       PROVE  PlainKept
  <2> DEFINE row == [run[r] EXCEPT !.status = "queued", !.checkpoint = outcome]
  <2>1. run[r] \in Run
    BY <1>0
  <2>2. row.status = "queued" /\ row.channel = run[r].channel
    BY <2>1 DEF Run
  <2>3. run' = [run EXCEPT ![r] = row]
    BY <1>0, <1>11, <2>1 DEF finalizeComputerControlRelease
  <2> QED
    BY <1>0, <2>2, <2>3, PlainWrite
<1>12. CASE WakeUndone
  <2>1. /\ [Absent EXCEPT !.status = "deleted"].status = "deleted"
        /\ ~[Absent EXCEPT !.status = "deleted"].channel
    BY DEF Absent
  <2> QED
    BY <1>0, <1>2, <1>12, <2>1, PlainWrite DEF WakeUndone
<1>13. CASE stopThreadRuns
  BY <1>0, <1>13 DEF stopThreadRuns, PlainKept, Run
<1>14. ASSUME NEW rs \in SUBSET Runs, NEW r \in Runs
       PROVE  /\ Cancelled(rs)[r] \in Run
              /\ run[r].status # "absent" => Cancelled(rs)[r].status # "absent"
              /\ Cancelled(rs)[r].channel = run[r].channel
  <2>1. Cancelled(rs)[r] \in Run
    BY <1>0, CancelledType
  <2> QED
    BY <1>1, <2>1 DEF Cancelled, Statuses, Terminal
<1>15. CASE clearThread
  <2>1. ASSUME NEW r \in Runs
        PROVE  run'[r] = [Cancelled(ActiveRuns)[r] EXCEPT !.source = 0]
    BY <1>15 DEF clearThread
  <2>2. ASSUME NEW r \in Runs
        PROVE  /\ run'[r].status = Cancelled(ActiveRuns)[r].status
               /\ run'[r].channel = Cancelled(ActiveRuns)[r].channel
    <3>1. Cancelled(ActiveRuns)[r] \in Run
      BY <1>14 DEF ActiveRuns
    <3> QED
      BY <2>1, <3>1 DEF Run
  <2> QED
    BY <1>14, <2>2 DEF PlainKept, ActiveRuns
<1>16. CASE RemovalCancels
  <2>1. PICK rs \in SUBSET Runs : run' = Cancelled(rs)
    BY <1>16 DEF RemovalCancels, TypeInv, TypeOK
  <2> QED
    BY <1>14, <2>1 DEF PlainKept
<1>17. ASSUME NEW w \in Workers,
              CreateAttempt(w) \/ LoseLease(w) \/ claimSteering(w) \/ Crash(w)
                \/ \E r \in Runs : Dequeue(w, r)
       PROVE  UNCHANGED run
  BY <1>17 DEF CreateAttempt, LoseLease, claimSteering, Crash, Dequeue
<1>18. ASSUME NEW r \in Runs, reconcileOnce(r) \/ Steer(r) PROVE UNCHANGED run
  BY <1>18 DEF reconcileOnce, Steer
<1>19. CASE WakeEnqueued \/ RemovalReads \/ UNCHANGED vars
  BY <1>2, <1>19 DEF WakeEnqueued, RemovalReads, vars
<1>20. ASSUME NEW w \in Workers,
              WorkerStep(w) \/ renewRunLease(w) \/ Crash(w) \/ \E r \in Runs : Dequeue(w, r)
       PROVE  PlainKept
  BY <1>2, <1>3, <1>4, <1>5, <1>6, <1>7, <1>8, <1>17, <1>20
  DEF WorkerStep, Complete, Fail, pauseRunForInput, pauseRunForTakeover, Waiting
<1>21. ASSUME NEW r \in Runs, Lapse(r) \/ reconcileOnce(r) \/ wakeRoutine(r) \/ UserStep(r)
       PROVE  PlainKept
  BY <1>2, <1>9, <1>10, <1>11, <1>18, <1>21 DEF UserStep, SendToIdle, SendParallel
<1> QED
  BY <1>12, <1>13, <1>15, <1>16, <1>19, <1>20, <1>21 DEF Next

(* What is claimed was, for the same run or let go of. *)
ClaimsKept == \A m \in claimed' : m \in claimed /\ attached'[m] \in {attached[m], NoRun}

(* Only a worker that claims steering claims a row. *)
LEMMA ClaimsElsewhere ==
  ASSUME TypeInv, RowsAreSteered, [Next]_vars, \A v \in Workers : ~claimSteering(v)
  PROVE  ClaimsKept
<1>0. /\ claimed \subseteq rows /\ rows \subseteq Seqs
      /\ attached \in [Seqs -> Runs \cup {NoRun}]
  BY DEF TypeInv, TypeOK
<1>1. CASE UNCHANGED steering
  BY <1>1 DEF steering, ClaimsKept
<1>2. ASSUME NEW w \in Workers, NEW outcome, Finalize(w, outcome)
      PROVE  ClaimsKept
  <2> DEFINE r        == worker[w].run
             ended    == Unleased(run[r], outcome)
             kept     == rows \ Deleted(w, outcome)
             released == Released(w, outcome)
             free     == released \cup {m \in kept : attached[m] = NoRun}
  <2>1. CASE createSteeringContinuation(r, ended, kept, free)
    <3>1. PICK c \in Runs : attached' = Reattach(kept, free, c)
      BY <2>1 DEF createSteeringContinuation
    <3>2. claimed' = (claimed \cap kept) \ free
      BY <2>1 DEF createSteeringContinuation
    <3> QED
      BY <1>0, <3>1, <3>2 DEF ClaimsKept, Reattach
  <2>2. CASE attached' = Reattach(kept, released, NoRun) /\ claimed' = claimed \cap kept
    BY <1>0, <2>2 DEF ClaimsKept, Reattach
  <2> QED
    BY <1>2, <2>1, <2>2 DEF Finalize
<1>3. ASSUME NEW r \in Runs, Steer(r) PROVE ClaimsKept
  <2>1. nextSeq \notin claimed
    BY <1>0 DEF RowsAreSteered, TypeInv, TypeOK
  <2> QED
    BY <1>0, <1>3, <2>1 DEF Steer, ClaimsKept
<1>4. CASE WakeUndone
  BY <1>0, <1>4 DEF WakeUndone, ClaimsKept
<1>5. CASE stopThreadRuns \/ clearThread
  BY <1>5 DEF stopThreadRuns, clearThread, ClaimsKept
<1>6. ASSUME NEW w \in Workers,
             WorkerStep(w) \/ renewRunLease(w) \/ Crash(w) \/ \E r \in Runs : Dequeue(w, r),
             ~claimSteering(w)
      PROVE  ClaimsKept
  BY <1>1, <1>2, <1>6
  DEF WorkerStep, Claim, Start, requeueComputerRun, CreateAttempt, renewRunLease, LoseLease,
      pauseRunForInput, pauseRunForTakeover, Pause, Complete, Fail, SetupFails, Crash, Dequeue
<1>7. ASSUME NEW r \in Runs, Lapse(r) \/ reconcileOnce(r) \/ wakeRoutine(r) \/ UserStep(r)
      PROVE  ClaimsKept
  BY <1>1, <1>3, <1>7
  DEF Lapse, reconcileOnce, wakeRoutine, UserStep, SendToIdle, SendParallel, StartRun,
      answerRunInput, finalizeComputerControlRelease, steering
<1>8. CASE WakeEnqueued \/ RemovalReads \/ RemovalCancels \/ UNCHANGED vars
  BY <1>1, <1>8 DEF WakeEnqueued, RemovalReads, RemovalCancels, vars, steering
<1> QED
  BY <1>4, <1>5, <1>6, <1>7, <1>8 DEF Next

(* Rows are made by follow-ups sent in the thread. *)
LEMMA RowsNext ==
  ASSUME TypeInv, RowsAreSteered, [Next]_vars
  PROVE  RowsAreSteered'
<1>0. rows \subseteq Seqs /\ nextSeq \in Nat
  BY DEF TypeInv, TypeOK
<1>1. CASE rows' \subseteq rows /\ nextSeq' \in {nextSeq, nextSeq + 1}
  <2>1. ASSUME NEW m \in rows' PROVE m \in Seqs \ ChannelSeqs /\ m < nextSeq'
    <3>1. m \in Seqs \ ChannelSeqs /\ m < nextSeq /\ m \in Nat
      BY <1>1, <2>1 DEF RowsAreSteered, Seqs
    <3> QED
      BY <1>0, <1>1, <3>1
  <2> QED
    BY <2>1 DEF RowsAreSteered
<1>2. ASSUME NEW r \in Runs, Steer(r) PROVE RowsAreSteered'
  <2>1. nextSeq \in Seqs \ ChannelSeqs /\ rows' = rows \cup {nextSeq} /\ nextSeq' = nextSeq + 1
    BY <1>2 DEF Steer, TypeInv, TypeOK, Seqs
  <2>2. ASSUME NEW m \in rows PROVE m \in Seqs \ ChannelSeqs /\ m < nextSeq + 1
    <3>1. m \in Seqs \ ChannelSeqs /\ m < nextSeq /\ m \in Nat
      BY <2>2 DEF RowsAreSteered, Seqs
    <3> QED
      BY <1>0, <3>1
  <2> QED
    BY <1>0, <2>1, <2>2 DEF RowsAreSteered
<1>3. CASE UNCHANGED <<rows, nextSeq>>
  BY <1>1, <1>3
<1>4. ASSUME NEW w \in Workers, NEW outcome, Finalize(w, outcome) PROVE RowsAreSteered'
  BY <1>1, <1>4 DEF Finalize
<1>5. ASSUME NEW w \in Workers,
             WorkerStep(w) \/ renewRunLease(w) \/ Crash(w) \/ \E r \in Runs : Dequeue(w, r)
      PROVE  RowsAreSteered'
  BY <1>3, <1>4, <1>5
  DEF WorkerStep, Claim, Start, requeueComputerRun, CreateAttempt, renewRunLease, LoseLease,
      claimSteering, pauseRunForInput, pauseRunForTakeover, Pause, Complete, Fail, SetupFails,
      Crash, Dequeue, steering
<1>6. ASSUME NEW r \in Runs, StartRun(r) PROVE RowsAreSteered'
  BY <1>1, <1>6 DEF StartRun, steering
<1>7. ASSUME NEW r \in Runs, Lapse(r) \/ reconcileOnce(r) \/ wakeRoutine(r) \/ UserStep(r)
      PROVE  RowsAreSteered'
  BY <1>2, <1>3, <1>6, <1>7
  DEF Lapse, reconcileOnce, wakeRoutine, UserStep, SendToIdle, SendParallel,
      answerRunInput, finalizeComputerControlRelease, steering
<1>8. CASE stopThreadRuns \/ clearThread \/ WakeUndone
  BY <1>1, <1>8 DEF stopThreadRuns, clearThread, WakeUndone
<1>9. CASE WakeEnqueued \/ RemovalReads \/ RemovalCancels \/ UNCHANGED vars
  BY <1>3, <1>9 DEF WakeEnqueued, RemovalReads, RemovalCancels, vars, steering
<1> QED
  BY <1>5, <1>7, <1>8, <1>9 DEF Next

(* A run is running in the hands it was in, unless it was just started. *)
LEMMA StartedByHolder ==
  ASSUME TypeInv, [Next]_vars, NEW r \in Runs, run'[r].status = "running"
  PROVE  \/ /\ run[r].status = "running"
            /\ run'[r].owner = run[r].owner
            /\ run'[r].fence = run[r].fence
         \/ \E v \in Workers : Start(v) /\ worker[v].run = r /\ run'[r].owner = OwnerOf[v]
<1> DEFINE Same == /\ run[r].status = "running"
                   /\ run'[r].owner = run[r].owner
                   /\ run'[r].fence = run[r].fence
           Starts == \E v \in Workers : /\ Start(v)
                                         /\ worker[v].run = r
                                         /\ run'[r].owner = OwnerOf[v]
<1>0. /\ run \in [Runs -> Run]
      /\ \A w \in Workers : worker[w].pc # "idle" => worker[w].run \in Runs
      /\ firing # NoRun => firing \in Runs
  BY DEF TypeInv, TypeOK, WorkerHasRun
<1>1. ASSUME NEW q \in Runs, NEW status
      PROVE  Unleased(run[q], status).status = status
  BY <1>0 DEF Unleased, Run
<1>2. CASE run'[r] = run[r]
  BY <1>2
<1>3. ASSUME NEW q \in Runs, NEW row, run' = [run EXCEPT ![q] = row], row.status # "running"
      PROVE  Same
  <2>1. q # r
    BY <1>0, <1>3
  <2> QED
    BY <1>0, <1>2, <1>3, <2>1
<1>4. ASSUME NEW w \in Workers, Claim(w) PROVE Same
  <2>1. CASE Claimable(worker[w].run)
    <3> DEFINE row == [run[worker[w].run] EXCEPT
                        !.status = "leased", !.owner = OwnerOf[w],
                        !.fence = worker[w].fence, !.lease = "live",
                        !.checkpoint = "none"]
    <3>1. worker[w].run \in Runs /\ run[worker[w].run] \in Run
      BY <1>0, <1>4 DEF Claim
    <3>2. row.status = "leased"
      BY <3>1 DEF Run
    <3>3. run' = [run EXCEPT ![worker[w].run] = row]
      BY <1>4, <2>1 DEF Claim
    <3> QED
      BY <1>3, <3>1, <3>2, <3>3
  <2> QED
    BY <1>2, <1>4, <2>1 DEF Claim
<1>5. ASSUME NEW w \in Workers, Start(w) PROVE Same \/ Starts
  <2>1. CASE UNCHANGED run
    BY <1>2, <2>1
  <2>2. CASE /\ run[worker[w].run].owner = OwnerOf[w]
             /\ run' = [run EXCEPT ![worker[w].run].status = "running"]
    <3>1. worker[w].run \in Runs /\ run[worker[w].run] \in Run
      BY <1>0, <1>5 DEF Start
    <3>2. CASE worker[w].run = r
      BY <1>0, <1>5, <2>2, <3>1, <3>2 DEF Run
    <3>3. CASE worker[w].run # r
      BY <1>0, <1>2, <2>2, <3>1, <3>3
    <3> QED
      BY <3>2, <3>3
  <2> QED
    BY <1>5, <2>1, <2>2 DEF Start
<1>6. ASSUME NEW w \in Workers, requeueComputerRun(w) \/ SetupFails(w) PROVE Same
  <2> DEFINE row == [Unleased(run[worker[w].run], "queued") EXCEPT
                      !.checkpoint = worker[w].checkpoint]
  <2>1. worker[w].run \in Runs /\ run[worker[w].run] \in Run
    BY <1>0, <1>6 DEF requeueComputerRun, SetupFails, Working
  <2>2. row.status = "queued"
    BY <2>1 DEF Unleased, Run
  <2>3. UNCHANGED run \/ run' = [run EXCEPT ![worker[w].run] = row]
    BY <1>6 DEF requeueComputerRun, SetupFails
  <2> QED
    BY <1>2, <1>3, <2>1, <2>2, <2>3
<1>7. ASSUME NEW w \in Workers, renewRunLease(w) PROVE Same
  BY <1>0, <1>7 DEF renewRunLease, Working, Run
<1>8. ASSUME NEW w \in Workers, NEW status \in Waiting, Pause(w, status) PROVE Same
  <2>1. worker[w].run \in Runs /\ status # "running"
    BY <1>0, <1>8 DEF Pause, Waiting
  <2> QED
    BY <1>1, <1>3, <1>8, <2>1 DEF Pause
<1>9. ASSUME NEW w \in Workers, NEW outcome \in {"completed", "failed"}, Finalize(w, outcome)
      PROVE  Same
  <2> DEFINE ended == Unleased(run[worker[w].run], outcome)
  <2>1. worker[w].run \in Runs /\ ended.status # "running"
    BY <1>0, <1>1, <1>9 DEF Finalize, Working
  <2>2. ASSUME NEW c \in Runs, NEW last,
               run' = [run EXCEPT ![worker[w].run] = ended, ![c] = Queued(last, FALSE)]
        PROVE  Same
    <3>1. Queued(last, FALSE).status = "queued"
      BY DEF Queued, Absent
    <3>2. r # c
      BY <1>0, <2>2, <3>1
    <3>3. r # worker[w].run
      BY <1>0, <2>1, <2>2, <3>1
    <3> QED
      BY <1>0, <1>2, <2>2, <3>2, <3>3
  <2>3. \/ \E c \in Runs : \E last :
             run' = [run EXCEPT ![worker[w].run] = ended, ![c] = Queued(last, FALSE)]
        \/ run' = [run EXCEPT ![worker[w].run] = ended]
    BY <1>9 DEF Finalize, createSteeringContinuation
  <2> QED
    BY <1>3, <2>1, <2>2, <2>3
<1>10. ASSUME NEW q \in Runs, Lapse(q) \/ answerRunInput(q) PROVE Same
  BY <1>0, <1>10 DEF Lapse, answerRunInput, Run
<1>11. ASSUME NEW q \in Runs, wakeRoutine(q) \/ StartRun(q) PROVE Same
  <2> DEFINE channel == nextSeq \in ChannelSeqs
  <2>1. Queued(0, FALSE).status = "queued" /\ Queued(nextSeq, channel).status = "queued"
    BY DEF Queued, Absent
  <2>2. CASE wakeRoutine(q)
    BY <1>3, <2>1, <2>2 DEF wakeRoutine
  <2>3. CASE StartRun(q)
    <3>1. run' = [run EXCEPT ![q] = Queued(nextSeq, channel)]
      BY <2>3 DEF StartRun
    <3> HIDE DEF channel
    <3> QED
      BY <1>3, <2>1, <3>1
  <2> QED
    BY <1>11, <2>2, <2>3
<1>12. ASSUME NEW q \in Runs, NEW outcome, finalizeComputerControlRelease(q, outcome)
       PROVE  Same
  <2> DEFINE row == [run[q] EXCEPT !.status = "queued", !.checkpoint = outcome]
  <2>1. run[q] \in Run
    BY <1>0
  <2>2. row.status = "queued"
    BY <2>1 DEF Run
  <2>3. run' = [run EXCEPT ![q] = row]
    BY <1>0, <1>12, <2>1 DEF finalizeComputerControlRelease
  <2> QED
    BY <1>3, <2>2, <2>3
<1>13. CASE WakeUndone
  <2>1. [Absent EXCEPT !.status = "deleted"].status = "deleted"
    BY DEF Absent
  <2> QED
    BY <1>0, <1>2, <1>3, <1>13, <2>1 DEF WakeUndone
<1>14. CASE stopThreadRuns
  BY <1>0, <1>14 DEF stopThreadRuns, Run
<1>15. ASSUME NEW rs \in SUBSET Runs, Cancelled(rs)[r].status = "running"
       PROVE  Cancelled(rs)[r] = run[r]
  BY <1>1, <1>15 DEF Cancelled
<1>16. CASE clearThread
  <2>1. run'[r] = [Cancelled(ActiveRuns)[r] EXCEPT !.source = 0]
    BY <1>16 DEF clearThread
  <2>2. Cancelled(ActiveRuns)[r] \in Run
    BY <1>0, CancelledType DEF ActiveRuns
  <2>3. Cancelled(ActiveRuns)[r] = run[r]
    BY <1>15, <2>1, <2>2 DEF Run, ActiveRuns
  <2> QED
    BY <2>1, <2>2, <2>3 DEF Run
<1>17. CASE RemovalCancels
  <2>1. PICK rs \in SUBSET Runs : run' = Cancelled(rs)
    BY <1>17 DEF RemovalCancels, TypeInv, TypeOK
  <2> QED
    BY <1>2, <1>15, <2>1
<1>18. ASSUME NEW w \in Workers,
              CreateAttempt(w) \/ LoseLease(w) \/ claimSteering(w) \/ Crash(w)
                \/ \E q \in Runs : Dequeue(w, q)
       PROVE  UNCHANGED run
  BY <1>18 DEF CreateAttempt, LoseLease, claimSteering, Crash, Dequeue
<1>19. ASSUME NEW q \in Runs, reconcileOnce(q) \/ Steer(q) PROVE UNCHANGED run
  BY <1>19 DEF reconcileOnce, Steer
<1>20. CASE WakeEnqueued \/ RemovalReads \/ UNCHANGED vars
  BY <1>2, <1>20 DEF WakeEnqueued, RemovalReads, vars
<1>21. ASSUME NEW w \in Workers,
              WorkerStep(w) \/ renewRunLease(w) \/ Crash(w) \/ \E q \in Runs : Dequeue(w, q)
       PROVE  Same \/ Starts
  BY <1>2, <1>4, <1>5, <1>6, <1>7, <1>8, <1>9, <1>18, <1>21
  DEF WorkerStep, Complete, Fail, pauseRunForInput, pauseRunForTakeover, Waiting
<1>22. ASSUME NEW q \in Runs, Lapse(q) \/ reconcileOnce(q) \/ wakeRoutine(q) \/ UserStep(q)
       PROVE  Same
  BY <1>2, <1>10, <1>11, <1>12, <1>19, <1>22 DEF UserStep, SendToIdle, SendParallel
<1> QED
  BY <1>13, <1>14, <1>16, <1>17, <1>20, <1>21, <1>22 DEF Next

(* A worker that works on after a step it has not claimed in goes on with  *)
(* what it had.                                                            *)
LEMMA TurnGoesOn ==
  ASSUME TypeInv, [Next]_vars, NEW w \in Workers, worker'[w].pc = "turn", ~claimSteering(w)
  PROVE  /\ worker[w].pc = "turn"
         /\ worker'[w].run = worker[w].run
         /\ worker'[w].fence = worker[w].fence
         /\ worker'[w].seen = worker[w].seen
<1> DEFINE Same == /\ worker[w].pc = "turn"
                   /\ worker'[w].run = worker[w].run
                   /\ worker'[w].fence = worker[w].fence
                   /\ worker'[w].seen = worker[w].seen
<1>0. worker \in [Workers -> Worker]
  BY DEF TypeInv, TypeOK
<1>1. CASE UNCHANGED worker
  BY <1>1
<1>2. ASSUME NEW v \in Workers, Leave(v) PROVE Same
  BY <1>0, <1>2 DEF Leave, Idle
<1>3. ASSUME NEW v \in Workers,
             WorkerStep(v) \/ renewRunLease(v) \/ Crash(v) \/ \E r \in Runs : Dequeue(v, r)
      PROVE  Same
  <2>1. CASE Claim(v) \/ Start(v)
    <3>1. \/ Leave(v)
          \/ worker' = [worker EXCEPT ![v].pc = "claimed"]
          \/ worker' = [worker EXCEPT ![v].pc = "started"]
      BY <2>1 DEF Claim, Start
    <3>2. CASE \E pc \in {"claimed", "started"} : worker' = [worker EXCEPT ![v].pc = pc]
      BY <1>0, <3>2 DEF Worker
    <3> QED
      BY <1>2, <3>1, <3>2
  <2>2. CASE CreateAttempt(v)
    BY <1>0, <2>2 DEF CreateAttempt, Worker
  <2>3. CASE claimSteering(v)
    BY <1>0, <2>3 DEF claimSteering
  <2>4. CASE renewRunLease(v)
    BY <1>1, <2>4 DEF renewRunLease
  <2>5. CASE \E r \in Runs : Dequeue(v, r)
    BY <1>0, <2>5 DEF Dequeue, Idle
  <2>6. CASE \/ requeueComputerRun(v) \/ LoseLease(v) \/ SetupFails(v) \/ Crash(v)
             \/ pauseRunForInput(v) \/ pauseRunForTakeover(v) \/ Complete(v) \/ Fail(v)
    <3>1. Leave(v)
      BY <2>6 DEF requeueComputerRun, LoseLease, pauseRunForInput,
         pauseRunForTakeover, Pause, Complete, Fail, Finalize, SetupFails, Crash
    <3> QED
      BY <1>2, <3>1
  <2> QED
    BY <1>3, <2>1, <2>2, <2>3, <2>4, <2>5, <2>6 DEF WorkerStep
<1>4. ASSUME NEW rs, worker' = EndAttempts(rs) PROVE Same
  BY <1>0, <1>4 DEF EndAttempts, Worker
<1>5. ASSUME NEW r \in Runs, Lapse(r) \/ reconcileOnce(r) \/ wakeRoutine(r) \/ UserStep(r)
      PROVE  UNCHANGED worker
  BY <1>5 DEF Lapse, reconcileOnce, wakeRoutine, UserStep, SendToIdle, SendParallel,
     StartRun, Steer, answerRunInput, finalizeComputerControlRelease
<1>6. CASE WakeEnqueued \/ WakeUndone \/ stopThreadRuns \/ RemovalReads \/ UNCHANGED vars
  BY <1>1, <1>6 DEF WakeEnqueued, WakeUndone, stopThreadRuns, RemovalReads, vars
<1>7. CASE clearThread \/ RemovalCancels
  BY <1>4, <1>7 DEF clearThread, RemovalCancels
<1> QED
  BY <1>1, <1>3, <1>5, <1>6, <1>7 DEF Next

(* Who has lost its run does not get it back, and who has it is alone.     *)
LEMMA HoldGoesOn ==
  ASSUME TypeInv, EachItsOwnProcess, [Next]_vars,
         NEW w \in Workers, worker'[w].pc = "turn", Holds(w)', ~claimSteering(w)
  PROVE  Holds(w)
<1>1. /\ worker[w].pc = "turn"
      /\ worker'[w].run = worker[w].run
      /\ worker'[w].fence = worker[w].fence
  BY TurnGoesOn
<1> DEFINE r == worker[w].run
<1>2. /\ r \in Runs
      /\ run'[r].status = "running"
      /\ run'[r].owner = OwnerOf[w]
      /\ run'[r].fence = worker[w].fence
  BY <1>1 DEF Holds
<1>3. ~\E v \in Workers : Start(v) /\ worker[v].run = r /\ run'[r].owner = OwnerOf[v]
  <2> SUFFICES ASSUME NEW v \in Workers, Start(v), run'[r].owner = OwnerOf[v]
               PROVE  FALSE
    OBVIOUS
  <2>1. v = w
    BY <1>2 DEF EachItsOwnProcess
  <2> QED
    BY <1>1, <2>1 DEF Start
<1> QED
  BY <1>2, <1>3, StartedByHolder DEF Holds

(* Claiming steering gives the worker all that its run has claimed. *)
LEMMA ClaimGives ==
  ASSUME TypeInv, GivenInv, EachItsOwnProcess, NEW v \in Workers, claimSteering(v)
  PROVE  ClaimsArePlain' /\ GivenWhatIsClaimed'
<1> DEFINE r == worker[v].run
<1>0. /\ run \in [Runs -> Run] /\ UNCHANGED run
      /\ worker \in [Workers -> Worker]
      /\ attached \in [Seqs -> Runs \cup {NoRun}]
      /\ claimed \subseteq rows /\ rows \subseteq Seqs \ ChannelSeqs
      /\ r \in Runs /\ r # NoRun /\ run[r].status = "running"
      /\ claimed' = claimed \cup Offered(v)
      /\ worker' = [worker EXCEPT ![v].pc = "turn", ![v].seen = @ \cup Offered(v)]
      /\ Offered(v) \subseteq rows
  BY DEF TypeInv, TypeOK, claimSteering, Holds, GivenInv, RowsAreSteered, Offered
<1>1. \A m \in Seqs : attached'[m] = IF m \in Offered(v) \ claimed THEN r ELSE attached[m]
  BY DEF claimSteering
<1>2. \A m \in Offered(v) : ~run[r].channel
  BY <1>0 DEF Offered
<1>3. ClaimsArePlain'
  <2> SUFFICES ASSUME NEW m \in claimed', attached'[m] # NoRun
               PROVE  run[attached'[m]].status # "absent" /\ ~run[attached'[m]].channel
    BY <1>0 DEF ClaimsArePlain
  <2>1. CASE m \in Offered(v) \ claimed
    BY <1>0, <1>1, <1>2, <2>1
  <2>2. CASE m \in claimed
    BY <1>0, <1>1, <2>2 DEF GivenInv, ClaimsArePlain
  <2> QED
    BY <1>0, <2>1, <2>2
<1>4. ASSUME NEW w \in Workers, worker'[w].pc = "turn", Holds(w)',
             NEW m \in claimed', attached'[m] = worker'[w].run
      PROVE  m \in worker'[w].seen
  <2>1. CASE w = v
    <3>1. worker'[v].run = r /\ worker'[v].seen = worker[v].seen \cup Offered(v)
      BY <1>0 DEF Worker
    <3>2. CASE m \in Offered(v)
      BY <2>1, <3>1, <3>2
    <3>3. CASE m \notin Offered(v)
      <4>1. m \in claimed /\ attached[m] = r
        BY <1>0, <1>1, <1>4, <2>1, <3>1, <3>3
      <4>2. ~run[r].channel
        BY <1>0, <4>1 DEF GivenInv, ClaimsArePlain
      <4> QED
        BY <1>0, <2>1, <3>1, <3>3, <4>1, <4>2 DEF Offered
    <3> QED
      BY <3>2, <3>3
  <2>2. CASE w # v
    <3>1. worker'[w] = worker[w]
      BY <1>0, <2>2
    <3>2. Holds(w)
      BY <1>0, <1>4, <3>1 DEF Holds
    <3>3. worker[w].run # r
      BY <2>2, <3>2 DEF claimSteering, Holds, EachItsOwnProcess
    <3>4. m \in claimed /\ attached[m] = worker[w].run
      BY <1>0, <1>1, <1>4, <3>1, <3>3
    <3> QED
      BY <1>4, <3>1, <3>2, <3>4 DEF GivenInv, GivenWhatIsClaimed
  <2> QED
    BY <2>1, <2>2
<1> QED
  BY <1>3, <1>4 DEF GivenWhatIsClaimed

(* Every step keeps what workers were given. *)
LEMMA GivenNext ==
  ASSUME EachItsOwnProcess, TypeInv, GivenInv, [Next]_vars
  PROVE  GivenInv'
<1>1. RowsAreSteered'
  BY RowsNext DEF GivenInv
<1>2. CASE \E v \in Workers : claimSteering(v)
  BY <1>1, <1>2, ClaimGives DEF GivenInv
<1>3. CASE \A v \in Workers : ~claimSteering(v)
  <2>0. /\ attached \in [Seqs -> Runs \cup {NoRun}]
        /\ claimed \subseteq Seqs
        /\ ClaimsKept /\ PlainKept
    BY <1>3, ClaimsElsewhere, PlainStays DEF GivenInv, TypeInv, TypeOK
  <2>1. ClaimsArePlain'
    <3> SUFFICES ASSUME NEW m \in claimed', attached'[m] # NoRun
                 PROVE  run'[attached'[m]].status # "absent" /\ ~run'[attached'[m]].channel
      BY DEF ClaimsArePlain
    <3>1. m \in claimed /\ attached'[m] = attached[m] /\ attached[m] \in Runs
      BY <2>0 DEF ClaimsKept
    <3> QED
      BY <2>0, <3>1 DEF PlainKept, GivenInv, ClaimsArePlain
  <2>2. ASSUME NEW w \in Workers, worker'[w].pc = "turn", Holds(w)',
               NEW m \in claimed', attached'[m] = worker'[w].run
        PROVE  m \in worker'[w].seen
    <3>1. Holds(w)
      BY <1>3, <2>2, HoldGoesOn
    <3>2. worker[w].pc = "turn" /\ worker'[w].run = worker[w].run
          /\ worker'[w].seen = worker[w].seen
      BY <1>3, <2>2, TurnGoesOn
    <3>3. m \in claimed /\ attached[m] = worker[w].run
      BY <2>0, <2>2, <3>1, <3>2 DEF ClaimsKept, Holds
    <3> QED
      BY <3>1, <3>2, <3>3 DEF GivenInv, GivenWhatIsClaimed
  <2> QED
    BY <1>1, <2>1, <2>2 DEF GivenInv, GivenWhatIsClaimed
<1> QED
  BY <1>2, <1>3

(* Who completes its run deletes what the run has claimed. *)
LEMMA CompletionDeletes ==
  ASSUME TypeInv, [Next]_vars, NEW w \in Workers, Completes(w)
  PROVE  Holds(w) /\ rows \ rows' \subseteq {m \in claimed : attached[m] = worker[w].run}
<1> DEFINE r == worker[w].run
<1>0. /\ run \in [Runs -> Run]
      /\ worker \in [Workers -> Worker]
      /\ worker[w].pc = "turn" /\ worker'[w].pc = "idle"
      /\ r \in Runs
      /\ run[r].status = "running" /\ run'[r].status = "completed"
  BY DEF TypeInv, TypeOK, WorkerHasRun, Completes
<1>1. Complete(w) \/ Fail(w) \/ LoseLease(w) \/ Crash(w) \/ SetupFails(w)
        \/ pauseRunForInput(w) \/ pauseRunForTakeover(w)
  <2>1. ASSUME NEW v \in Workers,
               WorkerStep(v) \/ renewRunLease(v) \/ Crash(v) \/ \E q \in Runs : Dequeue(v, q)
        PROVE  v = w
    <3> SUFFICES ASSUME v # w PROVE worker'[w] = worker[w]
      BY <1>0
    <3> QED
      BY <1>0, <2>1
      DEF WorkerStep, Claim, Start, requeueComputerRun, CreateAttempt, renewRunLease, LoseLease,
          claimSteering, pauseRunForInput, pauseRunForTakeover, Pause, Complete, Fail, Finalize,
          SetupFails, Crash, Dequeue, Leave
  <2>2. ASSUME WorkerStep(w) \/ renewRunLease(w) \/ \E q \in Runs : Dequeue(w, q)
        PROVE  Complete(w) \/ Fail(w) \/ LoseLease(w) \/ SetupFails(w)
                 \/ pauseRunForInput(w) \/ pauseRunForTakeover(w)
    <3>1. ~Claim(w) /\ ~Start(w) /\ ~requeueComputerRun(w) /\ ~CreateAttempt(w)
          /\ ~\E q \in Runs : Dequeue(w, q)
      BY <1>0 DEF Claim, Start, requeueComputerRun, CreateAttempt, Dequeue
    <3>2. ~claimSteering(w) /\ ~renewRunLease(w)
      BY <1>0 DEF claimSteering, renewRunLease
    <3> QED
      BY <2>2, <3>1, <3>2 DEF WorkerStep
  <2>3. worker' # worker
    BY <1>0
  <2>4. \A q \in Runs : ~Lapse(q) /\ ~reconcileOnce(q) /\ ~wakeRoutine(q) /\ ~UserStep(q)
    BY <2>3 DEF Lapse, reconcileOnce, wakeRoutine, UserStep, SendToIdle, SendParallel,
       StartRun, Steer, answerRunInput, finalizeComputerControlRelease
  <2>5. ~WakeEnqueued /\ ~WakeUndone /\ ~stopThreadRuns /\ ~RemovalReads /\ ~UNCHANGED vars
    BY <2>3 DEF WakeEnqueued, WakeUndone, stopThreadRuns, RemovalReads, vars
  <2>6. ASSUME NEW rs, worker' = EndAttempts(rs) PROVE FALSE
    BY <1>0, <2>6 DEF EndAttempts, Worker
  <2>7. ~clearThread /\ ~RemovalCancels
    BY <2>6 DEF clearThread, RemovalCancels
  <2> QED
    BY <2>1, <2>2, <2>4, <2>5, <2>7 DEF Next
<1>2. \A status : Unleased(run[r], status).status = status
  BY <1>0 DEF Unleased, Run
<1>3. ~LoseLease(w) /\ ~Crash(w)
  BY <1>0 DEF LoseLease, Crash
<1>4. ~SetupFails(w)
  <2> SUFFICES ASSUME SetupFails(w) PROVE FALSE
    OBVIOUS
  <2> DEFINE row == [Unleased(run[r], "queued") EXCEPT !.checkpoint = worker[w].checkpoint]
  <2>1. row.status = "queued"
    BY <1>0 DEF Unleased, Run
  <2>2. run' = [run EXCEPT ![r] = row]
    BY DEF SetupFails
  <2> QED
    BY <1>0, <2>1, <2>2
<1>5. ASSUME NEW status \in Waiting, Pause(w, status) PROVE FALSE
  <2>1. run'[r].status = status
    BY <1>0, <1>2, <1>5 DEF Pause
  <2> QED
    BY <1>0, <2>1 DEF Waiting
<1>6. ~Fail(w)
  <2> SUFFICES ASSUME Fail(w) PROVE FALSE
    OBVIOUS
  <2> DEFINE ended == Unleased(run[r], "failed")
  <2>1. \/ \E c \in Runs : \E last :
             /\ run[c].status = "absent"
             /\ run' = [run EXCEPT ![r] = ended, ![c] = Queued(last, FALSE)]
        \/ run' = [run EXCEPT ![r] = ended]
    BY DEF Fail, Finalize, createSteeringContinuation
  <2>2. ended.status = "failed"
    BY <1>2
  <2> QED
    BY <1>0, <2>1, <2>2
<1>7. Complete(w)
  BY <1>1, <1>3, <1>4, <1>5, <1>6 DEF pauseRunForInput, pauseRunForTakeover, Waiting
<1> QED
  BY <1>7 DEF Complete, Finalize, Deleted

(* Where no two workers share a workerId, a completed run deletes only     *)
(* follow-ups that the worker completing it was given, however the run was *)
(* interrupted, taken over, paused or queued again before.                 *)
THEOREM CompletedWasGiven == ASSUME EachItsOwnProcess
                             PROVE  Spec => AnsweredWasSeen
<1>1. Init => GivenInv
  BY DEF Init, GivenInv, RowsAreSteered, ClaimsArePlain, GivenWhatIsClaimed
<1>2. TypeInv /\ GivenInv /\ [Next]_vars => GivenInv'
  BY GivenNext
<1>3. TypeInv /\ GivenInv /\ [Next]_vars =>
        [\A w \in Workers : Completes(w) => rows \ rows' \subseteq worker[w].seen]_vars
  <2> SUFFICES ASSUME TypeInv, GivenInv, [Next]_vars, NEW w \in Workers, Completes(w)
               PROVE  rows \ rows' \subseteq worker[w].seen
    OBVIOUS
  <2>1. worker[w].pc = "turn"
    BY DEF Completes
  <2> QED
    BY <2>1, CompletionDeletes DEF GivenInv, GivenWhatIsClaimed
<1>4. Spec => []TypeInv
  BY TypeInit, TypeNext, PTL DEF Spec
<1> QED
  BY <1>1, <1>2, <1>3, <1>4, PTL DEF Spec, AnsweredWasSeen
=============================================================================
