---------------------------- MODULE RunLifecycle ----------------------------
(***************************************************************************)
(* The life of the runs of one bot in one thread: the rows of the tables   *)
(* runs, attempts and steering_messages, the run.continue jobs, and the    *)
(* processes that touch them without holding a lock in between:            *)
(*   - workers executing continueRun (packages/adapters/src/executor.ts),  *)
(*   - the job reconciler and wakeRoutine,                                 *)
(*   - the user's requests (send, answer, release, stop, clear, and the    *)
(*     removal of the bot from a group).                                   *)
(* Every action is one database statement or one transaction of the code.  *)
(* A model call, a tool and the computer a run uses are the environment:   *)
(* they choose which step a worker takes next.                             *)
(***************************************************************************)
EXTENDS Naturals, FiniteSets

CONSTANTS
  Runs,         \* identifiers of run rows
  Workers,      \* concurrent executions of continueRun
  Owners,       \* values of the leaseOwner column
  OwnerOf,      \* the workerId a worker's process passes to continueRun
  MaxSeq,       \* bound: user messages are 1 .. MaxSeq, in message order
  ChannelSeqs,  \* the messages that come in from a messaging channel
  MaxFence,     \* bound: no run is claimed with a fence above this
  GroupThread,  \* whether the thread belongs to a group the bot may leave
  NoRun, NoOwner

ASSUME RunLifecycleAssumption ==
  /\ OwnerOf \in [Workers -> Owners]
  /\ NoOwner \notin Owners
  /\ NoRun \notin Runs
  /\ MaxSeq \in Nat
  /\ ChannelSeqs \subseteq 1 .. MaxSeq
  /\ MaxFence \in Nat
  /\ GroupThread \in BOOLEAN

VARIABLES
  run,       \* the run rows
  job,       \* job[r]: a run.continue job with key run:r waits to be executed
  worker,    \* the local state of each execution of continueRun
  nextSeq,   \* sequence number of the next user message
  rows,      \* the messages with a steering row
  attached,  \* steering row's runId
  claimed,   \* steering rows whose claimedAt is set
  firing,    \* the routine run whose first enqueue has not returned, or NoRun
  refire,    \* a routine whose claim was undone and will wake again
  removal    \* runs a group update read as active and has not yet cancelled

vars == <<run, job, worker, nextSeq, rows, attached, claimed, firing, refire,
          removal>>
steering == <<rows, attached, claimed>>
routine  == <<firing, refire>>

-----------------------------------------------------------------------------
(* Statuses and the declared transitions, packages/core/src/run-state.ts *)

Waiting   == {"waiting_input", "waiting_takeover"}
Active    == {"queued", "leased", "running"} \cup Waiting
Terminal  == {"completed", "failed", "cancelled"}
Statuses  == Active \cup Terminal \cup {"absent", "deleted"}

allowed ==
  [queued           |-> {"leased", "cancelled"},
   leased           |-> {"running", "queued", "cancelled"},
   running          |-> Waiting \cup {"completed", "failed", "cancelled", "leased"},
   waiting_input    |-> {"queued", "leased", "cancelled"},
   waiting_takeover |-> {"queued", "leased", "cancelled"},
   completed        |-> {},
   failed           |-> {"queued"},
   cancelled        |-> {}]

Seqs        == 1 .. MaxSeq
Outcomes    == {"none", "takeover", "takeover-skipped"}
ActiveRuns  == {r \in Runs : run[r].status \in Active}

Run ==
  [status : Statuses, fence : 0 .. MaxFence, owner : Owners \cup {NoOwner},
   lease : {"none", "live", "lapsed"}, checkpoint : Outcomes,
   source : 0 .. MaxSeq, channel : BOOLEAN]

Worker ==
  [pc : {"idle", "read", "claimed", "started", "setup", "turn"},
   run : Runs \cup {NoRun}, fence : 0 .. MaxFence, checkpoint : Outcomes,
   resume : Outcomes, seen : SUBSET Seqs,
   attempt : {"none", "running", "ended"}]

Absent == [status |-> "absent", fence |-> 0, owner |-> NoOwner,
           lease |-> "none", checkpoint |-> "none", source |-> 0, channel |-> FALSE]
Queued(source, channel) ==
  [Absent EXCEPT !.status = "queued", !.source = source, !.channel = channel]

Idle == [pc |-> "idle", run |-> NoRun, fence |-> 0, checkpoint |-> "none",
         resume |-> "none", seen |-> {}, attempt |-> "none"]

Init ==
  /\ run = [r \in Runs |-> Absent]
  /\ job = [r \in Runs |-> FALSE]
  /\ worker = [w \in Workers |-> Idle]
  /\ nextSeq = 1
  /\ rows = {}
  /\ attached = [m \in Seqs |-> NoRun]
  /\ claimed = {}
  /\ firing = NoRun
  /\ refire = FALSE
  /\ removal = {}

(* An enqueue that may fail: the caller logs the error and goes on. *)
TryEnqueue(r) == job' \in {job, [job EXCEPT ![r] = TRUE]}

(* Mutant: the fence of a run that was claimed before moves by two. *)
nextFenceSkipping(current) == current + (IF current = 0 THEN 1 ELSE 2)
nextFence(current) == current + 1

(* The WHERE clause every fenced write of a worker carries. *)
Holds(w) ==
  /\ worker[w].run \in Runs
  /\ run[worker[w].run].status = "running"
  /\ run[worker[w].run].owner = OwnerOf[w]
  /\ run[worker[w].run].fence = worker[w].fence

Leave(w) == worker' = [worker EXCEPT ![w] = Idle]
Unleased(row, status) ==
  [row EXCEPT !.status = status, !.owner = NoOwner, !.lease = "none"]

-----------------------------------------------------------------------------
(* continueRun up to the attempt row *)

(* A worker takes the job of r and reads the run row: the fence it will    *)
(* claim with and the takeover outcome come from this read.                *)
Dequeue(w, r) ==
  /\ worker[w].pc = "idle"
  /\ job[r]
  /\ job' = [job EXCEPT ![r] = FALSE]
  /\ run[r].status \in Active => run[r].fence < MaxFence
  /\ worker' = IF run[r].status \notin Active
               THEN worker
               ELSE [worker EXCEPT ![w] =
                      [Idle EXCEPT
                        !.pc = "read", !.run = r, !.fence = nextFence(run[r].fence),
                        !.checkpoint = run[r].checkpoint,
                        !.resume =
                          IF run[r].checkpoint = "none" /\ run[r].status = "waiting_takeover"
                          THEN "takeover" ELSE run[r].checkpoint]]
  /\ UNCHANGED <<run, nextSeq, steering, routine, removal>>

(* Mutant: a claim refuses only a live lease. *)
ClaimableUnlessLeased(r) ==
  run[r].status \in {"leased", "running"} => run[r].lease = "lapsed"
Claimable(r) ==
  \/ run[r].status \in {"queued"} \cup Waiting
  \/ run[r].status \in {"leased", "running"} /\ run[r].lease = "lapsed"

(* The claim is conditioned on the status only, not on the fence read.     *)
Claim(w) ==
  LET r == worker[w].run IN
  /\ worker[w].pc = "read"
  /\ IF Claimable(r)
     THEN /\ run' = [run EXCEPT ![r] =
                      [@ EXCEPT !.status = "leased", !.owner = OwnerOf[w],
                                !.fence = worker[w].fence, !.lease = "live",
                                !.checkpoint = "none"]]
          /\ worker' = [worker EXCEPT ![w].pc = "claimed"]
     ELSE Leave(w) /\ UNCHANGED run
  /\ UNCHANGED <<job, nextSeq, steering, routine, removal>>

(* The second read asserts the transition to running and throws when the   *)
(* run has been requeued or paused meanwhile; a thrown job may be retried. *)
Start(w) ==
  LET r == worker[w].run
      mine == /\ run[r].status = "leased"
              /\ run[r].owner = OwnerOf[w]
              /\ run[r].fence = worker[w].fence
      throws == /\ run[r].status \in {"queued", "leased"} \cup Waiting
                /\ "running" \notin allowed[run[r].status]
  IN
  /\ worker[w].pc = "claimed"
  /\ IF mine
     THEN /\ run' = [run EXCEPT ![r].status = "running"]
          /\ worker' = [worker EXCEPT ![w].pc = "started"]
     ELSE Leave(w) /\ UNCHANGED run
  /\ IF throws THEN TryEnqueue(r) ELSE UNCHANGED job
  /\ UNCHANGED <<nextSeq, steering, routine, removal>>

(* The computer is switching or another run of the bot drives it: the run  *)
(* goes back to the queue with the outcome it was read with.               *)
requeueComputerRun(w) ==
  LET r == worker[w].run IN
  /\ worker[w].pc = "started"
  /\ IF Holds(w)
     THEN /\ run' = [run EXCEPT ![r] =
                      [Unleased(@, "queued") EXCEPT !.checkpoint = worker[w].checkpoint]]
          /\ TryEnqueue(r)
     ELSE UNCHANGED <<run, job>>
  /\ Leave(w)
  /\ UNCHANGED <<nextSeq, steering, routine, removal>>

(* The computer lease is acquired and the attempt row created.             *)
CreateAttempt(w) ==
  /\ worker[w].pc = "started"
  /\ worker' = [worker EXCEPT ![w].pc = "setup", ![w].attempt = "running"]
  /\ UNCHANGED <<run, job, nextSeq, steering, routine, removal>>

-----------------------------------------------------------------------------
(* continueRun from the attempt row to the end *)

Working(w) == worker[w].pc \in {"setup", "turn"}

(* The heartbeat, and the renewal before every pause and finalization. *)
renewRunLease(w) ==
  /\ Working(w)
  /\ Holds(w)
  /\ run' = [run EXCEPT ![worker[w].run].lease = "live"]
  /\ UNCHANGED <<job, worker, nextSeq, steering, routine, removal>>

(* The heartbeat, a failed renewal or the check between two runtime events *)
(* finds the lease gone: the worker returns and touches no run row.        *)
LoseLease(w) ==
  /\ Working(w)
  /\ ~Holds(w)
  /\ Leave(w)
  /\ UNCHANGED <<run, job, nextSeq, steering, routine, removal>>

(* Steering rows this worker is given: those of its run and of no run,     *)
(* claimed or not, that it has not seen; a channel's run is given messages *)
(* of the channel only. Only unclaimed rows are updated.                   *)
Offered(w) ==
  {m \in rows \ worker[w].seen :
     /\ attached[m] \in {NoRun, worker[w].run}
     /\ run[worker[w].run].channel => m \in ChannelSeqs}

claimSteering(w) ==
  /\ Working(w)
  /\ Holds(w)
  /\ attached' = [m \in Seqs |-> IF m \in Offered(w) \ claimed
                                 THEN worker[w].run ELSE attached[m]]
  /\ claimed' = claimed \cup Offered(w)
  /\ worker' = [worker EXCEPT ![w].pc = "turn", ![w].seen = @ \cup Offered(w)]
  /\ UNCHANGED <<run, job, nextSeq, rows, routine, removal>>

(* A pause needs the attempt still running: otherwise its transaction      *)
(* throws and rolls back.                                                  *)
Pause(w, status) ==
  /\ worker[w].pc = "turn"
  /\ Holds(w)
  /\ worker[w].attempt = "running"
  /\ run' = [run EXCEPT ![worker[w].run] = Unleased(@, status)]
  /\ Leave(w)
  /\ UNCHANGED <<job, nextSeq, steering, routine, removal>>

pauseRunForInput(w)    == Pause(w, "waiting_input")
pauseRunForTakeover(w) == Pause(w, "waiting_takeover")

(* finalizeRunOnce: a completed run deletes the rows it claimed and lets   *)
(* go of the others; a failed one lets go of those newer than its source.  *)
(* Mutant: completion deletes the run's rows whether claimed or not. *)
DeletedUnclaimedToo(w, outcome) ==
  IF outcome = "completed" THEN {m \in rows : attached[m] = worker[w].run} ELSE {}
Deleted(w, outcome) ==
  IF outcome = "completed"
  THEN {m \in rows \cap claimed : attached[m] = worker[w].run} ELSE {}

(* Mutant: only a failure lets rows go. *)
ReleasedOnFailure(w, outcome) ==
  {m \in rows : /\ attached[m] = worker[w].run
                /\ outcome = "failed"
                /\ m > run[worker[w].run].source}
Released(w, outcome) ==
  LET r == worker[w].run IN
  {m \in rows \ Deleted(w, outcome) :
     /\ attached[m] = r
     /\ outcome = "failed" => m > run[r].source}

(* Steering rows once those of ms are attached to `to` and only kept ones  *)
(* are left.                                                               *)
Reattach(kept, ms, to) ==
  [m \in Seqs |-> IF m \in ms THEN to ELSE IF m \in kept THEN attached[m] ELSE NoRun]

(* Without another active run, the rows of no run get a run of their own,  *)
(* whose source is the newest of them.                                     *)
createSteeringContinuation(r, ended, kept, free) ==
  /\ ActiveRuns = {r}
  /\ \E c \in Runs, last \in free :
       /\ run[c].status = "absent"
       /\ \A m \in free : m <= last
       /\ run' = [run EXCEPT ![r] = ended, ![c] = Queued(last, FALSE)]
       /\ attached' = Reattach(kept, free, c)
       /\ claimed' = (claimed \cap kept) \ free
       /\ TryEnqueue(c)

Finalize(w, outcome) ==
  LET r        == worker[w].run
      ended    == Unleased(run[r], outcome)
      kept     == rows \ Deleted(w, outcome)
      released == Released(w, outcome)
      free     == released \cup {m \in kept : attached[m] = NoRun}
  IN
  /\ Working(w)
  /\ Holds(w)
  /\ worker[w].attempt = "running"
  /\ rows' = kept
  /\ \/ createSteeringContinuation(r, ended, kept, free)
     \/ /\ ActiveRuns # {r} \/ free = {}
        /\ run' = [run EXCEPT ![r] = ended]
        /\ attached' = Reattach(kept, released, NoRun)
        /\ claimed' = claimed \cap kept
        /\ UNCHANGED job
  /\ Leave(w)
  /\ UNCHANGED <<nextSeq, routine, removal>>

Complete(w) == worker[w].pc = "turn" /\ Finalize(w, "completed")
Fail(w)     == Finalize(w, "failed")

(* An error outside the turn's own handler: the run goes back to the queue *)
(* and the job is retried, or scheduled again when the computer was busy.  *)
SetupFails(w) ==
  LET r == worker[w].run IN
  /\ Working(w)
  /\ Holds(w)
  /\ run' = [run EXCEPT ![r] =
              [Unleased(@, "queued") EXCEPT !.checkpoint = worker[w].checkpoint]]
  /\ TryEnqueue(r)
  /\ Leave(w)
  /\ UNCHANGED <<nextSeq, steering, routine, removal>>

(* The worker dies, or throws before its attempt exists: the run row stays *)
(* as it is, and the queue may or may not give the job out again.          *)
Crash(w) ==
  /\ worker[w].pc # "idle"
  /\ TryEnqueue(worker[w].run)
  /\ Leave(w)
  /\ UNCHANGED <<run, nextSeq, steering, routine, removal>>

-----------------------------------------------------------------------------
(* Time, the reconciler and routines *)

(* Five minutes pass without a renewal. *)
Lapse(r) ==
  /\ run[r].status \in {"leased", "running"}
  /\ run[r].lease = "live"
  /\ run' = [run EXCEPT ![r].lease = "lapsed"]
  /\ UNCHANGED <<job, worker, nextSeq, steering, routine, removal>>

(* Mutant: only lapsed leases are repaired. *)
reconcileLapsedOnly(r) ==
  /\ run[r].status \in {"leased", "running"} /\ run[r].lease = "lapsed"
  /\ job' = [job EXCEPT ![r] = TRUE]
  /\ UNCHANGED <<run, worker, nextSeq, steering, routine, removal>>
reconcileOnce(r) ==
  /\ \/ run[r].status = "queued"
     \/ run[r].status \in {"leased", "running"} /\ run[r].lease = "lapsed"
  /\ job' = [job EXCEPT ![r] = TRUE]
  /\ UNCHANGED <<run, worker, nextSeq, steering, routine, removal>>

(* wakeRoutine creates its run beside whatever is active in the thread. *)
wakeRoutine(r) ==
  /\ firing = NoRun
  /\ run[r].status = "absent"
  /\ run' = [run EXCEPT ![r] = Queued(0, FALSE)]
  /\ firing' = r
  /\ refire' = FALSE
  /\ UNCHANGED <<job, worker, nextSeq, steering, removal>>

WakeEnqueued ==
  /\ firing # NoRun
  /\ job' = [job EXCEPT ![firing] = TRUE]
  /\ firing' = NoRun
  /\ UNCHANGED <<run, worker, nextSeq, steering, refire, removal>>

(* The enqueue failed: the run is deleted if still queued, its steering    *)
(* rows lose their run (onDelete SetNull), and the routine is due again.   *)
WakeUndone ==
  /\ firing # NoRun
  /\ IF run[firing].status = "queued"
     THEN /\ run' = [run EXCEPT ![firing] = [Absent EXCEPT !.status = "deleted"]]
          /\ attached' = [m \in Seqs |-> IF attached[m] = firing
                                         THEN NoRun ELSE attached[m]]
     ELSE UNCHANGED <<run, attached>>
  /\ firing' = NoRun
  /\ refire' = TRUE
  /\ UNCHANGED <<job, worker, nextSeq, rows, claimed, removal>>

-----------------------------------------------------------------------------
(* Requests of the user, each one transaction under the thread's row lock  *)

(* A message to an idle bot starts a run; to a busy one it becomes a       *)
(* steering row of an active run. Team chat and messaging channels start a *)
(* run in any case.                                                        *)
StartRun(r) ==
  /\ nextSeq <= MaxSeq
  /\ run[r].status = "absent"
  /\ run' = [run EXCEPT ![r] = Queued(nextSeq, nextSeq \in ChannelSeqs)]
  /\ nextSeq' = nextSeq + 1
  /\ TryEnqueue(r)
  /\ UNCHANGED <<worker, steering, routine, removal>>

SendToIdle(r)   == ActiveRuns = {} /\ StartRun(r)
SendParallel(r) == ActiveRuns # {} /\ StartRun(r)

Steer(r) ==
  /\ nextSeq <= MaxSeq
  /\ nextSeq \notin ChannelSeqs
  /\ r \in ActiveRuns
  /\ rows' = rows \cup {nextSeq}
  /\ attached' = [attached EXCEPT ![nextSeq] = r]
  /\ nextSeq' = nextSeq + 1
  /\ TryEnqueue(r)
  /\ UNCHANGED <<run, worker, claimed, routine, removal>>

answerRunInput(r) ==
  /\ run[r].status = "waiting_input"
  /\ run' = [run EXCEPT ![r].status = "queued"]
  /\ TryEnqueue(r)
  /\ UNCHANGED <<worker, nextSeq, steering, routine, removal>>

(* The control of the screen is released, or its lease expires. *)
finalizeComputerControlRelease(r, outcome) ==
  /\ run[r].status = "waiting_takeover"
  /\ run' = [run EXCEPT ![r].status = "queued", ![r].checkpoint = outcome]
  /\ TryEnqueue(r)
  /\ UNCHANGED <<worker, nextSeq, steering, routine, removal>>

(* Stop leaves the lease columns and the attempts as they are. *)
stopThreadRuns ==
  /\ ActiveRuns # {}
  /\ run' = [r \in Runs |-> IF r \in ActiveRuns
                            THEN [run[r] EXCEPT !.status = "cancelled"] ELSE run[r]]
  /\ rows' = {}
  /\ attached' = [m \in Seqs |-> NoRun]
  /\ claimed' = {}
  /\ UNCHANGED <<job, worker, nextSeq, routine, removal>>

(* cancelRunsInTransaction writes by id, whatever the status has become. *)
(* Mutant: runs that are running keep their status. *)
CancelledUnlessRunning(rs) ==
  [r \in Runs |-> IF r \in rs /\ run[r].status # "running"
                  THEN Unleased(run[r], "cancelled") ELSE run[r]]
Cancelled(rs) ==
  [r \in Runs |-> IF r \in rs THEN Unleased(run[r], "cancelled") ELSE run[r]]
EndAttempts(rs) ==
  [w \in Workers |-> IF worker[w].run \in rs /\ worker[w].attempt = "running"
                     THEN [worker[w] EXCEPT !.attempt = "ended"] ELSE worker[w]]

(* The messages of the thread go, and with them the steering rows and the  *)
(* sources of all runs.                                                    *)
clearThread ==
  /\ nextSeq > 1
  /\ run' = [r \in Runs |-> [Cancelled(ActiveRuns)[r] EXCEPT !.source = 0]]
  /\ worker' = EndAttempts(ActiveRuns)
  /\ rows' = {}
  /\ attached' = [m \in Seqs |-> NoRun]
  /\ claimed' = {}
  /\ UNCHANGED <<job, nextSeq, routine, removal>>

(* updateGroup locks the group's row, not the thread's: the runs it finds  *)
(* active may have ended when it cancels them.                             *)
RemovalReads ==
  /\ GroupThread
  /\ removal = {}
  /\ removal' = ActiveRuns
  /\ UNCHANGED <<run, job, worker, nextSeq, steering, routine>>

RemovalCancels ==
  /\ removal # {}
  /\ run' = Cancelled({r \in removal : run[r].status # "deleted"})
  /\ worker' = EndAttempts(removal)
  /\ removal' = {}
  /\ UNCHANGED <<job, nextSeq, steering, routine>>

-----------------------------------------------------------------------------

WorkerStep(w) ==
  \/ Claim(w) \/ Start(w) \/ requeueComputerRun(w) \/ CreateAttempt(w)
  \/ LoseLease(w) \/ claimSteering(w) \/ pauseRunForInput(w)
  \/ pauseRunForTakeover(w) \/ Complete(w) \/ Fail(w) \/ SetupFails(w)

UserStep(r) ==
  \/ SendToIdle(r) \/ SendParallel(r) \/ Steer(r) \/ answerRunInput(r)
  \/ \E outcome \in {"takeover", "takeover-skipped"} :
       finalizeComputerControlRelease(r, outcome)

Next ==
  \/ \E w \in Workers : \/ WorkerStep(w) \/ renewRunLease(w) \/ Crash(w)
                        \/ \E r \in Runs : Dequeue(w, r)
  \/ \E r \in Runs : Lapse(r) \/ reconcileOnce(r) \/ wakeRoutine(r) \/ UserStep(r)
  \/ WakeEnqueued \/ WakeUndone
  \/ stopThreadRuns \/ clearThread \/ RemovalReads \/ RemovalCancels

Spec == Init /\ [][Next]_vars

(* Every process makes progress, time passes for a run nobody renews, and  *)
(* the queue serves its jobs in order (Graphile: by run_at and id). A      *)
(* worker may crash again and again, but not each time between its first   *)
(* two statements. Users and routines are under no obligation.             *)
Fairness ==
  /\ \A w \in Workers : WF_vars(WorkerStep(w)) /\ SF_vars(Claim(w))
  /\ \A r \in Runs :
       /\ SF_vars(\E w \in Workers : Dequeue(w, r))
       /\ WF_vars(reconcileOnce(r))
       /\ WF_vars(Lapse(r) /\ \A w \in Workers : worker[w].run # r)
  /\ WF_vars(WakeEnqueued \/ WakeUndone)
  /\ WF_vars(\E r \in Runs : refire /\ wakeRoutine(r))

FairSpec == Spec /\ Fairness

-----------------------------------------------------------------------------
(* Properties *)

(* Every variable holds a value of its column or of its local. *)
TypeOK ==
  /\ run \in [Runs -> Run]
  /\ job \in [Runs -> BOOLEAN]
  /\ worker \in [Workers -> Worker]
  /\ nextSeq \in 1 .. MaxSeq + 1
  /\ rows \subseteq Seqs
  /\ attached \in [Seqs -> Runs \cup {NoRun}]
  /\ claimed \subseteq rows
  /\ firing \in Runs \cup {NoRun}
  /\ refire \in BOOLEAN
  /\ removal \subseteq Runs

(* The errors "Active run attempt was not available to pause" and "... to  *)
(* finalize" are unreachable: a worker whose fenced write of the run row   *)
(* would succeed still has its attempt row running, whatever was cleared,  *)
(* stopped, claimed again or requeued in between.                          *)
AttemptAvailable ==
  \A w \in Workers : Working(w) /\ Holds(w) => worker[w].attempt = "running"

(* A follow-up the bot has not dealt with always has a reader to come: an  *)
(* active run that will be offered it, or a routine about to fire again.   *)
(* The exception is a message a run was made for and failed on. (A bot     *)
(* taken out of a group keeps no reader.)                                  *)
GivenUp(m) ==
  /\ attached[m] # NoRun
  /\ run[attached[m]].status = "failed"
  /\ m <= run[attached[m]].source
Stranded(m) ==
  IF attached[m] = NoRun THEN ActiveRuns = {} /\ ~refire
                         ELSE attached[m] \notin ActiveRuns /\ ~GivenUp(m)
NoStrandedSteering == GroupThread \/ \A m \in rows : ~Stranded(m)

Completes(w) ==
  /\ worker[w].pc = "turn"
  /\ worker'[w].pc = "idle"
  /\ run[worker[w].run].status = "running"
  /\ run'[worker[w].run].status = "completed"

(* Completing a run deletes only steering the completing worker was given: *)
(* no message is dropped because an earlier, interrupted attempt saw it.   *)
AnsweredWasSeen ==
  [][\A w \in Workers : Completes(w) => rows \ rows' \subseteq worker[w].seen]_vars

(* A run that has ended never changes its status again. *)
TerminalIsFinal ==
  [][\A r \in Runs : run[r].status \in Terminal => run'[r].status = run[r].status]_vars

Claims(w) == worker[w].pc = "read" /\ worker'[w].pc = "claimed"

(* The claim that erases a takeover's outcome tells it to the agent. *)
OutcomeDelivered ==
  [][\A w \in Workers : Claims(w) =>
       run[worker[w].run].checkpoint \in {"none", worker[w].resume}]_vars

(* A run in the queue is claimed or ends, whatever was lost or crashed. *)
QueuedIsServed ==
  \A r \in Runs : run[r].status = "queued" ~>
                     run[r].status # "queued" \/ run[r].fence = MaxFence
=============================================================================
