-------------------------- MODULE ComputerLifecycle --------------------------
(***************************************************************************)
(* One computer: its row, the execution leases on it, and the sandboxes a  *)
(* provider keeps for it. Three kinds of process enter the computer        *)
(* through acquireComputerExecutionLease: executions of continueRun, the   *)
(* user's boot request and the user's replacement (recover, reset,         *)
(* update). Two more claim the row without a lease: sleepComputerIfIdle    *)
(* and the user's stop request. No lock is held between their statements:  *)
(* an action is one statement or one call of the provider.                 *)
(*   packages/adapters/src/computer-lifecycle.ts, computer-idle.ts,        *)
(*   computer-workspace.ts, executor.ts; apps/api/src/router.ts            *)
(***************************************************************************)
EXTENDS Naturals, FiniteSets

CONSTANTS
  Procs,      \* executions that may enter the computer
  Ids, Bots,  \* run ids; bots that share the computer
  Refs,       \* bound: sandboxes the provider can create
  Sleepers,   \* executions of the computer.sleep job
  Stoppers,   \* executions of the stop request
  StopBot,    \* the bot a stop request is for
  Settings,   \* the computers and their surroundings, see ComputerAssumption
  NoRef, NoProc

ASSUME ComputerAssumption ==
  /\ StopBot \in Bots
  /\ NoRef \notin Refs /\ NoProc \notin Procs \cup Ids
  /\ Procs \cap Sleepers = {}
  /\ Settings \subseteq
       [kind : [Procs -> {"run", "boot", "replace", "none"}],
        run : [Procs -> Ids],  \* the runId it passes: the run, or a generated id
        bot : [Procs -> Bots], \* the bot it acts for
        sleepers : SUBSET Sleepers, stoppers : SUBSET Stoppers,
        refs : SUBSET Refs,    \* what the provider can create here
        team : BOOLEAN,        \* scope "team": leases are taken
        remote : BOOLEAN,      \* a run's checkpoint exports, and claims the row
        recover : BOOLEAN,     \* replacements ignore a failed teardown
        fences : Nat,          \* bound: no lease is taken with a fence above this
        crashes : Nat]         \* bound: processes that die between two statements
  /\ \A e \in Settings : \A p, q \in Procs :
       {e.kind[p], e.kind[q]} # {"none"} /\ e.run[p] = e.run[q] =>
         e.kind[p] = e.kind[q] /\ e.bot[p] = e.bot[q] /\ (e.kind[p] # "run" => p = q)

VARIABLES
  env,      \* which of the settings this is
  row,      \* the computer row: state, providerRef, and whether updatedAt is
            \* older than BOOT_CLAIM_STALE_MS
  current,  \* who read, or wrote, the updatedAt the row now has
  box,      \* the provider's sandboxes
  lease,    \* computer_execution_leases by bot; fence 0: there is no row
  runs,     \* the runs' status, and the execution that holds the run lease
  proc, sleeper, stopper,   \* the processes' local state
  crashes   \* how many processes died

vars == <<env, row, current, box, lease, runs, proc, sleeper, stopper, crashes>>

States == {"stopped", "booting", "running", "suspending", "suspended", "error"}
Provisioning == {"provision", "activate", "rollback", "record"}
MaybeRef == Refs \cup {NoRef}

Row == [state : States, ref : MaybeRef, aged : BOOLEAN]
Lease == [run : Ids \cup {NoProc}, fence : 0 .. env.fences, live : BOOLEAN]
RunRow ==
  [status : {"none", "queued", "live", "lapsed", "cancelled", "done"},
   by : Procs \cup {NoProc}]
Pcs ==
  {"idle", "enter", "take", "validate", "undo", "read", "ask", "wait", "askAgain", "claim",
   "using", "checkpoint", "survey", "seize", "recheck", "destroy", "clear", "requeue",
   "release"} \cup Provisioning
Execution ==
  [pc : Pcs, seen : States, ref : MaybeRef, reclaim : BOOLEAN, got : MaybeRef,
   fresh : BOOLEAN, busy : BOOLEAN, stuck : BOOLEAN, fence : 0 .. env.fences]
Sleep ==
  [pc : {"idle", "runs", "claim", "checkpoint", "recheck", "stop", "record"}, ref : MaybeRef]
StopRequest ==
  [pc : {"idle", "claim", "recheck", "delete", "stop", "record", "fail"},
   seen : States, ref : MaybeRef]

TypeOK ==
  /\ env \in Settings
  /\ row \in Row
  /\ current \subseteq Procs \cup Sleepers
  /\ box \in [Refs -> {"none", "up", "stopped", "gone"}]
  /\ lease \in [Bots -> Lease]
  /\ runs \in [Ids -> RunRow]
  /\ proc \in [Procs -> Execution]
  /\ sleeper \in [Sleepers -> Sleep]
  /\ stopper \in [Stoppers -> StopRequest]
  /\ crashes \in 0 .. env.crashes

Idle == [pc |-> "idle", seen |-> "stopped", ref |-> NoRef, reclaim |-> FALSE,
         got |-> NoRef, fresh |-> FALSE, busy |-> FALSE, stuck |-> FALSE, fence |-> 0]

NoLease == [run |-> NoProc, fence |-> 0, live |-> FALSE]

Init ==
  /\ env \in Settings
  /\ row = [state |-> "stopped", ref |-> NoRef, aged |-> FALSE]
  /\ current = {}
  /\ box = [r \in Refs |-> "none"]
  /\ lease = [b \in Bots |-> NoLease]
  /\ runs = [i \in Ids |-> [status |-> "none", by |-> NoProc]]
  /\ proc = [p \in Procs |-> Idle]
  /\ sleeper = [s \in Sleepers |-> [pc |-> "idle", ref |-> NoRef]]
  /\ stopper = [s \in Stoppers |-> [pc |-> "idle", seen |-> "stopped", ref |-> NoRef]]
  /\ crashes = 0

-----------------------------------------------------------------------------
(* What a statement's WHERE clause or a query asks of the tables *)

Active(i) == runs[i].status \in {"queued", "live", "lapsed"}

(* hasLiveForeignRunLease *)
LiveForeignRun(p) == \E i \in Ids \ {env.run[p]} : runs[i].status = "live"

Own(p) ==
  /\ proc[p].fence > 0
  /\ lease[env.bot[p]].run = env.run[p]
  /\ lease[env.bot[p]].fence = proc[p].fence

(* heldByNobodyElse *)
HeldByNobodyElse(p) == \A b \in Bots : lease[b].live => b = env.bot[p] /\ Own(p)

(* hasForeignExecutionLease, and the same clause in two claims *)
ForeignLease(bot) == \E b \in Bots \ {bot} : lease[b].live

Reconnecting(p) == proc[p].seen = "running" /\ proc[p].ref # NoRef
ReplaceAt(p) == IF env.kind[p] = "replace" THEN "survey" ELSE "read"

(* A write of the row moves updatedAt: only the writer, when it keeps the  *)
(* stamp it wrote, still knows the row's stamp.                            *)
Write(state, ref, knows) ==
  /\ row' = [state |-> state, ref |-> ref, aged |-> FALSE]
  /\ current' = knows
(* checkpointAndRecordComputerWorkspace: the revision is recorded by a     *)
(* statement that names the row and nothing else, and moves its stamp.     *)
Recorded == Write(row.state, row.ref, {})
Booting(p) == p \in Procs /\ proc[p].pc \in Provisioning
Exists(ref) == IF ref = NoRef THEN FALSE ELSE box[ref] \in {"up", "stopped"}
KeepRow == UNCHANGED <<row, current>>

Forget(p) == current' = current \ {p} /\ UNCHANGED row
At(p, pc) == [Idle EXCEPT !.pc = pc, !.fence = proc[p].fence]
Becomes(p, local) == proc' = [proc EXCEPT ![p] = local]
Go(p, pc) ==
  Becomes(p, IF pc \in {"requeue", "release"} THEN At(p, pc) ELSE [proc[p] EXCEPT !.pc = pc])
Others == UNCHANGED <<env, sleeper, stopper, crashes>>

-----------------------------------------------------------------------------
(* Entering the computer: the run's claim or the request, then             *)
(* acquireComputerExecutionLease                                           *)

Create(i) ==
  /\ runs[i].status = "none"
  /\ \E p \in Procs : env.kind[p] = "run" /\ env.run[p] = i
  /\ runs' = [runs EXCEPT ![i].status = "queued"]
  /\ KeepRow /\ Others /\ UNCHANGED <<box, lease, proc>>

Begin(p) ==
  /\ proc[p].pc = "idle" /\ env.kind[p] # "none"
  /\ CASE env.kind[p] = "run" ->
            /\ runs[env.run[p]].status \in {"queued", "lapsed"}
            /\ runs' = [runs EXCEPT ![env.run[p]] = [status |-> "live", by |-> p]]
       [] env.kind[p] = "boot" ->
            ~(row.state = "running" /\ row.ref # NoRef) /\ UNCHANGED runs
       [] OTHER -> UNCHANGED runs
  /\ Becomes(p, [Idle EXCEPT !.pc = "enter"])
  /\ KeepRow /\ Others /\ UNCHANGED <<box, lease>>

AcquireReads(p) ==
  /\ proc[p].pc = "enter"
  /\ Go(p, IF ~env.team THEN ReplaceAt(p)
           ELSE IF row.state = "suspending" THEN "requeue" ELSE "take")
  /\ KeepRow /\ Others /\ UNCHANGED <<box, lease, runs>>

(* Mutant: the fence moves by two. *)
nextFenceSkipping(f) == f + 2
nextFence(f) == f + 1

AcquireTakes(p) ==
  LET held == lease[env.bot[p]] IN
  /\ proc[p].pc = "take"
  /\ \/ /\ held.live
        /\ Go(p, "requeue")
        /\ UNCHANGED lease
     \/ /\ ~held.live /\ held.fence < env.fences
        /\ lease' = [lease EXCEPT ![env.bot[p]] =
             [run |-> env.run[p], fence |-> nextFence(held.fence), live |-> TRUE]]
        /\ Becomes(p, [proc[p] EXCEPT !.pc = "validate", !.fence = nextFence(held.fence)])
  /\ KeepRow /\ Others /\ UNCHANGED <<box, runs>>

AcquireValidates(p) ==
  /\ proc[p].pc = "validate"
  /\ Go(p, IF row.state = "suspending" THEN "undo" ELSE ReplaceAt(p))
  /\ KeepRow /\ Others /\ UNCHANGED <<box, lease, runs>>

(* The run gives up its turn: it returns to the queue and the computer     *)
(* lease is released after that; a request just fails.                     *)
Requeue(p) ==
  /\ proc[p].pc = "requeue"
  /\ runs' = IF runs[env.run[p]].by = p
             THEN [runs EXCEPT ![env.run[p]] = [status |-> "queued", by |-> NoProc]]
             ELSE runs
  /\ Go(p, "release")
  /\ Forget(p) /\ Others /\ UNCHANGED <<box, lease>>

releaseComputerExecutionLease(p) ==
  /\ proc[p].pc \in {"undo", "release"}
  /\ lease' = IF Own(p) THEN [lease EXCEPT ![env.bot[p]].live = FALSE] ELSE lease
  /\ Becomes(p, IF proc[p].pc = "undo" THEN [Idle EXCEPT !.pc = "requeue"] ELSE Idle)
  /\ KeepRow /\ Others /\ UNCHANGED <<box, runs>>

-----------------------------------------------------------------------------
(* provisionComputer *)

(* Mutant: a boot left by a dead worker is not taken over. *)
AfterReadRefusing ==
  CASE row.state = "booting" -> "requeue"
    [] row.state = "suspending" -> "wait"
    [] OTHER -> "claim"
AfterRead ==
  CASE row.state = "booting" -> IF row.aged THEN "ask" ELSE "requeue"
    [] row.state = "suspending" -> "wait"
    [] OTHER -> "claim"

ProvisionReads(p) ==
  /\ proc[p].pc = "read"
  /\ Becomes(p, [proc[p] EXCEPT !.seen = row.state, !.ref = row.ref,
                                !.reclaim = row.state = "booting", !.pc = AfterRead])
  /\ current' = IF row.state = "booting" THEN current \cup {p} ELSE current \ {p}
  /\ UNCHANGED <<row, box, lease, runs>> /\ Others

ProvisionAsksRuns(p) ==
  /\ proc[p].pc = "ask"
  /\ Go(p, IF LiveForeignRun(p) THEN "requeue" ELSE "wait")
  /\ KeepRow /\ Others /\ UNCHANGED <<box, lease, runs>>

(* waitForComputerReady polls, or gives up and returns what it sees. *)
AfterWait(reclaim) ==
  CASE row.state = "suspending" -> "requeue"
    [] row.state = "booting" -> IF reclaim THEN "askAgain" ELSE "requeue"
    [] row.state = "running" -> IF reclaim THEN "requeue" ELSE "claim"
    [] OTHER -> "claim"

ProvisionWaits(p) ==
  /\ proc[p].pc = "wait"
  /\ Becomes(p, [proc[p] EXCEPT !.seen = row.state, !.ref = row.ref,
                                !.pc = AfterWait(proc[p].reclaim)])
  /\ KeepRow /\ Others /\ UNCHANGED <<box, lease, runs>>

ProvisionAsksRunsAgain(p) ==
  /\ proc[p].pc = "askAgain"
  /\ Go(p, IF LiveForeignRun(p) THEN "requeue" ELSE "claim")
  /\ KeepRow /\ Others /\ UNCHANGED <<box, lease, runs>>

(* Mutant: an abandoned boot is claimed whatever its stamp and leases. *)
ClaimMatchesAny(p) == row.state = proc[p].seen
ClaimMatches(p) ==
  /\ row.state = proc[p].seen
  /\ IF row.state = "booting" THEN p \in current /\ HeldByNobodyElse(p)
     ELSE row.ref = proc[p].ref

ProvisionClaims(p) ==
  /\ proc[p].pc = "claim"
  /\ \/ ClaimMatches(p) /\ Write("booting", row.ref, {p}) /\ Go(p, "provision")
     \/ ~ClaimMatches(p) /\ KeepRow /\ Go(p, "requeue")
  /\ Others /\ UNCHANGED <<box, lease, runs>>

(* The provider resumes the sandbox it is asked for, creates one when it   *)
(* has none of that name, or fails.                                        *)
Provision(p) ==
  LET ref == proc[p].ref IN
  /\ proc[p].pc = "provision"
  /\ \/ /\ Exists(ref)
        /\ box' = [box EXCEPT ![ref] = "up"]
        /\ Becomes(p, [proc[p] EXCEPT !.pc = "activate", !.got = ref])
     \/ /\ ~Exists(ref)
        /\ \E new \in env.refs :
             /\ box[new] = "none"
             /\ box' = [box EXCEPT ![new] = "up"]
             /\ Becomes(p, [proc[p] EXCEPT !.pc = "activate", !.got = new, !.fresh = TRUE])
     \/ Go(p, "record") /\ UNCHANGED box
  /\ KeepRow /\ Others /\ UNCHANGED <<lease, runs>>

(* The fence of every end-of-boot write: the claim's stamp and reference. *)
Claimed(p) == row.state = "booting" /\ p \in current /\ row.ref = proc[p].ref

ActivationMatches(p) == Claimed(p)

Activate(p) ==
  /\ proc[p].pc = "activate"
  /\ \/ /\ ActivationMatches(p)
        /\ Write("running", proc[p].got, {})
        /\ IF env.kind[p] = "run"
           THEN Becomes(p, [At(p, "using") EXCEPT !.got = proc[p].got])
           ELSE Go(p, "release")
     \/ /\ ~ActivationMatches(p) /\ KeepRow
        /\ Becomes(p, [proc[p] EXCEPT !.pc = "rollback", !.busy = TRUE])
  /\ Others /\ UNCHANGED <<box, lease, runs>>

PrepareFails(p) ==
  /\ proc[p].pc = "activate"
  /\ Go(p, "rollback")
  /\ KeepRow /\ Others /\ UNCHANGED <<box, lease, runs>>

RollsBack(p) == ~Reconnecting(p) \/ proc[p].fresh

rollbackProvisionedComputer(p) ==
  LET got == proc[p].got
      end == IF proc[p].fresh THEN {"gone"}
             ELSE IF proc[p].busy THEN {"stopped", "gone"} ELSE {"stopped"}
      live == Exists(got)
  IN
  /\ proc[p].pc = "rollback"
  /\ \/ RollsBack(p) /\ live /\ (\E to \in end : box' = [box EXCEPT ![got] = to])
                     /\ Go(p, "record")
     \/ RollsBack(p) /\ UNCHANGED box
                     /\ \E stuck \in (IF live THEN {TRUE} ELSE BOOLEAN) :
                          Becomes(p, [proc[p] EXCEPT !.pc = "record", !.stuck = stuck])
     \/ ~RollsBack(p) /\ UNCHANGED box /\ Go(p, "record")
  /\ KeepRow /\ Others /\ UNCHANGED <<lease, runs>>

(* Mutant: the reference of a sandbox that could not be rolled back is lost. *)
RecordsNoRef(p) ==
  /\ proc[p].pc = "record"
  /\ IF Claimed(p)
     THEN Write(IF Reconnecting(p) THEN "running" ELSE "error", row.ref, {})
     ELSE KeepRow
  /\ Go(p, "requeue")
  /\ Others /\ UNCHANGED <<box, lease, runs>>
RecordFailure(p) ==
  /\ proc[p].pc = "record"
  /\ IF Claimed(p)
     THEN Write(IF Reconnecting(p) THEN "running" ELSE "error",
                IF ~Reconnecting(p) /\ proc[p].stuck THEN proc[p].got ELSE row.ref, {})
     ELSE KeepRow
  /\ Go(p, "requeue")
  /\ Others /\ UNCHANGED <<box, lease, runs>>

-----------------------------------------------------------------------------
(* The run's turn on the computer, its checkpoints, and its end *)

Finish(p) ==
  /\ proc[p].pc = "using"
  /\ \/ /\ runs[env.run[p]].by = p
        /\ \E status \in {"done", "queued"} :
             runs' = [runs EXCEPT ![env.run[p]] = [status |-> status, by |-> NoProc]]
     \/ /\ runs[env.run[p]].by # p
        /\ UNCHANGED runs
  /\ Go(p, "release")
  /\ KeepRow /\ Others /\ UNCHANGED <<box, lease>>

(* checkpointRunComputerWorkspace. A shared computer of a remote provider  *)
(* is claimed for the export; any other just gets its revision recorded.   *)
Checkpoint(p) ==
  /\ proc[p].pc = "using"
  /\ \/ /\ ~(env.team /\ env.remote)
        /\ Recorded
        /\ UNCHANGED proc
     \/ /\ env.team /\ env.remote
        /\ row.state = "running" /\ row.ref = proc[p].got /\ HeldByNobodyElse(p)
        /\ Write("suspending", row.ref, {})
        /\ Go(p, "checkpoint")
  /\ Others /\ UNCHANGED <<box, lease, runs>>

CheckpointEnds(p) ==
  /\ proc[p].pc = "checkpoint"
  /\ IF row.state = "suspending" /\ row.ref = proc[p].got
     THEN Write("running", row.ref, {})
     ELSE Recorded
  /\ Go(p, "using")
  /\ Others /\ UNCHANGED <<box, lease, runs>>

(* cancelThreadRuns: the status in a transaction, the leases after it. A   *)
(* boot already older than BOOT_CLAIM_STALE_MS would outlive its run's     *)
(* lease from here to the next heartbeat: assumed not to happen (README).  *)
Cancel(i) ==
  /\ Active(i)
  /\ row.aged => ~Booting(runs[i].by)
  /\ runs' = [runs EXCEPT ![i] = [status |-> "cancelled", by |-> NoProc]]
  /\ KeepRow /\ Others /\ UNCHANGED <<box, lease, proc>>

expireComputerExecutionLeases(i) ==
  /\ runs[i].status = "cancelled"
  /\ runs' = [runs EXCEPT ![i].status = "done"]
  /\ lease' = [b \in Bots |->
       [lease[b] EXCEPT !.live = lease[b].live /\ lease[b].run # i]]
  /\ KeepRow /\ Others /\ UNCHANGED <<box, proc>>

-----------------------------------------------------------------------------
(* replaceComputer, up to its call of provisionComputer. Its first reads   *)
(* are one action: the claim asks for the stamp and the leases again, and  *)
(* the recheck for the runs.                                               *)

ReplaceSurveys(p) ==
  /\ proc[p].pc = "survey"
  /\ IF \/ row.state = "suspending"
        \/ row.state = "booting" /\
             (ForeignLease(env.bot[p]) \/ ~row.aged \/ \E i \in Ids : Active(i))
     THEN Go(p, "requeue") /\ UNCHANGED current
     ELSE /\ Becomes(p, [proc[p] EXCEPT !.pc = "seize", !.seen = row.state, !.ref = row.ref])
          /\ current' = current \cup {p}
  /\ UNCHANGED <<row, box, lease, runs>> /\ Others

ReplaceClaims(p) ==
  LET matches == /\ row.state = proc[p].seen
                 /\ row.state = "booting" => p \in current
                 /\ ~ForeignLease(env.bot[p])
  IN
  /\ proc[p].pc = "seize"
  /\ \/ matches /\ Write("suspending", row.ref, {}) /\ Go(p, "recheck")
     \/ ~matches /\ KeepRow /\ Go(p, "requeue")
  /\ Others /\ UNCHANGED <<box, lease, runs>>

(* Mutant: the runs are not looked at again after the claim. *)
ReplaceRechecksNothing(p) ==
  /\ proc[p].pc = "recheck"
  /\ Go(p, "destroy") /\ KeepRow
  /\ Others /\ UNCHANGED <<box, lease, runs>>
ReplaceRechecks(p) ==
  /\ proc[p].pc = "recheck"
  /\ \/ /\ \E i \in Ids : Active(i)
        /\ IF row.state = "suspending" THEN Write(proc[p].seen, row.ref, {}) ELSE KeepRow
        /\ Go(p, "requeue")
     \/ ~(\E i \in Ids : Active(i)) /\ Go(p, "destroy") /\ KeepRow
  /\ Others /\ UNCHANGED <<box, lease, runs>>

(* Some modes record a checkpoint first. A checkpoint or teardown that     *)
(* fails is ignored in mode "recover" and puts the row in error otherwise. *)
ReplaceDestroys(p) ==
  LET ref == proc[p].ref IN
  /\ proc[p].pc = "destroy"
  /\ \/ /\ box' = IF Exists(ref) THEN [box EXCEPT ![ref] = "gone"] ELSE box
        /\ Go(p, "clear") /\ (KeepRow \/ Recorded)
     \/ /\ ref # NoRef /\ UNCHANGED box
        /\ IF env.recover THEN (KeepRow \/ Recorded) /\ Go(p, "clear")
           ELSE Write("error", row.ref, {}) /\ Go(p, "requeue")
  /\ Others /\ UNCHANGED <<lease, runs>>

ReplaceClears(p) ==
  /\ proc[p].pc = "clear"
  /\ Write("stopped", NoRef, {})
  /\ Becomes(p, At(p, "read"))
  /\ Others /\ UNCHANGED <<box, lease, runs>>

-----------------------------------------------------------------------------
(* sleepComputerIfIdle *)

StillMine(s) == row.state = "suspending" /\ row.ref = sleeper[s].ref /\ s \in current
Sleeps(s, pc) ==
  sleeper' = [sleeper EXCEPT ![s] = [pc |-> pc, ref |-> IF pc = "idle" THEN NoRef ELSE @.ref]]
Ignores(s) == Forget(s) /\ Sleeps(s, "idle")
Wakes(s) == IF StillMine(s) THEN Write("running", row.ref, {}) ELSE Forget(s)
Rest == UNCHANGED <<env, lease, runs, proc, stopper, crashes>>

SleepReads(s) ==
  /\ sleeper[s].pc = "idle"
  /\ row.state = "running" /\ row.ref # NoRef
  /\ sleeper' = [sleeper EXCEPT ![s] = [pc |-> "runs", ref |-> row.ref]]
  /\ current' = current \cup {s}
  /\ UNCHANGED <<row, box>> /\ Rest

SleepAsksRuns(s) ==
  /\ sleeper[s].pc = "runs"
  /\ IF \E i \in Ids : Active(i) THEN Ignores(s) ELSE KeepRow /\ Sleeps(s, "claim")
  /\ UNCHANGED box /\ Rest

SleepMatches(s) ==
  /\ row.state = "running" /\ row.ref = sleeper[s].ref /\ s \in current
  /\ \A b \in Bots : ~lease[b].live

SleepClaims(s) ==
  /\ sleeper[s].pc = "claim"
  /\ \/ SleepMatches(s) /\ Write("suspending", row.ref, {s}) /\ Sleeps(s, "checkpoint")
     \/ ~SleepMatches(s) /\ Ignores(s)
  /\ UNCHANGED box /\ Rest

(* The revision is saved under the claim, with the claim's own stamp. *)
SleepCheckpoints(s) ==
  /\ sleeper[s].pc = "checkpoint"
  /\ \/ StillMine(s) /\ KeepRow /\ Sleeps(s, "recheck")
     \/ Wakes(s) /\ Sleeps(s, "idle")
  /\ UNCHANGED box /\ Rest

SleepGoesOn(s) == StillMine(s) /\ ~(\E i \in Ids : Active(i))

SleepRechecks(s) ==
  /\ sleeper[s].pc = "recheck"
  /\ \/ SleepGoesOn(s) /\ KeepRow /\ Sleeps(s, "stop")
     \/ ~SleepGoesOn(s) /\ Wakes(s) /\ Sleeps(s, "idle")
  /\ UNCHANGED box /\ Rest

SleepStops(s) ==
  LET ref == sleeper[s].ref IN
  /\ sleeper[s].pc = "stop"
  /\ \/ /\ Exists(ref)
        /\ box' = [box EXCEPT ![ref] = "stopped"]
        /\ KeepRow /\ Sleeps(s, "record")
     \/ UNCHANGED box /\ Wakes(s) /\ Sleeps(s, "idle")
  /\ Rest

SleepRecords(s) ==
  /\ sleeper[s].pc = "record"
  /\ IF StillMine(s) THEN Write("suspended", row.ref, {}) ELSE Forget(s)
  /\ Sleeps(s, "idle")
  /\ UNCHANGED box /\ Rest

-----------------------------------------------------------------------------
(* The user's stop request. The state it may put back is the one it read   *)
(* before its claim.                                                       *)

Ends(k, pc) == stopper' = [stopper EXCEPT ![k].pc = pc]
Still == UNCHANGED <<env, runs, proc, sleeper, crashes>>
ForeignActive == \E i \in Ids : Active(i) /\ \E p \in Procs : env.run[p] = i /\ env.bot[p] # StopBot

StopReads(k) ==
  /\ stopper[k].pc = "idle"
  /\ stopper' = [stopper EXCEPT ![k] = [pc |-> "claim", seen |-> row.state, ref |-> row.ref]]
  /\ KeepRow /\ UNCHANGED <<box, lease>> /\ Still

StopClaims(k) ==
  LET matches == row.state # "suspending" /\ ~ForeignLease(StopBot) IN
  /\ stopper[k].pc = "claim"
  /\ \/ matches /\ Write("suspending", row.ref, {}) /\ Ends(k, "recheck")
     \/ ~matches /\ KeepRow /\ Ends(k, "idle")
  /\ UNCHANGED <<box, lease>> /\ Still

StopRechecks(k) ==
  /\ stopper[k].pc = "recheck"
  /\ \/ /\ ForeignActive
        /\ IF row.state = "suspending" THEN Write(stopper[k].seen, row.ref, {}) ELSE KeepRow
        /\ Ends(k, "idle")
     \/ ~ForeignActive /\ KeepRow /\ Ends(k, "delete")
  /\ UNCHANGED <<box, lease>> /\ Still

StopDeletesLeases(k) ==
  /\ stopper[k].pc = "delete"
  /\ lease' = [lease EXCEPT ![StopBot] = NoLease]
  /\ Ends(k, IF stopper[k].ref = NoRef THEN "record" ELSE "stop")
  /\ KeepRow /\ UNCHANGED box /\ Still

StopStops(k) ==
  LET ref == stopper[k].ref IN
  /\ stopper[k].pc = "stop"
  /\ \/ /\ Exists(ref)
        /\ box' = [box EXCEPT ![ref] = "stopped"] /\ Recorded /\ Ends(k, "record")
     \/ UNCHANGED box /\ (KeepRow \/ Recorded) /\ Ends(k, "fail")
  /\ UNCHANGED lease /\ Still

StopRecords(k) ==
  /\ \/ /\ stopper[k].pc = "record"
        /\ Write("stopped", row.ref, {})
     \/ /\ stopper[k].pc = "fail"
        /\ IF row.state = "suspending" THEN Write("error", row.ref, {}) ELSE KeepRow
  /\ Ends(k, "idle")
  /\ UNCHANGED <<box, lease>> /\ Still

-----------------------------------------------------------------------------
(* Time and failures *)

Alive(p) == proc[p].pc # "idle"

(* A boot outlasts BOOT_CLAIM_STALE_MS only while its run's heartbeat      *)
(* renews the run lease: assumed of the others (README) that a cancelled   *)
(* run's boot is aborted, and a manual boot ends, before it is that old.   *)
Age ==
  /\ row.state = "booting" /\ ~row.aged
  /\ \A p \in Procs : Booting(p) => runs[env.run[p]].by = p
  /\ row' = [row EXCEPT !.aged = TRUE]
  /\ Others /\ UNCHANGED <<current, box, lease, runs, proc>>

(* The heartbeats renew a living execution's leases. *)
RunLeaseLapses(i) ==
  /\ runs[i].status = "live"
  /\ ~Alive(runs[i].by)
  /\ runs' = [runs EXCEPT ![i].status = "lapsed"]
  /\ KeepRow /\ Others /\ UNCHANGED <<box, lease, proc>>

ComputerLeaseLapses(b) ==
  /\ lease[b].live
  /\ \A p \in Procs : Alive(p) /\ env.bot[p] = b => ~Own(p)
  /\ lease' = [lease EXCEPT ![b].live = FALSE]
  /\ KeepRow /\ Others /\ UNCHANGED <<box, runs, proc>>

Crash(p) ==
  /\ Alive(p) /\ crashes < env.crashes
  /\ crashes' = crashes + 1
  /\ Becomes(p, Idle)
  /\ Forget(p) /\ UNCHANGED <<env, box, lease, runs, sleeper, stopper>>

SleepCrash(s) ==
  /\ sleeper[s].pc # "idle" /\ crashes < env.crashes
  /\ crashes' = crashes + 1
  /\ Ignores(s) /\ UNCHANGED <<env, box, lease, runs, proc, stopper>>

-----------------------------------------------------------------------------
Enter(p) ==
  \/ AcquireReads(p) \/ AcquireTakes(p) \/ AcquireValidates(p)
  \/ Requeue(p) \/ releaseComputerExecutionLease(p)

provisionComputer(p) ==
  \/ ProvisionReads(p) \/ ProvisionAsksRuns(p) \/ ProvisionWaits(p)
  \/ ProvisionAsksRunsAgain(p) \/ ProvisionClaims(p) \/ Provision(p) \/ Activate(p)
  \/ PrepareFails(p) \/ rollbackProvisionedComputer(p) \/ RecordFailure(p)

replaceComputer(p) ==
  \/ ReplaceSurveys(p) \/ ReplaceClaims(p) \/ ReplaceRechecks(p)
  \/ ReplaceDestroys(p) \/ ReplaceClears(p)

Turn(p) == Finish(p) \/ CheckpointEnds(p)

sleepComputerIfIdle(s) ==
  \/ SleepReads(s) \/ SleepAsksRuns(s) \/ SleepClaims(s) \/ SleepCheckpoints(s)
  \/ SleepRechecks(s) \/ SleepStops(s) \/ SleepRecords(s)

stop(k) ==
  \/ StopReads(k) \/ StopClaims(k) \/ StopRechecks(k) \/ StopDeletesLeases(k)
  \/ StopStops(k) \/ StopRecords(k)

Next ==
  \/ \E p \in Procs :
       \/ Begin(p) \/ Enter(p) \/ provisionComputer(p) \/ replaceComputer(p)
       \/ Turn(p) \/ Checkpoint(p) \/ Crash(p)
  \/ \E s \in env.sleepers : sleepComputerIfIdle(s) \/ SleepCrash(s)
  \/ \E k \in env.stoppers : stop(k)
  \/ \E i \in Ids : \/ Create(i) \/ Cancel(i) \/ expireComputerExecutionLeases(i)
                    \/ RunLeaseLapses(i)
  \/ \E b \in Bots : ComputerLeaseLapses(b)
  \/ Age

Spec == Init /\ [][Next]_vars

-----------------------------------------------------------------------------
(* Properties *)

(* A user's stop claims any row but a suspending one, it and a replacement *)
(* put back the state they read before, and the checkpoint of a run that   *)
(* needs no claim moves a claim's stamp: what the claims promise each      *)
(* other holds where none of these comes between (README, Disagreements).  *)
NoStop == env.stoppers = {}
NoReplace == \A p \in Procs : env.kind[p] # "replace"
ClaimedCheckpoints == env.team /\ env.remote
OneRunAlone ==
  \A p, q \in Procs : env.kind[p] = "run" /\ env.kind[q] # "none" => env.run[p] = env.run[q]
ByItself == NoStop /\ NoReplace /\ (ClaimedCheckpoints \/ OneRunAlone)
SleepsByItself == NoStop /\ (ClaimedCheckpoints \/ env.sleepers = {})
StopsByItself ==
  /\ \A k, l \in env.stoppers : k = l
  /\ NoReplace /\ ~ClaimedCheckpoints /\ env.sleepers = {}

(* A claim on the row: somebody is provisioning under the row's stamp. *)
Provisioner(p) == proc[p].pc \in {"provision", "activate"}

(* At most one execution provisions the computer at a time: whatever the   *)
(* interleaving of the claims of fresh, running and abandoned rows, two    *)
(* boots never work on two sandboxes ("stealing would double-provision",   *)
(* computer-lifecycle.ts).                                                 *)
OneProvisioner ==
  NoStop => \A p, q \in Procs : Provisioner(p) /\ Provisioner(q) => p = q

(* A row that says running names a sandbox that is up: no rollback, sleep  *)
(* or replacement that lost a race stops or destroys the sandbox behind    *)
(* the row a winner activated.                                             *)
RunningIsUp ==
  NoStop /\ row.state = "running" => row.ref # NoRef /\ box[row.ref] = "up"

Works(p) == proc[p].pc \in {"using", "checkpoint"} /\ runs[env.run[p]].by = p

(* A run that is working on the computer, and has not been cancelled,      *)
(* keeps its sandbox: idle sleep and replacements see its lease or its run *)
(* at one of their two looks.                                              *)
UsersKeepTheirBox ==
  NoStop => \A p \in Procs : Works(p) => box[proc[p].got] = "up"

(* No sandbox goes away under the row that names it or under its users.    *)
SandboxIsKept == RunningIsUp /\ UsersKeepTheirBox

(* A sandbox that is up is named by the row or is in the hands of an       *)
(* execution that will activate it or roll it back, until a rollback       *)
(* itself fails or a worker dies.                                          *)
NoOrphan ==
  crashes = 0 /\ ByItself =>
  \A r \in Refs : box[r] = "up" =>
    \/ row.ref = r
    \/ \E p \in Procs : proc[p].got = r /\ proc[p].pc \in Provisioning

(* While nobody dies, a row is suspending only while somebody holds that   *)
(* claim and will end it; nothing in the code takes a suspending row over. *)
SuspendingIsHeld ==
  row.state = "suspending" /\ crashes = 0 /\ (SleepsByItself \/ StopsByItself) =>
    \/ \E s \in Sleepers : sleeper[s].pc \in {"checkpoint", "recheck", "stop", "record"}
    \/ \E p \in Procs : proc[p].pc \in {"checkpoint", "recheck", "destroy", "clear"}
    \/ \E k \in Stoppers : stopper[k].pc \in {"recheck", "delete", "stop", "record", "fail"}

(* The same of a booting row, which an execution will move on.             *)
BootingIsHeld ==
  row.state = "booting" /\ crashes = 0 /\ ByItself => \E p \in Procs : Booting(p) /\ p \in current

(* While nobody dies, a row in transition has somebody who will end the    *)
(* transition, and one alone: "a booting row whose only live lease is our  *)
(* own belongs to a worker that died between the claim and its own failure *)
(* handler" (computer-lifecycle.ts).                                       *)
TransitionIsHeld == OneProvisioner /\ SuspendingIsHeld /\ BootingIsHeld

(* The scheduler runs what is queued, the reconciler notices lapsed leases *)
(* and the clock moves; a process that lives takes its next statement.     *)
Fairness ==
  /\ \A p \in Procs : WF_vars(env.kind[p] = "run" /\ Begin(p))
  /\ \A p \in Procs : WF_vars(Enter(p) \/ provisionComputer(p) \/ replaceComputer(p) \/ Turn(p))
  /\ \A s \in Sleepers : WF_vars(sleeper[s].pc # "idle" /\ sleepComputerIfIdle(s))
  /\ \A i \in Ids : WF_vars(RunLeaseLapses(i)) /\ WF_vars(expireComputerExecutionLeases(i))
  /\ \A b \in Bots : WF_vars(ComputerLeaseLapses(b))
  /\ WF_vars(Age)

LiveSpec == Spec /\ Fairness

(* A boot abandoned by a worker that died is taken over: a booting row     *)
(* leaves that state as long as a run still wants the computer.            *)
BootIsReclaimed ==
  (row.state = "booting") ~> (row.state # "booting" \/ ~\E i \in Ids : Active(i))

=============================================================================
