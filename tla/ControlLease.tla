---------------------------- MODULE ControlLease ----------------------------
(***************************************************************************)
(* The user's control of a bot's screen: a lease on the computer's row,    *)
(* the grant of it that the sandbox provider holds for the bot's display,  *)
(* the run that waits for the user, and the job that ends a lease whose    *)
(* time is over. Requests and jobs interleave; an action is one statement, *)
(* transaction, enqueue or call of the provider.                           *)
(*   packages/adapters/src/computer-control.ts, job-reconciler.ts;         *)
(*   packages/db/src/events.ts; apps/api/src/router.ts, computer-status.ts *)
(***************************************************************************)
EXTENDS Naturals, FiniteSets

CONSTANTS
  Bots,        \* the bots that share the computer
  Procs,       \* requests and jobs at work at one time
  MaxLeases,   \* bound: control leases granted
  Settings,    \* the environments a behaviour may have, with their bounds
  NoBot

ASSUME ControlAssumption ==
  /\ NoBot \notin Bots /\ MaxLeases \in Nat
  /\ Settings \subseteq
       [asks : SUBSET {"takeover", "release", "screen", "status", "teach"},
        workers : SUBSET Bots, procs : SUBSET Procs,
        leases : 0 .. MaxLeases, faults : Nat, crashes : Nat]

VARIABLES
  computer,  \* the control columns of the row; run: the bot whose run is controlRunId;
             \* due: controlLeaseExpiresAt is past
  issued,    \* leases granted so far: they are 1 .. issued, 0 is none
  screen,    \* the provider: the lease in whose name a display takes input
  run,       \* the status of each bot's run
  job,       \* the expiry job of the row's lease is enqueued; one for a lease
             \* that has left the row finds nothing to do and is left out
  proc,      \* local state of the requests and jobs
  env        \* what goes on around: the kinds of request users make (asks), the bots
             \* whose runs work, the requests and jobs there are, and how many leases
             \* can be granted, calls fail and requests die from now on

vars == <<computer, issued, screen, run, job, proc, env>>

Leases == 1 .. MaxLeases
NoLease == 0
Row ==
  [holder : {"none", "bot", "user"}, lease : 0 .. MaxLeases, bot : Bots \cup {NoBot},
   run : Bots \cup {NoBot}, due : BOOLEAN]

(* Where requests and jobs are, and what they are for; the steps of a      *)
(* session are TeachingSession's.                                          *)
TakeoverPcs ==
  {"evict", "clear", "reread", "check", "grant", "adopt", "bind", "schedule", "reschedule", "undo"}
DenialPcs == {"deny", "expireRevoke", "expireFinalize"}
LetGoPcs == {"skillRevoke", "skillUnschedule", "skillLetGo"}
TeachPcs ==
  {"teachCancel", "teachExtend", "teachGrant", "teachSchedule", "teachCreate", "teachEnqueue",
   "skillRead", "stopRead", "skillFinalize", "skillRelease", "skillEmit", "skillCancel",
   "skillEnd", "removeCancel", "skillDelete"} \cup LetGoPcs
Pcs ==
  {"idle", "expire", "revoke", "finalize", "connect"} \cup TakeoverPcs \cup DenialPcs \cup TeachPcs
TeachOps == {"teach", "skillStop", "skillStopped", "skillExpire", "skillRemove"}
Ops == {"none", "takeover", "release", "screen", "status", "expire"} \cup TeachOps
ProcState == [pc : Pcs, op : Ops, bot : Bots \cup {NoBot}, seen : Row]

TypeOK ==
  /\ computer \in Row
  /\ computer.holder = "user" => computer.lease # NoLease
  /\ computer.lease # NoLease <=> computer.bot # NoBot
  /\ computer.lease <= issued
  /\ issued \in 0 .. MaxLeases
  /\ screen \in [Bots -> 0 .. MaxLeases]
  /\ run \in [Bots -> {"none", "running", "waiting", "queued"}]
  /\ job \in BOOLEAN
  /\ proc \in [Procs -> ProcState]
  /\ env.leases \in Nat /\ env.faults \in Nat /\ env.crashes \in Nat

Free(holder) ==
  [holder |-> holder, lease |-> NoLease, bot |-> NoBot, run |-> NoBot, due |-> FALSE]
Idle == [pc |-> "idle", op |-> "none", bot |-> NoBot, seen |-> Free("none")]

Init ==
  /\ computer = Free("none") /\ issued = 0
  /\ screen = [b \in Bots |-> NoLease]
  /\ run = [b \in Bots |-> "none"]
  /\ job = FALSE
  /\ proc = [p \in Procs |-> Idle]
  /\ env \in Settings

hasActiveComputerControl(c) == c.holder = "user" /\ c.lease # NoLease /\ ~c.due
Active == hasActiveComputerControl(computer)

At(p, pc) == proc[p].pc = pc
Seen(p) == proc[p].seen
Asked(kind) == kind \in env.asks
Starts(p, op, b, pc) ==
  /\ At(p, "idle") /\ p \in env.procs
  /\ proc' = [proc EXCEPT ![p] = [pc |-> pc, op |-> op, bot |-> b, seen |-> computer]]
Goes(p, pc) == proc' = [proc EXCEPT ![p].pc = pc]
GoesSeeing(p, pc) == proc' = [proc EXCEPT ![p].pc = pc, ![p].seen = computer]
GoesOn(p) == proc' = [proc EXCEPT ![p].pc = "check", ![p].seen = Free("none")]
Ends(p) == proc' = [proc EXCEPT ![p] = Idle]

Fault == env.faults > 0 /\ env' = [env EXCEPT !.faults = @ - 1]
NoFault == UNCHANGED env

GrantsLease ==
  env.leases > 0 /\ env' = [env EXCEPT !.leases = @ - 1] /\ issued' = issued + 1

(* Mutant: the holder's column is forgotten. *)
ClearLeaseOnly(l) ==
  IF computer.lease = l
  THEN computer' = [Free("none") EXCEPT !.holder = computer.holder] /\ job' = FALSE
  ELSE UNCHANGED <<computer, job>>

(* updateMany WHERE controlLeaseId: the columns of that lease are cleared. *)
ClearLease(l) ==
  IF computer.lease = l THEN computer' = Free("none") /\ job' = FALSE
  ELSE UNCHANGED <<computer, job>>

scheduleComputerControlExpiry(l) == job' = (job \/ l = computer.lease)

(* setScreenControl(false) with a token ends no other token's grant. *)
setScreenControl(b, l) == screen' = [screen EXCEPT ![b] = IF @ = l THEN NoLease ELSE @]

(* The transaction that ends a lease and resumes the run bound to it: it   *)
(* misses a row whose lease, bot or run is not the caller's any more. (How *)
(* the takeover ended is part of RunLifecycle.)                            *)
Matches(seen) ==
  computer.lease = seen.lease /\ computer.bot = seen.bot /\ computer.run = seen.run

finalizeComputerControlRelease(seen, holder) ==
  IF Matches(seen)
  THEN /\ computer' = Free(holder) /\ job' = FALSE
       /\ run' = [b \in Bots |-> IF b = seen.run /\ b = seen.bot /\ run[b] = "waiting"
                                 THEN "queued" ELSE run[b]]
  ELSE UNCHANGED <<computer, run, job>>

-----------------------------------------------------------------------------
(* computer.takeover *)

takeoverReads(p, b) ==
  /\ Asked("takeover")
  /\ Starts(p, "takeover", b,
            IF Active THEN IF computer.bot = b THEN "bind" ELSE "evict"
            ELSE IF computer.lease # NoLease THEN "expire" ELSE "check")
  /\ UNCHANGED <<computer, issued, screen, run, job, env>>

(* Another bot's screen is taken from the user first. *)
evictRevokes(p) ==
  /\ At(p, "evict")
  /\ \/ setScreenControl(Seen(p).bot, Seen(p).lease) /\ Goes(p, "clear") /\ NoFault
     \/ Fault /\ Ends(p) /\ UNCHANGED screen
  /\ UNCHANGED <<computer, issued, run, job>>

evictClears(p) ==
  /\ At(p, "clear")
  /\ ClearLease(Seen(p).lease)
  /\ Goes(p, "reread")
  /\ UNCHANGED <<issued, screen, run, env>>

takeoverRereads(p) ==
  /\ At(p, "reread")
  /\ IF computer.lease # NoLease THEN GoesSeeing(p, "expire") ELSE GoesOn(p)
  /\ UNCHANGED <<computer, issued, screen, run, job, env>>

executionBlocksUserTakeover(b) == run[b] \in {"running", "queued"}

(* The run that waits, if there is one, is the run the grant will name. *)
takeoverChecks(p) ==
  LET b == proc[p].bot IN
  /\ At(p, "check")
  /\ IF executionBlocksUserTakeover(b) THEN Ends(p)
     ELSE proc' = [proc EXCEPT ![p].pc = "grant",
                               ![p].seen.run = IF run[b] = "waiting" THEN b ELSE NoBot]
  /\ UNCHANGED <<computer, issued, screen, run, job, env>>

Grantable == computer.holder # "user" /\ computer.lease = NoLease

takeoverGrants(p) ==
  /\ At(p, "grant")
  /\ \/ /\ Grantable /\ GrantsLease
        /\ computer' = [holder |-> "user", lease |-> issued + 1, bot |-> proc[p].bot,
                        run |-> Seen(p).run, due |-> FALSE]
        /\ proc' = [proc EXCEPT ![p].pc = "schedule", ![p].seen = computer']
     \/ /\ Grantable /\ env.leases = 0
        /\ Ends(p) /\ UNCHANGED <<computer, issued, env>>
     \/ /\ ~Grantable
        /\ Goes(p, "adopt") /\ UNCHANGED <<computer, issued, env>>
  /\ UNCHANGED <<screen, run, job>>

takeoverAdopts(p) ==
  /\ At(p, "adopt")
  /\ IF Active /\ computer.bot = proc[p].bot THEN GoesSeeing(p, "bind") ELSE Ends(p)
  /\ UNCHANGED <<computer, issued, screen, run, job, env>>

(* The run that began to wait after the grant is bound to the lease. *)
bindWaitingTakeoverToControl(p) ==
  LET b == proc[p].bot IN
  /\ At(p, "bind")
  /\ computer' = IF /\ run[b] = "waiting" /\ Seen(p).run # b
                    /\ computer.lease = Seen(p).lease /\ computer.bot = b
                 THEN [computer EXCEPT !.run = b] ELSE computer
  /\ Goes(p, "reschedule")
  /\ UNCHANGED <<issued, screen, run, job, env>>

(* A grant whose expiry cannot be scheduled is undone. *)
takeoverSchedules(p) ==
  /\ proc[p].pc \in {"schedule", "reschedule"}
  /\ \/ scheduleComputerControlExpiry(Seen(p).lease) /\ Ends(p) /\ NoFault
     \/ /\ Fault
        /\ IF At(p, "schedule") THEN Goes(p, "undo") ELSE Ends(p)
        /\ UNCHANGED job
  /\ UNCHANGED <<computer, issued, screen, run>>

takeoverUndoes(p) ==
  /\ At(p, "undo")
  /\ ClearLease(Seen(p).lease)
  /\ Ends(p)
  /\ UNCHANGED <<issued, screen, run, env>>

-----------------------------------------------------------------------------
(* computer.release, computer.screenUrl and the status that is read *)

releaseReads(p, b) ==
  /\ Asked("release")
  /\ computer.holder = "user" /\ computer.bot = b
  /\ Starts(p, "release", b, IF Active THEN "revoke" ELSE "expire")
  /\ UNCHANGED <<computer, issued, screen, run, job, env>>

releaseRevokes(p) ==
  /\ At(p, "revoke")
  /\ \/ setScreenControl(Seen(p).bot, Seen(p).lease) /\ Goes(p, "finalize") /\ NoFault
     \/ Fault /\ Ends(p) /\ UNCHANGED screen
  /\ UNCHANGED <<computer, issued, run, job>>

(* Its job is cancelled; the run's continuation is enqueued. *)
releaseFinalizes(p) ==
  /\ At(p, "finalize")
  /\ finalizeComputerControlRelease(Seen(p), "bot")
  /\ Ends(p)
  /\ UNCHANGED <<issued, screen, env>>

(* The stream is interactive if the user had control when the row was read. *)
screenReads(p, b) ==
  /\ Asked("screen") /\ Active /\ computer.bot = b
  /\ Starts(p, "screen", b, "connect")
  /\ UNCHANGED <<computer, issued, screen, run, job, env>>

connectScreen(p) ==
  /\ At(p, "connect")
  /\ screen' = [screen EXCEPT ![proc[p].bot] = Seen(p).lease]
  /\ Ends(p)
  /\ UNCHANGED <<computer, issued, run, job, env>>

(* expireStaleComputerControl, when the status of a bot is read *)
statusReads(p) ==
  /\ Asked("status") /\ computer.holder = "user" /\ ~Active
  /\ Starts(p, "status", NoBot, "expire")
  /\ UNCHANGED <<computer, issued, screen, run, job, env>>

-----------------------------------------------------------------------------
(* expireComputerControl, as a job and as a part of the requests *)

controlExpireJob(p) ==
  /\ job /\ computer.due
  /\ Starts(p, "expire", NoBot, "expire")
  /\ job' = FALSE
  /\ UNCHANGED <<computer, issued, screen, run, env>>

(* A takeover goes on, the others are done. *)
Returns(p) == IF proc[p].op = "takeover" THEN GoesOn(p) ELSE Ends(p)

(* A lease that has time left is scheduled again. *)
expireReads(p) ==
  /\ At(p, "expire")
  /\ IF computer.lease # Seen(p).lease
     THEN Returns(p) /\ UNCHANGED <<job, env>>
     ELSE IF computer.due
     THEN GoesSeeing(p, "deny") /\ UNCHANGED <<job, env>>
     ELSE \/ scheduleComputerControlExpiry(Seen(p).lease) /\ Returns(p) /\ NoFault
          \/ Fault /\ Ends(p) /\ UNCHANGED job
  /\ UNCHANGED <<computer, issued, screen, run>>

(* Input through the API is denied first; the lease id stays. *)
Denied == [computer EXCEPT !.holder = "none"]

expireDenies(p) ==
  /\ At(p, "deny")
  /\ IF computer.lease = Seen(p).lease
     THEN computer' = Denied /\ Goes(p, "expireRevoke")
     ELSE Returns(p) /\ UNCHANGED computer
  /\ UNCHANGED <<issued, screen, run, job, env>>

(* A failed call ends a request; the job is tried again or given up. *)
expireRevokes(p) ==
  /\ At(p, "expireRevoke")
  /\ \/ /\ setScreenControl(Seen(p).bot, Seen(p).lease)
        /\ Goes(p, "expireFinalize")
        /\ UNCHANGED <<job, env>>
     \/ /\ Fault
        /\ IF proc[p].op = "expire"
           THEN job' \in {job, job \/ Seen(p).lease = computer.lease}
           ELSE UNCHANGED job
        /\ Ends(p)
        /\ UNCHANGED screen
  /\ UNCHANGED <<computer, issued, run>>

expireFinalizes(p) ==
  /\ At(p, "expireFinalize")
  /\ finalizeComputerControlRelease(Seen(p), "none")
  /\ Returns(p)
  /\ UNCHANGED <<issued, screen, env>>

(* The reconciler enqueues the expiry of every lease that is due, whoever  *)
(* is the holder.                                                          *)
(* Mutant: it looks for the user's control, which a first attempt denies.  *)
LapsedHeld == computer.holder = "user" /\ computer.due
Lapsed == computer.lease # NoLease /\ computer.due

reconcileOnce ==
  /\ Lapsed
  /\ scheduleComputerControlExpiry(computer.lease)
  /\ UNCHANGED <<computer, issued, screen, run, proc, env>>

leaseLapses ==
  /\ computer.lease # NoLease /\ ~computer.due
  /\ computer' = [computer EXCEPT !.due = TRUE]
  /\ UNCHANGED <<issued, screen, run, job, proc, env>>

Crash(p) ==
  /\ ~At(p, "idle")
  /\ env.crashes > 0
  /\ env' = [env EXCEPT !.crashes = @ - 1]
  /\ Ends(p)
  /\ UNCHANGED <<computer, issued, screen, run, job>>

-----------------------------------------------------------------------------
(* The runs *)

(* Before a run works on the computer, provisioning ends a lease whose time *)
(* is over; an active one stays with the user.                             *)
runTakesComputer(b) ==
  /\ b \in env.workers
  /\ run[b] \in {"none", "queued"}
  /\ computer.lease = NoLease \/ Active
  /\ run' = [run EXCEPT ![b] = "running"]
  /\ UNCHANGED <<computer, issued, screen, job, proc, env>>

(* An active lease of the same bot is kept and bound; another bot's is     *)
(* left alone; anything else is cleared.                                   *)
Retains(b) == Active /\ computer.bot = b
(* Mutant: a foreign lease counts as stale. *)
PreservesNone(b) == FALSE
PreservesForeign(b) == Active /\ computer.bot # b

pauseRunForTakeover(b) ==
  /\ run[b] = "running"
  /\ run' = [run EXCEPT ![b] = "waiting"]
  /\ computer' = IF Retains(b) THEN [computer EXCEPT !.run = b]
                 ELSE IF PreservesForeign(b) THEN computer
                 ELSE [Free("none") EXCEPT !.run = b]
  /\ job' = (job /\ computer'.lease # NoLease)
  /\ UNCHANGED <<issued, screen, proc, env>>

(* Completed, failed or cancelled. *)
runEnds(b) ==
  /\ run[b] # "none"
  /\ run' = [run EXCEPT ![b] = "none"]
  /\ UNCHANGED <<computer, issued, screen, job, proc, env>>

-----------------------------------------------------------------------------
Request(p) ==
  \/ \E b \in Bots : takeoverReads(p, b)
  \/ \E b \in Bots : releaseReads(p, b)
  \/ \E b \in Bots : screenReads(p, b)
  \/ statusReads(p)

Proceed(p) ==
  \/ evictRevokes(p) \/ evictClears(p) \/ takeoverRereads(p) \/ takeoverChecks(p)
  \/ takeoverGrants(p) \/ takeoverAdopts(p) \/ bindWaitingTakeoverToControl(p)
  \/ takeoverSchedules(p) \/ takeoverUndoes(p)
  \/ releaseRevokes(p) \/ releaseFinalizes(p) \/ connectScreen(p)
  \/ expireReads(p) \/ expireDenies(p) \/ expireRevokes(p) \/ expireFinalizes(p)

RunStep(b) == runTakesComputer(b) \/ pauseRunForTakeover(b) \/ runEnds(b)

Next ==
  \/ \E p \in Procs : Request(p) \/ Proceed(p) \/ controlExpireJob(p) \/ Crash(p)
  \/ \E b \in Bots : RunStep(b)
  \/ leaseLapses \/ reconcileOnce

Spec == Init /\ [][Next]_vars

(* Requests and jobs that have begun go on, the worker takes its jobs, the *)
(* reconciler comes round. Users, runs and the clock owe nothing.          *)
FairSpec ==
  /\ Spec
  /\ \A p \in Procs : WF_vars(Proceed(p)) /\ SF_vars(controlExpireJob(p))
  /\ WF_vars(reconcileOnce)

-----------------------------------------------------------------------------
(* The run a lease names is a run of the bot whose screen it is for:       *)
(* otherwise a release would clear the name and resume nobody              *)
(* (packages/db/src/events.ts:813-816).                                    *)
BindingIsOwn ==
  computer.lease # NoLease /\ computer.run # NoBot => computer.bot = computer.run

(* Control that has time left is only ended by a request for it: its own   *)
(* release, another bot's takeover, or the takeover that could not schedule *)
(* its end. Expiry, pauses and whoever acts for an earlier lease do not.   *)
ControlIsKept ==
  [][Active /\ "teach" \notin env.asks =>
       \/ computer'.lease = computer.lease /\ computer'.holder = "user"
       \/ \E p \in Procs : /\ proc[p].pc \in {"clear", "finalize", "undo"}
                           /\ Seen(p).lease = computer.lease
                           /\ proc'[p] # proc[p]]_vars

(* A control lease stays what its request made it: bound to a run of its   *)
(* own bot, and the user's for as long as it has time left.                *)
ControlIsOwn == []BindingIsOwn /\ ControlIsKept

(* A lease whose time is over leaves the row, although providers and       *)
(* enqueues fail and jobs die, unless it is extended: its id is kept until *)
(* the screen is revoked, and the reconciler finds the row by it.          *)
LapsedLeaseGoes ==
  \A l \in Leases :
    (computer.lease = l /\ computer.due) ~> (computer.lease # l \/ ~computer.due)

(* The run it names resumes with it, unless the lease is extended, the run *)
(* ended, another bot's run pauses, or a request that has read the row     *)
(* earlier clears it: another bot's takeover, or one that is undone.       *)
BoundRunResumes ==
  \A b \in Bots :
    (computer.lease # NoLease /\ computer.due /\ computer.run = b /\ run[b] = "waiting")
      ~> \/ run[b] # "waiting" \/ (~computer.due /\ computer.run = b)
         \/ \E c \in Bots \ {b} : computer.run = c
         \/ \E p \in Procs : /\ proc[p].pc \in {"clear", "undo"}
                             /\ Seen(p).lease = computer.lease

(* The end of a lease's time ends both: its hold on the row and the wait   *)
(* of its run.                                                             *)
LapsedLeaseEnds == LapsedLeaseGoes /\ BoundRunResumes

(* Keeping the lease id makes a failed revocation one that is tried again  *)
(* (packages/adapters/src/computer-control.ts:203-204): a screen whose     *)
(* lease the expiry has denied is revoked in the end.                      *)
FailedRevokeIsRetried ==
  \A b \in Bots, l \in Leases :
    (screen[b] = l /\ computer.lease = l /\ computer.holder = "none") ~> screen[b] # l
=============================================================================
