--------------------------- MODULE RoutineWakeups ---------------------------
(***************************************************************************)
(* One routine of a bot, its wakeup job, the runs its wakeups create, and  *)
(* the elected reconciler that restores lost jobs. A wakeup claims the     *)
(* occurrence with a compare-and-set on nextRunAt, creates the run in the  *)
(* same transaction and schedules the next; whatever is lost between two   *)
(* of these the reconciler finds in the rows. Times are occurrences of the *)
(* cron, and 0 stands for null. An action is one statement, transaction or *)
(* call of the queue.                                                      *)
(*   packages/adapters/src/executor.ts (wakeRoutine), schedule-tools.ts,   *)
(*   job-reconciler.ts, wakeup.ts; apps/api/src/router.ts (routines)       *)
(***************************************************************************)
EXTENDS Naturals, FiniteSets

CONSTANTS
  Workers,    \* worker processes: each runs one job at a time and a reconciler
  RunIds,     \* bound: runs created
  Horizon,    \* bound: occurrences
  Routines,   \* what the environment may do, see RoutineAssumption
  NoWorker

ASSUME RoutineAssumption ==
  /\ Horizon \in Nat \ {0} /\ NoWorker \notin Workers /\ IsFiniteSet(RunIds)
  /\ Routines \subseteq
       [once : BOOLEAN,       \* a one-shot, made from chat
        durable : BOOLEAN,    \* the jobs are kept by Postgres, not by the process
        workers : SUBSET Workers,  \* which execute jobs
        recs : SUBSET Workers,     \* which run a reconciler
        first : 1 .. Horizon,      \* its first occurrence
        horizon : 0 .. Horizon,    \* the last occurrence that comes
        asks : SUBSET {"create", "rename", "reschedule", "on", "off", "remove"},
        failures : Nat,       \* bound: calls of the queue that fail
        deaths : Nat]         \* bound: deaths of workers, losses of the election

VARIABLES
  scene,    \* which of the routines this is
  now,      \* the last occurrence that has come
  routine,  \* the row
  wake,     \* the date of the job under the routine's key, or 0
  job,      \* the runs with a job in the queue
  run,      \* the runs: the occurrence they are for, and whether they began
  flight,   \* the wakeup each worker is executing
  rec,      \* the reconciler of each worker
  lock,     \* the holder of the advisory lock
  user,     \* the request in progress
  want,     \* whether the user wants the routine on
  budget    \* failures and deaths left, and the requests not made yet

routineVars == <<scene, now, routine, wake, job, run, flight, rec, lock, user, want, budget>>

Date == 0 .. Horizon + 1
Null == 0

RoutineTypeOK ==
  /\ now \in 0 .. Horizon
  /\ routine \in [exists : BOOLEAN, active : BOOLEAN, next : Date, ran : BOOLEAN]
  /\ wake \in Date
  /\ job \subseteq RunIds
  /\ run \in [RunIds -> [state : {"none", "queued", "begun"}, for : Date]]
  /\ flight \in [Workers ->
       [pc : {"idle", "read", "defer", "claim", "enqueue", "restore", "next"},
        for : Date, next : Date, run : RunIds \cup {"none"}, retries : BOOLEAN, ran : BOOLEAN]]
  /\ rec \in [Workers -> [pc : {"idle", "scan", "enqueue"}, leads : BOOLEAN,
                          wake : Date, runs : SUBSET RunIds]]
  /\ lock \in Workers \cup {NoWorker}
  /\ user.pc \in {"idle", "write", "sync", "delete", "cancel", "enqueue", "undo"}

Gone == [exists |-> FALSE, active |-> FALSE, next |-> Null, ran |-> FALSE]
NoFlight == [pc |-> "idle", for |-> Null, next |-> Null, run |-> "none", retries |-> FALSE,
             ran |-> FALSE]
Follows == [pc |-> "idle", leads |-> FALSE, wake |-> Null, runs |-> {}]
NoRequest == [pc |-> "idle", ask |-> "none", before |-> <<>>, after |-> <<>>, fresh |-> Null]

RoutineInit ==
  /\ scene \in Routines
  /\ now = 0
  /\ routine = IF "create" \in scene.asks THEN Gone
               ELSE [exists |-> TRUE, active |-> TRUE, next |-> scene.first, ran |-> FALSE]
  /\ wake = IF "create" \in scene.asks THEN Null ELSE scene.first
  /\ job = {}
  /\ run = [r \in RunIds |-> [state |-> "none", for |-> Null]]
  /\ flight = [w \in Workers |-> NoFlight]
  /\ rec = [w \in Workers |-> Follows]
  /\ lock = NoWorker
  /\ user = NoRequest
  /\ want = TRUE
  /\ budget = [failures |-> scene.failures, deaths |-> scene.deaths, asks |-> scene.asks]

-----------------------------------------------------------------------------
(* The queue *)

(* addJob under the routine's key: it replaces the job that waits, and a   *)
(* job with that key in execution is not repeated any more.                *)
Detached == [w \in Workers |-> [flight[w] EXCEPT !.retries = FALSE]]
Spent == budget' = [budget EXCEPT !.failures = @ - 1]
MayFail == budget.failures > 0

(* The handler has thrown: a durable job waits again. *)
Retry(w) ==
  /\ flight' = [flight EXCEPT ![w] = NoFlight]
  /\ wake' = IF scene.durable /\ flight[w].retries THEN flight[w].for ELSE wake

(* The timer of an in-memory job that is too far away for one fires at     *)
(* once (setTimeout); any other job is due at its date.                    *)
Due == wake <= now \/ (~scene.durable /\ wake > now + 1)

Later(a, b) == IF a > b THEN a ELSE b
Occurrence(after) == after + 1

-----------------------------------------------------------------------------
(* wakeRoutine *)

takeWakeup(w) ==
  /\ flight[w].pc = "idle" /\ w \in scene.workers /\ wake # Null /\ Due
  /\ flight' = [flight EXCEPT ![w] =
       [NoFlight EXCEPT !.pc = "read", !.for = wake, !.retries = scene.durable]]
  /\ wake' = Null
  /\ UNCHANGED <<scene, now, routine, job, run, rec, lock, user, want, budget>>

(* Mutant: a job whose date has not come goes on. *)
deferNever(date) == FALSE
(* deferFutureRoutine *)
defer(date) == date > now

wakeReads(w) ==
  LET f == flight[w] IN
  /\ f.pc = "read"
  /\ flight' = [flight EXCEPT ![w] =
       IF ~routine.exists \/ ~routine.active \/ routine.next # f.for THEN NoFlight
       ELSE IF defer(f.for) THEN [f EXCEPT !.pc = "defer"]
       ELSE [f EXCEPT !.pc = "claim", !.ran = routine.ran,
                      !.next = IF scene.once THEN Null ELSE Occurrence(Later(now, f.for))]]
  /\ UNCHANGED <<scene, now, routine, wake, job, run, rec, lock, user, want, budget>>

wakeDefers(w) ==
  /\ flight[w].pc = "defer"
  /\ \/ /\ wake' = flight[w].for
        /\ flight' = [Detached EXCEPT ![w] = NoFlight]
        /\ UNCHANGED budget
     \/ /\ MayFail /\ Spent /\ Retry(w)
  /\ UNCHANGED <<scene, now, routine, job, run, rec, lock, user, want>>

(* Mutant: the claim asks only whether the routine is active. *)
ClaimableActive(w) == routine.exists /\ routine.active
Claimable(w) == routine.exists /\ routine.active /\ routine.next = flight[w].for

(* The transaction: the routine moves on and its run is queued. *)
wakeClaims(w) ==
  LET f == flight[w] IN
  /\ f.pc = "claim"
  /\ IF Claimable(w)
     THEN \E r \in RunIds :
            /\ run[r].state = "none" /\ r = CHOOSE i \in RunIds : run[i].state = "none"
            /\ routine' = [routine EXCEPT !.ran = TRUE, !.next = f.next,
                                          !.active = f.next # Null]
            /\ run' = [run EXCEPT ![r] = [state |-> "queued", for |-> f.for]]
            /\ flight' = [flight EXCEPT ![w].pc = "enqueue", ![w].run = r]
     ELSE flight' = [flight EXCEPT ![w] = NoFlight] /\ UNCHANGED <<routine, run>>
  /\ UNCHANGED <<scene, now, wake, job, rec, lock, user, want, budget>>

wakeEnqueues(w) ==
  /\ flight[w].pc = "enqueue"
  /\ \/ /\ job' = job \cup {flight[w].run}
        /\ flight' = [flight EXCEPT ![w].pc = "next"]
        /\ UNCHANGED budget
     \/ /\ MayFail /\ Spent
        /\ flight' = [flight EXCEPT ![w].pc = "restore"]
        /\ UNCHANGED job
  /\ UNCHANGED <<scene, now, routine, wake, run, rec, lock, user, want>>

(* Mutant: the occurrence is given back whatever the routine has become. *)
RestorableAny(w) == routine.exists
Restorable(w) ==
  /\ routine.exists /\ routine.next = flight[w].next
  /\ flight[w].next = Null => ~routine.active

(* The claim is undone, and the error is thrown. *)
wakeRestores(w) ==
  LET f == flight[w] IN
  /\ f.pc = "restore"
  /\ run' = IF run[f.run].state = "queued"
            THEN [run EXCEPT ![f.run] = [state |-> "none", for |-> Null]] ELSE run
  /\ job' = IF run[f.run].state = "queued" THEN job \ {f.run} ELSE job
  /\ routine' = IF Restorable(w)
                THEN [routine EXCEPT !.next = f.for, !.active = TRUE, !.ran = f.ran]
                ELSE routine
  /\ Retry(w)
  /\ UNCHANGED <<scene, now, rec, lock, user, want, budget>>

wakeSchedules(w) ==
  LET f == flight[w] IN
  /\ f.pc = "next"
  /\ \/ /\ wake' = f.next  \* a one-shot's key is cancelled
        /\ flight' = [Detached EXCEPT ![w] = NoFlight]
        /\ UNCHANGED budget
     \/ /\ MayFail /\ Spent
        /\ IF scene.once THEN flight' = [flight EXCEPT ![w] = NoFlight] /\ UNCHANGED wake
           ELSE Retry(w)
  /\ UNCHANGED <<scene, now, routine, job, run, rec, lock, user, want>>

runBegins(r) ==
  /\ run[r].state = "queued" /\ r \in job
  /\ run' = [run EXCEPT ![r].state = "begun"]
  /\ job' = job \ {r}
  /\ UNCHANGED <<scene, now, routine, wake, flight, rec, lock, user, want, budget>>

-----------------------------------------------------------------------------
(* The reconciler *)

(* A client that has led is not asked again until it hears of its loss. *)
tryAcquire(w) ==
  /\ rec[w].pc = "idle" /\ w \in scene.recs
  /\ rec[w].leads \/ lock = NoWorker
  /\ lock' = IF rec[w].leads THEN lock ELSE w
  /\ rec' = [rec EXCEPT ![w].leads = TRUE, ![w].pc = "scan"]
  /\ UNCHANGED <<scene, now, routine, wake, job, run, flight, user, want, budget>>

(* Mutant: routines are left to their jobs. *)
NearDueNever == FALSE
NearDue == routine.exists /\ routine.active /\ routine.next # Null /\ routine.next <= now + 1

(* Mutant: queued runs are left to their jobs. *)
ScannedNone == {}
Scanned == {r \in RunIds : run[r].state = "queued"}

reconcileScans(w) ==
  /\ rec[w].pc = "scan"
  /\ rec' = [rec EXCEPT ![w].pc = "enqueue", ![w].runs = Scanned,
                        ![w].wake = IF NearDue THEN routine.next ELSE Null]
  /\ UNCHANGED <<scene, now, routine, wake, job, run, flight, lock, user, want, budget>>

(* Promise.all: where a call fails the others are made all the same. *)
reconcileEnqueues(w) ==
  /\ rec[w].pc = "enqueue"
  /\ \E failed \in {"none", "wake", "runs"} :
       /\ IF failed = "none" THEN UNCHANGED budget ELSE MayFail /\ Spent
       /\ job' = IF failed = "runs" THEN job
                 ELSE job \cup {r \in rec[w].runs : run[r].state = "queued"}
       /\ IF failed = "wake" \/ rec[w].wake = Null THEN UNCHANGED <<wake, flight>>
          ELSE wake' = rec[w].wake /\ flight' = Detached
  /\ rec' = [rec EXCEPT ![w].pc = "idle", ![w].wake = Null, ![w].runs = {}]
  /\ UNCHANGED <<scene, now, routine, run, lock, user, want>>

(* The session of the leader ends at the server, which the leader learns   *)
(* from its client's error.                                                *)
leaderDisconnects(w) ==
  /\ lock = w /\ budget.deaths > 0
  /\ lock' = NoWorker
  /\ budget' = [budget EXCEPT !.deaths = @ - 1]
  /\ UNCHANGED <<scene, now, routine, wake, job, run, flight, rec, user, want>>

loseClient(w) ==
  /\ rec[w].leads /\ lock # w
  /\ rec' = [rec EXCEPT ![w].leads = FALSE]
  /\ UNCHANGED <<scene, now, routine, wake, job, run, flight, lock, user, want, budget>>

-----------------------------------------------------------------------------
(* The user *)

Asks(a) ==
  /\ user.pc = "idle" /\ a \in budget.asks
  /\ budget' = [budget EXCEPT !.asks = @ \ {a}]

(* routines.update reads the row and computes the new schedule from it. *)
updateReads(a) ==
  /\ a \in {"rename", "reschedule", "on", "off"} /\ Asks(a) /\ routine.exists
  /\ a = "reschedule" => ~scene.once
  /\ (a = "on" /\ scene.once /\ routine.next = Null) => ~routine.ran
  /\ user' = [NoRequest EXCEPT !.pc = "write", !.ask = a, !.before = routine,
                               !.fresh = Occurrence(now)]
  /\ UNCHANGED <<scene, now, routine, wake, job, run, flight, rec, lock, want>>

Active == CASE user.ask = "on" -> TRUE [] user.ask = "off" -> FALSE
            [] OTHER -> user.before.active
Changed == (~user.before.active /\ Active) \/ user.ask = "reschedule"
NextOf ==
  CASE ~Active -> Null
    [] Active /\ scene.once /\ user.before.next = Null /\ ~user.before.ran -> user.fresh
    [] Active /\ ~scene.once /\ (Changed \/ user.before.next = Null) -> user.fresh
    [] OTHER -> user.before.next

(* The row is written by its id, its next date always. *)
updateWrites ==
  /\ user.pc = "write"
  /\ IF routine.exists
     THEN /\ routine' = [routine EXCEPT !.next = NextOf,
               !.active = IF user.ask \in {"on", "off"} THEN Active ELSE @]
          /\ want' = IF user.ask \in {"on", "off"} THEN Active ELSE want
          /\ user' = [user EXCEPT !.pc = "sync", !.after = routine']
     ELSE user' = NoRequest /\ UNCHANGED <<routine, want>>
  /\ UNCHANGED <<scene, now, wake, job, run, flight, rec, lock, budget>>

NeedsSync ==
  \/ user.before.active # user.after.active \/ Changed
  \/ user.before.next = Null /\ user.after.next # Null

updateSyncs ==
  /\ user.pc = "sync"
  /\ \/ ~NeedsSync /\ UNCHANGED <<wake, flight, budget>>
     \/ /\ NeedsSync
        /\ wake' = IF user.after.active THEN user.after.next ELSE Null
        /\ flight' = Detached
        /\ UNCHANGED budget
     \/ NeedsSync /\ MayFail /\ Spent /\ UNCHANGED <<wake, flight>>
  /\ user' = NoRequest
  /\ UNCHANGED <<scene, now, routine, job, run, rec, lock, want>>

(* routines.remove, and schedule_cancel. *)
removeReads ==
  /\ Asks("remove") /\ routine.exists
  /\ user' = [NoRequest EXCEPT !.pc = "delete", !.ask = "remove"]
  /\ UNCHANGED <<scene, now, routine, wake, job, run, flight, rec, lock, want>>

removeDeletes ==
  /\ user.pc = "delete"
  /\ routine' = Gone
  /\ user' = [user EXCEPT !.pc = "cancel"]
  /\ UNCHANGED <<scene, now, wake, job, run, flight, rec, lock, want, budget>>

removeCancels ==
  /\ user.pc = "cancel"
  /\ \/ wake' = Null /\ flight' = Detached /\ UNCHANGED budget
     \/ MayFail /\ Spent /\ UNCHANGED <<wake, flight>>
  /\ user' = NoRequest
  /\ UNCHANGED <<scene, now, routine, job, run, rec, lock, want>>

(* createScheduleFromTool *)
createRow ==
  /\ Asks("create")
  /\ routine' = [exists |-> TRUE, active |-> TRUE, next |-> Occurrence(now), ran |-> FALSE]
  /\ user' = [NoRequest EXCEPT !.pc = "enqueue", !.ask = "create", !.after = routine']
  /\ UNCHANGED <<scene, now, wake, job, run, flight, rec, lock, want>>

createEnqueues ==
  /\ user.pc = "enqueue"
  /\ \/ wake' = user.after.next /\ flight' = Detached /\ user' = NoRequest /\ UNCHANGED budget
     \/ MayFail /\ Spent /\ user' = [user EXCEPT !.pc = "undo"] /\ UNCHANGED <<wake, flight>>
  /\ UNCHANGED <<scene, now, routine, job, run, rec, lock, want>>

createUndoes ==
  /\ user.pc = "undo"
  /\ routine' = Gone
  /\ user' = NoRequest
  /\ UNCHANGED <<scene, now, wake, job, run, flight, rec, lock, want, budget>>

-----------------------------------------------------------------------------
(* Time and deaths *)

Tick ==
  /\ now < scene.horizon /\ now' = now + 1
  /\ UNCHANGED <<scene, routine, wake, job, run, flight, rec, lock, user, want, budget>>

(* A process dies: its job is durable or gone, and so are all the jobs of  *)
(* a queue in its memory; its session's lock is free.                      *)
WorkerDies(w) ==
  /\ w \in scene.workers \cup scene.recs /\ budget.deaths > 0
  /\ budget' = [budget EXCEPT !.deaths = @ - 1]
  /\ IF scene.durable THEN Retry(w) /\ UNCHANGED job
     ELSE flight' = [flight EXCEPT ![w] = NoFlight] /\ wake' = Null /\ job' = {}
  /\ rec' = [rec EXCEPT ![w] = Follows]
  /\ lock' = IF lock = w THEN NoWorker ELSE lock
  /\ UNCHANGED <<scene, now, routine, run, user, want>>

-----------------------------------------------------------------------------
wakeProceeds(w) ==
  wakeReads(w) \/ wakeDefers(w) \/ wakeClaims(w) \/ wakeEnqueues(w) \/ wakeRestores(w)
    \/ wakeSchedules(w)
reconcile(w) == tryAcquire(w) \/ reconcileScans(w) \/ reconcileEnqueues(w)
userProceeds ==
  updateWrites \/ updateSyncs \/ removeDeletes \/ removeCancels \/ createEnqueues \/ createUndoes

RoutineNext ==
  \/ \E w \in Workers : \/ takeWakeup(w) \/ wakeProceeds(w) \/ reconcile(w)
                        \/ leaderDisconnects(w) \/ loseClient(w) \/ WorkerDies(w)
  \/ \E r \in RunIds : runBegins(r)
  \/ \E a \in {"rename", "reschedule", "on", "off"} : updateReads(a)
  \/ removeReads \/ createRow \/ userProceeds
  \/ Tick

RoutineSpec == RoutineInit /\ [][RoutineNext]_routineVars

(* Jobs are run, the interval of every reconciler ticks, requests end. *)
RoutineFairness ==
  /\ \A w \in Workers :
       /\ WF_routineVars(takeWakeup(w) \/ wakeProceeds(w))
       /\ WF_routineVars(reconcile(w)) /\ WF_routineVars(loseClient(w))
  /\ WF_routineVars(\E r \in RunIds : runBegins(r))
  /\ WF_routineVars(userProceeds)

RoutineLiveSpec == RoutineSpec /\ RoutineFairness

-----------------------------------------------------------------------------
(* Properties *)

(* An occurrence is fired once, whatever duplicates of its job are in      *)
(* flight: two workers, a retry, the reconciler's copy; and "never fires a *)
(* future occurrence early" (routine-scheduling.test.ts), although timers  *)
(* of the in-memory queue do. (Once: not where a user edits the routine    *)
(* meanwhile, nor where the run's job could not be enqueued and the run    *)
(* began all the same: README, Disagreements.)                             *)
FiresOnce ==
  /\ \A r \in RunIds : run[r].for <= now
  /\ scene.asks \subseteq {"create", "remove"} /\ scene.failures = 0 =>
       \A r, q \in RunIds :
         run[r].state # "none" /\ run[q].state # "none" /\ run[r].for = run[q].for => r = q

(* A routine its user has turned off stays off: neither a wakeup that      *)
(* gives its occurrence back nor a rename turns it on again. (Not a        *)
(* one-shot's: README, Disagreements.)                                     *)
OffStaysOff == ~want /\ ~(scene.once /\ scene.failures > 0) => ~routine.active

(* A routine fires when it was asked to, and only then. *)
FiresAsAsked == FiresOnce /\ OffStaysOff

(* An occurrence that has come is fired and its run begins, or the user    *)
(* decides otherwise, although jobs are lost with the process, calls of    *)
(* the queue fail, and the leader of the reconcilers dies or loses its     *)
(* session.                                                                *)
Overdue == routine.active /\ routine.next # Null /\ routine.next <= now
Waits == Overdue \/ \E r \in RunIds : run[r].state = "queued"
DueBegins == Waits ~> ~Waits
=============================================================================
