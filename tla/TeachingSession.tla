--------------------------- MODULE TeachingSession ---------------------------
(***************************************************************************)
(* Teaching a bot a skill: a session takes control of the bot's screen for *)
(* the user, records, and ends by the user's stop, by its expiry job or by *)
(* removal. Its end makes a draft, announces it once, and lets go of the   *)
(* control it took and of no other. The control itself is ControlLease.    *)
(*   packages/adapters/src/teaching-session.ts, computer-control.ts;       *)
(*   apps/api/src/taught-skills.ts                                         *)
(***************************************************************************)
EXTENDS ControlLease

CONSTANTS
  Teacher,  \* the bot that is taught
  Skills,   \* sessions
  NoSkill

ASSUME TeachingAssumption == Teacher \in Bots /\ NoSkill \notin Skills

VARIABLES
  skill,   \* taught_skills; due: expiresAt is past; stopped, posted: history, the stopped
           \* events and the draft's messages
  expiry,  \* the sessions whose skill.teaching-expire job is enqueued or tried again
  local    \* what a request knows of its session

teachVars == <<vars, skill, expiry, local>>

Session ==
  [status : {"none", "recording", "draft", "saved", "deleted"}, lease : 0 .. MaxLeases,
   due : BOOLEAN, stopped : Nat, posted : Nat]
Local == [skill : Skills \cup {NoSkill}, draft : BOOLEAN, completes : BOOLEAN,
          lease : 0 .. MaxLeases]
NoLocal == [skill |-> NoSkill, draft |-> FALSE, completes |-> FALSE, lease |-> NoLease]

TeachTypeOK ==
  /\ TypeOK
  /\ skill \in [Skills -> Session]
  /\ expiry \subseteq Skills
  /\ local \in [Procs -> Local]

TeachInit ==
  /\ Init
  /\ skill = [s \in Skills |-> [status |-> "none", lease |-> NoLease, due |-> FALSE,
                                stopped |-> 0, posted |-> 0]]
  /\ expiry = {}
  /\ local = [p \in Procs |-> NoLocal]

Recording == \E s \in Skills : skill[s].status = "recording"
Mine(p) == local[p].skill
Done(p) == Ends(p) /\ local' = [local EXCEPT ![p] = NoLocal]
(* A request that throws is over; the job of a session is tried again. *)
Throws(p) ==
  /\ Fault
  /\ Done(p)
  /\ expiry' = IF proc[p].op = "skillExpire" THEN expiry \cup {Mine(p)} ELSE expiry
Rest == UNCHANGED <<issued, screen, run, job>>

-----------------------------------------------------------------------------
(* start *)

startReads(p, s) ==
  /\ Asked("teach")
  /\ skill[s].status = "none" /\ ~Recording
  /\ Starts(p, "teach", Teacher, "teachCancel")
  /\ local' = [local EXCEPT ![p].skill = s]
  /\ UNCHANGED <<computer, env, skill, expiry>> /\ Rest

(* hasActiveComputerControl of the row that was read, at the present time *)
SeenActive(p) ==
  /\ hasActiveComputerControl(Seen(p)) /\ Seen(p).bot = Teacher
  /\ ~(computer.lease = Seen(p).lease /\ computer.due)

cancelActiveRuns(p) ==
  /\ At(p, "teachCancel")
  /\ run' = [run EXCEPT ![Teacher] = "none"]
  /\ Goes(p, IF SeenActive(p) THEN "teachExtend" ELSE "teachGrant")
  /\ UNCHANGED <<computer, issued, screen, job, env, skill, expiry, local>>

extendActiveComputerControl(p) ==
  /\ At(p, "teachExtend")
  /\ IF computer.holder = "user" /\ computer.bot = Teacher /\ computer.lease = Seen(p).lease
     THEN /\ computer' = [computer EXCEPT !.due = FALSE]
          /\ local' = [local EXCEPT ![p].lease = computer.lease]
          /\ Goes(p, "teachSchedule")
     ELSE Goes(p, "teachGrant") /\ UNCHANGED <<computer, local>>
  /\ UNCHANGED <<env, skill, expiry>> /\ Rest

(* The run that the row names stays named. *)
grantTakeover(p) ==
  /\ At(p, "teachGrant")
  /\ IF (computer.holder # "user" \/ computer.bot = Teacher) /\ env.leases > 0
     THEN /\ GrantsLease
          /\ computer' = [computer EXCEPT !.holder = "user", !.lease = issued + 1,
                                          !.bot = Teacher, !.due = FALSE]
          /\ job' = FALSE
          /\ local' = [local EXCEPT ![p].lease = issued + 1]
          /\ Goes(p, "teachSchedule")
     ELSE Done(p) /\ UNCHANGED <<computer, issued, job, env>>
  /\ UNCHANGED <<screen, run, skill, expiry>>

teachSchedules(p) ==
  /\ At(p, "teachSchedule")
  /\ \/ /\ scheduleComputerControlExpiry(local[p].lease) /\ Goes(p, "teachCreate")
        /\ UNCHANGED <<env, expiry, local>>
     \/ Throws(p) /\ UNCHANGED job
  /\ UNCHANGED <<computer, issued, screen, run, skill>>

(* Under the lock of the bot's row, and a unique index. *)
teachCreates(p) ==
  /\ At(p, "teachCreate")
  /\ IF ~Recording /\ skill[Mine(p)].status = "none"
     THEN /\ skill' = [skill EXCEPT ![Mine(p)].status = "recording",
                                    ![Mine(p)].lease = local[p].lease]
          /\ Goes(p, "teachEnqueue") /\ UNCHANGED local
     ELSE Done(p) /\ UNCHANGED skill
  /\ UNCHANGED <<computer, env, expiry>> /\ Rest

teachEnqueues(p) ==
  /\ At(p, "teachEnqueue")
  /\ \/ expiry' = expiry \cup {Mine(p)} /\ Done(p) /\ NoFault
     \/ Throws(p)
  /\ UNCHANGED <<computer, skill>> /\ Rest

-----------------------------------------------------------------------------
(* stop, the expiry job and remove *)

stopTeachingSession(p, s) ==
  /\ skill[s].status \in {"recording", "draft", "saved"}
  /\ Starts(p, "skillStop", Teacher, "skillRead")
  /\ local' = [local EXCEPT ![p].skill = s]
  /\ UNCHANGED <<computer, env, skill, expiry>> /\ Rest

teachingExpireJob(p, s) ==
  /\ s \in expiry /\ skill[s].due
  /\ Starts(p, "skillExpire", Teacher, "skillRead")
  /\ expiry' = expiry \ {s}
  /\ local' = [local EXCEPT ![p].skill = s]
  /\ UNCHANGED <<computer, env, skill>> /\ Rest

(* Mutant: a session that has ended is let go of, its draft not looked for. *)
KnowsNoDraft(p, posts) ==
  local' = [local EXCEPT ![p].lease = skill[Mine(p)].lease, ![p].draft = FALSE]

(* What was read of a session that has ended: a draft may have to be posted. *)
Knows(p, posts) ==
  local' = [local EXCEPT ![p].lease = skill[Mine(p)].lease,
                         ![p].draft = posts /\ skill[Mine(p)].status = "draft"]
Ended(s) == skill[s].status \in {"draft", "saved"}

(* Where a request goes on when a session has been dealt with: the stop    *)
(* looks once more at what the expiry has left.                            *)
Returning(p) == IF proc[p].op = "skillStop" THEN "stopRead" ELSE "skillEnd"

(* A session that has ended is let go of and announced again; one whose    *)
(* time is over is completed.                                              *)
expireTaughtSkillTeaching(p) ==
  LET s == Mine(p) IN
  /\ At(p, "skillRead")
  /\ IF Ended(s) THEN Goes(p, "skillRelease") /\ Knows(p, TRUE)
     ELSE /\ Goes(p, IF skill[s].status = "recording" /\ skill[s].due
                     THEN "skillFinalize" ELSE Returning(p))
          /\ UNCHANGED local
  /\ UNCHANGED <<computer, env, skill, expiry>> /\ Rest

stopReads(p) ==
  LET s == Mine(p) IN
  /\ At(p, "stopRead")
  /\ IF Ended(s) THEN Knows(p, FALSE) ELSE UNCHANGED local
  /\ proc' = [proc EXCEPT ![p].op = "skillStopped",
                          ![p].pc = IF Ended(s) THEN "skillRelease"
                                    ELSE IF skill[s].status = "recording"
                                    THEN "skillFinalize" ELSE "skillEnd"]
  /\ UNCHANGED <<computer, env, skill, expiry>> /\ Rest

(* The status is looked at again under the lock of the row. *)
Finalizable(s) == skill[s].status = "recording"

finalizeTeachingRecording(p) ==
  LET s == Mine(p) IN
  /\ At(p, "skillFinalize")
  /\ skill' = IF Finalizable(s)
              THEN [skill EXCEPT ![s].status = "draft", ![s].stopped = @ + 1] ELSE skill
  /\ IF skill[s].status = "deleted" THEN Done(p)
     ELSE /\ Goes(p, "skillRelease")
          /\ local' = [local EXCEPT ![p].lease = skill[s].lease, ![p].completes = TRUE,
                                    ![p].draft = skill'[s].status = "draft"]
  /\ UNCHANGED <<computer, env, expiry>> /\ Rest

AfterEmit(p) == IF local[p].completes THEN "skillCancel" ELSE Returning(p)
AfterRelease(p) ==
  IF proc[p].op = "skillRemove" THEN "skillDelete"
  ELSE IF local[p].draft THEN "skillEmit" ELSE AfterEmit(p)

(* releaseTeachingComputerControl *)
(* Mutant: any control of the bot's screen is let go of. *)
OwnedByBot(p) ==
  computer.holder = "user" /\ computer.bot = Teacher /\ computer.lease # NoLease
Owned(p) ==
  /\ computer.holder = "user" /\ computer.bot = Teacher
  /\ computer.lease # NoLease /\ computer.lease = local[p].lease

teachingReleaseReads(p) ==
  /\ At(p, "skillRelease")
  /\ IF Owned(p) THEN GoesSeeing(p, "skillRevoke") ELSE Goes(p, AfterRelease(p))
  /\ UNCHANGED <<computer, env, skill, expiry, local>> /\ Rest

teachingReleaseRevokes(p) ==
  /\ At(p, "skillRevoke")
  /\ \/ /\ setScreenControl(Teacher, Seen(p).lease) /\ Goes(p, "skillUnschedule")
        /\ UNCHANGED <<env, expiry, local>>
     \/ Throws(p) /\ UNCHANGED screen
  /\ UNCHANGED <<computer, issued, run, job, skill>>

teachingReleaseCancels(p) ==
  /\ At(p, "skillUnschedule")
  /\ \/ /\ job' = (job /\ computer.lease # Seen(p).lease) /\ Goes(p, "skillLetGo")
        /\ UNCHANGED <<env, expiry, local>>
     \/ Throws(p) /\ UNCHANGED job
  /\ UNCHANGED <<computer, issued, screen, run, skill>>

teachingReleaseFinalizes(p) ==
  /\ At(p, "skillLetGo")
  /\ finalizeComputerControlRelease(Seen(p), "bot")
  /\ Goes(p, AfterRelease(p))
  /\ UNCHANGED <<issued, screen, env, skill, expiry, local>>

(* Message and event, each unless it is there, under the lock of the skill. *)
Unposted(s) == skill[s].posted = 0

emitSkillDraftMessages(p) ==
  /\ At(p, "skillEmit")
  /\ skill' = [skill EXCEPT ![Mine(p)].posted = IF Unposted(Mine(p)) THEN @ + 1 ELSE @]
  /\ Goes(p, AfterEmit(p))
  /\ UNCHANGED <<computer, env, expiry, local>> /\ Rest

(* Whoever completes a session cancels its job. *)
teachingCancels(p) ==
  /\ At(p, "skillCancel")
  /\ \/ /\ expiry' = expiry \ {Mine(p)}
        /\ Goes(p, Returning(p))
        /\ local' = [local EXCEPT ![p].completes = FALSE]
        /\ NoFault
     \/ Throws(p)
  /\ UNCHANGED <<computer, skill>> /\ Rest

teachingEnds(p) ==
  /\ At(p, "skillEnd")
  /\ Done(p)
  /\ UNCHANGED <<computer, env, skill, expiry>> /\ Rest

removeReads(p, s) ==
  /\ skill[s].status = "recording"
  /\ Starts(p, "skillRemove", Teacher, "removeCancel")
  /\ local' = [local EXCEPT ![p].skill = s, ![p].lease = skill[s].lease]
  /\ UNCHANGED <<computer, env, skill, expiry>> /\ Rest

removeCancels(p) ==
  /\ At(p, "removeCancel")
  /\ \/ expiry' = expiry \ {Mine(p)} /\ Goes(p, "skillRelease") /\ NoFault /\ UNCHANGED local
     \/ Throws(p)
  /\ UNCHANGED <<computer, skill>> /\ Rest

removeDeletes(p) ==
  /\ At(p, "skillDelete")
  /\ skill' = [skill EXCEPT ![Mine(p)].status = "deleted"]
  /\ Done(p)
  /\ UNCHANGED <<computer, env, expiry>> /\ Rest

skillSave(s) ==
  /\ skill[s].status = "draft"
  /\ skill' = [skill EXCEPT ![s].status = "saved"]
  /\ UNCHANGED <<computer, proc, env, expiry, local>> /\ Rest

skillLapses(s) ==
  /\ skill[s].status # "none" /\ ~skill[s].due
  /\ skill' = [skill EXCEPT ![s].due = TRUE]
  /\ UNCHANGED <<computer, proc, env, expiry, local>> /\ Rest

(* A job that dies is taken again when its lock has lapsed. *)
teachCrash(p) ==
  /\ Crash(p)
  /\ expiry' = IF proc[p].op = "skillExpire" THEN expiry \cup {Mine(p)} ELSE expiry
  /\ local' = [local EXCEPT ![p] = NoLocal]
  /\ UNCHANGED skill

-----------------------------------------------------------------------------
TeachRequest(p) ==
  \E s \in Skills :
    startReads(p, s) \/ stopTeachingSession(p, s) \/ removeReads(p, s)

TeachProceed(p) ==
  \/ cancelActiveRuns(p) \/ extendActiveComputerControl(p) \/ grantTakeover(p)
  \/ teachSchedules(p) \/ teachCreates(p) \/ teachEnqueues(p)
  \/ expireTaughtSkillTeaching(p) \/ stopReads(p) \/ finalizeTeachingRecording(p)
  \/ teachingReleaseReads(p) \/ teachingReleaseRevokes(p) \/ teachingReleaseCancels(p)
  \/ teachingReleaseFinalizes(p) \/ emitSkillDraftMessages(p) \/ teachingCancels(p)
  \/ teachingEnds(p) \/ removeCancels(p) \/ removeDeletes(p)

ControlStep ==
  /\ \/ \E p \in Procs : Request(p) \/ Proceed(p) \/ controlExpireJob(p)
     \/ \E b \in Bots : RunStep(b)
     \/ leaseLapses \/ reconcileOnce
  /\ UNCHANGED <<skill, expiry, local>>

TeachNext ==
  \/ \E p \in Procs :
       \/ TeachRequest(p) \/ TeachProceed(p) \/ teachCrash(p)
       \/ \E s \in Skills : teachingExpireJob(p, s)
  \/ \E s \in Skills : skillSave(s) \/ skillLapses(s)
  \/ ControlStep

TeachSpec == TeachInit /\ [][TeachNext]_teachVars

(* As in ControlLease; the expiry jobs of sessions are durable and tried   *)
(* again, and time passes.                                                 *)
TeachFairSpec ==
  /\ TeachSpec
  /\ \A p \in Procs :
       WF_teachVars(TeachProceed(p) \/ (Proceed(p) /\ UNCHANGED <<skill, expiry, local>>))
  /\ SF_teachVars(\E p \in Procs : controlExpireJob(p) /\ UNCHANGED <<skill, expiry, local>>)
  /\ \A s \in Skills : SF_teachVars(\E p \in Procs : teachingExpireJob(p, s))
  /\ WF_teachVars(reconcileOnce /\ UNCHANGED <<skill, expiry, local>>)
  /\ \A s \in Skills : WF_teachVars(skillLapses(s))

-----------------------------------------------------------------------------
(* However the stop, the expiry job and their retries overlap, a session   *)
(* is said to have stopped once and its draft is posted once.              *)
AnnouncedOnce == \A s \in Skills : skill[s].stopped <= 1 /\ skill[s].posted <= 1

(* The end of a session ends the control it took, never the control the    *)
(* user took afterwards.                                                   *)
SessionEndsItsOwn ==
  [][\A p \in Procs :
       proc[p].pc = "skillLetGo" /\ proc'[p] # proc[p] /\ computer'.lease # computer.lease
         => computer.lease = skill[local[p].skill].lease]_teachVars

(* A session ends once, for itself: one word of it, one draft, one lease.  *)
SessionEndsOnce == []AnnouncedOnce /\ SessionEndsItsOwn

(* A draft whose job is there is posted, although its request died between *)
(* the end of the session and the message, unless the user saves it first  *)
(* or removes it.                                                          *)
DraftIsPosted ==
  \A s \in Skills :
    (skill[s].status = "draft" /\ skill[s].posted = 0 /\ s \in expiry)
      ~> \/ skill[s].posted > 0 \/ skill[s].status # "draft"
         \/ \E p \in Procs : proc[p].op = "skillRemove"
=============================================================================
