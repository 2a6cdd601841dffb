----------------------- MODULE ComputerLifecycleProofs ------------------------
(***************************************************************************)
(* On top of the locks, for any executions, runs, bots, sandboxes and      *)
(* deaths. First, without stop requests no sandbox goes away under the row *)
(* that names it or under an execution that works on it, and one execution *)
(* provisions at a time: booting is a lock like suspending. Second, while  *)
(* nobody dies and nothing moves a claim's stamp, whoever holds a lock     *)
(* ends it, and no sandbox is lost.                                        *)
(***************************************************************************)
EXTENDS ComputerLocksProofs

-----------------------------------------------------------------------------
(* The inductive invariant, on top of LInv *)

IsUp(ref) == ref # NoRef /\ box[ref] = "up"
Down == {"stopped", "suspended", "error"}

(* Who boots has the row; a sandbox it has seen running is up and not its  *)
(* own, any other row has no worker; the rest is as the row and the        *)
(* sandboxes are.                                                          *)
BootFits(p) ==
  Booting(p) =>
    /\ row.state = "booting" /\ row.ref = proc[p].ref
    /\ proc[p].seen = "running" => IsUp(proc[p].ref) /\ ~proc[p].fresh
    /\ proc[p].seen # "running" => NobodyWorks
BoxFits(p) ==
  /\ proc[p].pc = "activate" => IsUp(proc[p].got) /\ (~proc[p].fresh => proc[p].got = proc[p].ref)
  /\ proc[p].fresh => proc[p].pc \in {"activate", "rollback", "record"}
  /\ proc[p].pc = "checkpoint" => row.ref = proc[p].got /\ IsUp(row.ref)
  /\ proc[p].pc = "recheck" /\ proc[p].seen = "running" => IsUp(row.ref)
WorkFits(p) == Works(p) => row.ref = proc[p].got /\ IsUp(row.ref)
TakenFits(p) ==
  /\ proc[p].pc = "recheck" /\ proc[p].seen \in Down => NobodyWorks
  /\ proc[p].pc \in {"destroy", "clear"} => NobodyWorks
Fits(p) == BootFits(p) /\ BoxFits(p) /\ WorkFits(p) /\ TakenFits(p)
SleepFits(s) ==
  /\ sleeper[s].pc \in {"checkpoint", "recheck", "stop"} => IsUp(row.ref)
  /\ sleeper[s].pc \in {"stop", "record"} => NobodyWorks
RowFits ==
  /\ row.state = "running" => IsUp(row.ref)
  /\ row.state \in Down => NobodyWorks
BootIsAlone == \A p, q \in Procs : Booting(p) /\ Booting(q) => p = q

SInv ==
  /\ \A p \in Procs : Fits(p)
  /\ \A s \in Sleepers : SleepFits(s)
  /\ RowFits /\ BootIsAlone

KInv == LInv /\ (NoStop => SInv)

-----------------------------------------------------------------------------
(* What a step keeps *)

(* The row's state and name stay, the sandboxes too.                       *)
LEMMA QuietKept ==
  ASSUME LInv, SInv, UNCHANGED <<env, box, sleeper>>,
         row'.state = row.state, row'.ref = row.ref,
         \A q \in Procs : Works(q)' => Works(q),
         \A q \in Procs :
           \/ proc'[q] = proc[q]
           \/ /\ proc'[q].pc \notin {"provision", "activate", "checkpoint", "recheck", "destroy",
                                     "clear", "using"}
              /\ proc'[q].fresh => proc'[q].pc \in {"rollback", "record"}
              /\ Booting(q)' => /\ Booting(q) /\ proc'[q].seen = proc[q].seen
                                /\ proc'[q].ref = proc[q].ref
                                /\ proc'[q].fresh = proc[q].fresh
  PROVE  SInv'
<1>1. NobodyWorks => NobodyWorks'
  BY DEF NobodyWorks
<1>2. \A ref : IsUp(ref)' <=> IsUp(ref)
  BY DEF IsUp
<1>3. ASSUME NEW q \in Procs PROVE Fits(q)' /\ (Booting(q)' => Booting(q))
  <2>1. Fits(q)
    BY DEF SInv
  <2>2. CASE proc'[q] = proc[q]
    <3>1. Booting(q)' = Booting(q)
      BY <2>2 DEF Booting
    <3> QED
      BY <1>1, <1>2, <2>1, <2>2, <3>1 DEF Fits, BootFits, BoxFits, WorkFits, TakenFits
  <2>3. CASE proc'[q] # proc[q]
    <3>1. Booting(q)' => Booting(q) /\ proc'[q].seen = proc[q].seen
                         /\ proc'[q].ref = proc[q].ref /\ proc'[q].fresh = proc[q].fresh
      BY <2>3
    <3>2. ~Works(q)'
      BY <2>3 DEF Works
    <3> QED
      BY <1>1, <1>2, <2>1, <2>3, <3>1, <3>2 DEF Fits, BootFits, BoxFits, WorkFits, TakenFits
  <2> QED
    BY <2>2, <2>3
<1>4. ASSUME NEW s \in Sleepers PROVE SleepFits(s)'
  BY <1>1, <1>2 DEF SInv, SleepFits
<1>5. RowFits' /\ BootIsAlone'
  BY <1>1, <1>2, <1>3 DEF SInv, RowFits, BootIsAlone
<1> QED
  BY <1>3, <1>4, <1>5 DEF SInv

(* Nobody but p boots or holds the row.                                    *)
Lone(p) ==
  /\ \A q \in Procs \ {p} : ~Booting(q) /\ ~ProcHolds(q)
  /\ \A s \in Sleepers : ~SleepHolds(s)

LEMMA Aloneness ==
  ASSUME LInv, SInv, NEW p \in Procs,
         \/ Booting(p) \/ ProcHolds(p)
         \/ row.state # "suspending" /\ NobodyBoots
  PROVE  Lone(p)
BY DEF Lone, LInv, SInv, Fits, BootFits, BootIsAlone, HoldersSuspend, HolderIsAlone, NobodyBoots

LEMMA LoneKept ==
  ASSUME LInv, SInv, NEW p \in Procs, Lone(p), Steps(p), UNCHANGED <<env, runs, sleeper>>,
         Fits(p)', RowFits',
         \A q \in Procs \ {p} : Works(q) => row'.ref = proc[q].got /\ IsUp(row.ref)'
  PROVE  SInv'
<1>1. \A q \in Procs \ {p} : /\ Booting(q)' = Booting(q) /\ ProcHolds(q)' = ProcHolds(q)
                             /\ Works(q)' = Works(q) /\ proc'[q] = proc[q]
  BY DEF Steps, Booting, ProcHolds, Works
<1>2. ASSUME NEW q \in Procs \ {p} PROVE Fits(q)'
  <2>1. BootFits(q)' /\ TakenFits(q)'
    BY <1>1 DEF Lone, BootFits, TakenFits, ProcHolds
  <2>2. BoxFits(q)'
    <3>1. proc[q].pc \notin {"activate", "checkpoint", "recheck"}
      BY DEF Lone, Booting, Provisioning, ProcHolds
    <3> QED
      BY <1>1, <3>1 DEF SInv, Fits, BoxFits
  <2>3. WorkFits(q)'
    BY <1>1 DEF WorkFits
  <2> QED
    BY <2>1, <2>2, <2>3 DEF Fits
<1>3. ASSUME NEW s \in Sleepers PROVE SleepFits(s)'
  BY DEF Lone, SleepFits, SleepHolds
<1>4. BootIsAlone'
  BY <1>1 DEF Lone, BootIsAlone
<1> QED
  BY <1>2, <1>3, <1>4 DEF SInv

LEMMA LoneSleeps ==
  ASSUME LInv, SInv, NEW s \in Sleepers, UNCHANGED <<env, runs, proc>>,
         \A t \in Sleepers \ {s} : sleeper'[t] = sleeper[t] /\ ~SleepHolds(t),
         \A q \in Procs : ~Booting(q) /\ ~ProcHolds(q),
         SleepFits(s)', RowFits',
         \A q \in Procs : Works(q) => row'.ref = proc[q].got /\ IsUp(row.ref)'
  PROVE  SInv'
<1>1. \A q \in Procs : /\ Booting(q)' = Booting(q) /\ ProcHolds(q)' = ProcHolds(q)
                       /\ Works(q)' = Works(q)
  BY DEF Booting, ProcHolds, Works
<1>2. ASSUME NEW q \in Procs PROVE Fits(q)'
  <2>1. BootFits(q)' /\ TakenFits(q)'
    BY <1>1 DEF BootFits, TakenFits, ProcHolds
  <2>2. BoxFits(q)'
    <3>1. proc[q].pc \notin {"activate", "checkpoint", "recheck"}
      BY DEF Booting, Provisioning, ProcHolds
    <3> QED
      BY <3>1 DEF SInv, Fits, BoxFits
  <2>3. WorkFits(q)'
    BY <1>1 DEF WorkFits
  <2> QED
    BY <2>1, <2>2, <2>3 DEF Fits
<1>3. ASSUME NEW t \in Sleepers PROVE SleepFits(t)'
  BY DEF SleepFits, SleepHolds
<1>4. BootIsAlone'
  BY <1>1 DEF BootIsAlone
<1> QED
  BY <1>2, <1>3, <1>4 DEF SInv

-----------------------------------------------------------------------------
(* The steps of an execution that leave the row, the sandboxes and the     *)
(* claims alone, and what they leave of its local state.                   *)

Quiet(p) ==
  \/ Begin(p) \/ Enter(p) \/ Finish(p) \/ ProvisionReads(p) \/ ProvisionAsksRuns(p)
  \/ ProvisionWaits(p) \/ ProvisionAsksRunsAgain(p) \/ ReplaceSurveys(p)
  \/ (ProvisionClaims(p) \/ ReplaceClaims(p)) /\ KeepRow /\ Go(p, "requeue")

Elsewhere ==
  {"idle", "enter", "take", "validate", "undo", "read", "ask", "wait", "askAgain", "claim",
   "survey", "seize", "requeue", "release"}

Moves(p) ==
  /\ Steps(p) /\ proc'[p].pc \in Elsewhere
  /\ proc'[p].fresh => proc[p].fresh
  /\ proc'[p].stuck => proc[p].stuck
  /\ proc'[p].got # NoRef => proc'[p].got = proc[p].got /\ proc[p].pc # "using"

(* All a quiet step changes.                                               *)
Quietly(p) ==
  /\ Moves(p) /\ proc[p].pc \in Elsewhere \cup {"using"}
  /\ UNCHANGED <<env, row, box, sleeper, stopper, crashes>>
  /\ current' \subseteq current \cup {p} /\ current \subseteq current' \cup {p}
  /\ \A q \in Procs \ {p} : runs'[env.run[q]].by = q => runs[env.run[q]].by = q

LEMMA GoMoves ==
  ASSUME TypeOK, NEW p \in Procs, NEW pc \in Elsewhere, Go(p, pc),
         pc \in {"requeue", "release"} \/ proc[p].pc # "using"
  PROVE  Moves(p)
<1>1. pc \in Pcs
  BY DEF Elsewhere, Pcs
<1> QED
  BY <1>1, GoFacts DEF Moves, Steps

(* A new local record that keeps what the attempt has got.                 *)
LEMMA BecomesMoves ==
  ASSUME TypeOK, NEW p \in Procs, NEW v \in Execution, Becomes(p, v), v.pc \in Elsewhere,
         v.fresh = proc[p].fresh, v.stuck = proc[p].stuck, v.got = proc[p].got,
         proc[p].pc # "using"
  PROVE  Moves(p)
BY BecomesFacts DEF Moves, Steps

LEMMA IdleMoves ==
  ASSUME TypeOK, NEW p \in Procs, NEW pc \in {"enter", "requeue"},
         Becomes(p, [Idle EXCEPT !.pc = pc])
  PROVE  Moves(p)
<1> DEFINE v == [Idle EXCEPT !.pc = pc]
<1>1. v \in Execution /\ v.pc = pc /\ ~v.fresh /\ v.got = NoRef /\ ~v.stuck
  BY AtFacts DEF Pcs
<1>2. Becomes(p, v)
  OBVIOUS
<1> HIDE DEF v
<1> QED
  BY <1>1, <1>2, BecomesFacts DEF Moves, Steps, Elsewhere

(* A statement that only reads leads on with what it has read.             *)
LEMMA ReadMoves ==
  ASSUME TypeOK, NEW p \in Procs, NEW pc \in Elsewhere, NEW reclaim \in BOOLEAN,
         Becomes(p, [proc[p] EXCEPT !.seen = row.state, !.ref = row.ref, !.reclaim = reclaim,
                                    !.pc = pc]),
         proc[p].pc # "using"
  PROVE  Moves(p)
<1> DEFINE v == [proc[p] EXCEPT !.seen = row.state, !.ref = row.ref, !.reclaim = reclaim, !.pc = pc]
<1>1. v \in Execution /\ v.pc = pc /\ v.fresh = proc[p].fresh /\ v.stuck = proc[p].stuck
      /\ v.got = proc[p].got
  <2>1. proc[p] \in Execution /\ row \in Row /\ pc \in Pcs
    BY DEF TypeOK, Pcs, Elsewhere
  <2> QED
    BY ONLY <2>1, reclaim \in BOOLEAN DEF Execution, Row
<1>2. Becomes(p, v)
  OBVIOUS
<1> HIDE DEF v
<1> QED
  BY <1>1, <1>2, BecomesMoves

LEMMA QuietSteps == ASSUME LInv, NEW p \in Procs, Quiet(p) PROVE Quietly(p)
<1> DEFINE RunsKept2 ==
      \A q \in Procs \ {p} : runs'[env.run[q]].by = q => runs[env.run[q]].by = q
<1> USE DEF Others, KeepRow
<1>t. TypeOK
  BY DEF LInv
<1>1. CASE Begin(p)
  <2>1. UNCHANGED <<env, row, current, box, sleeper, stopper, crashes>> /\ proc[p].pc = "idle"
        /\ Becomes(p, [Idle EXCEPT !.pc = "enter"])
    BY <1>1 DEF Begin
  <2>2. UNCHANGED runs \/ runs' = [runs EXCEPT ![env.run[p]] = [status |-> "live", by |-> p]]
    <3>1. CASE env.kind[p] = "run"
      BY <1>1, <3>1, Zenon DEF Begin
    <3>2. CASE env.kind[p] = "boot"
      BY <1>1, <3>2, Zenon DEF Begin
    <3>3. CASE env.kind[p] # "run" /\ env.kind[p] # "boot"
      BY <1>1, <3>3, Zenon DEF Begin
    <3> QED
      BY <3>1, <3>2, <3>3
  <2>3. RunsKept2
    BY <2>2, EnvFacts, <1>t DEF TypeOK
  <2>4. Moves(p)
    BY <1>t, <2>1, IdleMoves
  <2> QED
    BY <2>1, <2>3, <2>4 DEF Quietly, Elsewhere
<1>2. CASE Enter(p)
  <2>1. CASE AcquireReads(p) \/ AcquireValidates(p)
    <3>1. PICK pc \in {"survey", "read", "requeue", "take", "undo"} : Go(p, pc)
      BY <2>1 DEF AcquireReads, AcquireValidates, ReplaceAt
    <3>2. proc[p].pc \in {"enter", "validate"}
          /\ UNCHANGED <<env, row, current, box, sleeper, stopper, crashes, runs>>
      BY <2>1 DEF AcquireReads, AcquireValidates
    <3>3. Moves(p)
      BY <1>t, <3>1, <3>2, GoMoves DEF Elsewhere
    <3> QED
      BY <3>2, <3>3 DEF Quietly, Elsewhere
  <2>2. CASE AcquireTakes(p)
    <3>1. proc[p].pc = "take"
          /\ UNCHANGED <<env, row, current, box, sleeper, stopper, crashes, runs>>
      BY <2>2 DEF AcquireTakes
    <3>2. Moves(p)
      <4>1. CASE Go(p, "requeue")
        BY <1>t, <4>1, GoMoves DEF Elsewhere
      <4>2. CASE ~Go(p, "requeue")
        <5> DEFINE f == nextFence(lease[env.bot[p]].fence)
                   v == [proc[p] EXCEPT !.pc = "validate", !.fence = f]
        <5>1. f \in 0 .. env.fences /\ Becomes(p, v)
          BY <1>t, <2>2, <4>2, EnvFacts DEF AcquireTakes, nextFence, TypeOK, Lease
        <5>2. /\ v \in Execution /\ v.pc = "validate" /\ v.fresh = proc[p].fresh
              /\ v.stuck = proc[p].stuck /\ v.got = proc[p].got
          <6> HIDE DEF f
          <6>1. proc[p] \in Execution /\ "validate" \in Pcs
            BY <1>t DEF TypeOK, Pcs
          <6> QED
            BY ONLY <5>1, <6>1 DEF Execution
        <5> HIDE DEF v
        <5> QED
          BY <1>t, <3>1, <5>1, <5>2, BecomesMoves DEF Elsewhere
      <4> QED
        BY <4>1, <4>2
    <3> QED
      BY <3>1, <3>2 DEF Quietly, Elsewhere
  <2>3. CASE Requeue(p)
    <3>1. RunsKept2
      BY <1>t, <2>3, EnvFacts DEF Requeue, TypeOK
    <3>2. proc[p].pc = "requeue" /\ Go(p, "release")
          /\ UNCHANGED <<env, row, box, sleeper, stopper, crashes>> /\ current' = current \ {p}
      BY <2>3 DEF Requeue, Forget
    <3>3. Moves(p)
      BY <1>t, <3>2, GoMoves DEF Elsewhere
    <3> QED
      BY <3>1, <3>2, <3>3 DEF Quietly, Elsewhere
  <2>4. CASE releaseComputerExecutionLease(p)
    <3>1. proc[p].pc \in {"undo", "release"}
          /\ UNCHANGED <<env, row, current, box, sleeper, stopper, crashes, runs>>
          /\ (Becomes(p, [Idle EXCEPT !.pc = "requeue"]) \/ Becomes(p, Idle))
      BY <2>4 DEF releaseComputerExecutionLease
    <3>2. ASSUME Becomes(p, Idle) PROVE Moves(p)
      BY <1>t, <3>2, IdleFacts, BecomesFacts DEF Moves, Steps, Elsewhere
    <3>3. ASSUME Becomes(p, [Idle EXCEPT !.pc = "requeue"]) PROVE Moves(p)
      BY <1>t, <3>3, IdleMoves
    <3> QED
      BY <3>1, <3>2, <3>3 DEF Quietly, Elsewhere
  <2> QED
    BY <1>2, <2>1, <2>2, <2>3, <2>4 DEF Enter
<1>3. CASE Finish(p)
  <2>1. RunsKept2
    BY <1>t, <1>3, EnvFacts DEF Finish, TypeOK
  <2>2. proc[p].pc = "using" /\ Go(p, "release")
        /\ UNCHANGED <<env, row, current, box, sleeper, stopper, crashes>>
    BY <1>3 DEF Finish
  <2>3. Moves(p)
    BY <1>t, <2>2, GoMoves DEF Elsewhere
  <2> QED
    BY <2>1, <2>2, <2>3 DEF Quietly
<1>4. CASE ProvisionReads(p)
  <2>1. row.state \in States
    BY <1>t DEF TypeOK, Row
  <2>2. AfterRead \in {"ask", "requeue", "wait", "claim"}
    BY <2>1, ReadLeads
  <2>3. Becomes(p, [proc[p] EXCEPT !.seen = row.state, !.ref = row.ref,
                                   !.reclaim = row.state = "booting", !.pc = AfterRead])
    BY <1>4 DEF ProvisionReads
  <2>4. proc[p].pc = "read" /\ UNCHANGED <<env, row, box, sleeper, stopper, crashes, runs>>
        /\ (current' = current \cup {p} \/ current' = current \ {p})
    BY <1>4 DEF ProvisionReads
  <2>5. Moves(p)
    <3>1. AfterRead \in Elsewhere /\ (row.state = "booting") \in BOOLEAN
      BY <2>2 DEF Elsewhere
    <3> HIDE DEF AfterRead
    <3> QED
      BY ONLY <1>t, p \in Procs, <2>3, <2>4, <3>1, ReadMoves
  <2> QED
    BY <2>4, <2>5 DEF Quietly, Elsewhere
<1>5. CASE ProvisionWaits(p)
  <2> DEFINE pc == AfterWait(proc[p].reclaim)
             v == [proc[p] EXCEPT !.seen = row.state, !.ref = row.ref, !.pc = pc]
  <2>1. pc \in {"requeue", "askAgain", "claim"}
    BY <1>t, WaitLeads DEF TypeOK, Execution
  <2>2. Becomes(p, v) /\ proc[p].pc = "wait"
        /\ UNCHANGED <<env, row, current, box, sleeper, stopper, crashes, runs>>
    BY <1>5 DEF ProvisionWaits
  <2> HIDE DEF pc
  <2>3. /\ v \in Execution /\ v.pc = pc /\ v.fresh = proc[p].fresh
        /\ v.stuck = proc[p].stuck /\ v.got = proc[p].got
    <3>1. proc[p] \in Execution /\ row \in Row /\ pc \in Pcs
      BY <1>t, <2>1 DEF TypeOK, Pcs
    <3> QED
      BY ONLY <3>1 DEF Execution, Row
  <2> HIDE DEF v
  <2>4. Moves(p)
    BY <1>t, <2>1, <2>2, <2>3, BecomesMoves DEF Elsewhere
  <2> QED
    BY <2>2, <2>4 DEF Quietly, Elsewhere
<1>6. CASE ProvisionAsksRuns(p) \/ ProvisionAsksRunsAgain(p)
  <2>1. PICK pc \in {"requeue", "wait", "claim"} : Go(p, pc)
    BY <1>6 DEF ProvisionAsksRuns, ProvisionAsksRunsAgain
  <2>2. proc[p].pc \in {"ask", "askAgain"}
        /\ UNCHANGED <<env, row, current, box, sleeper, stopper, crashes, runs>>
    BY <1>6 DEF ProvisionAsksRuns, ProvisionAsksRunsAgain
  <2>3. Moves(p)
    BY <1>t, <2>1, <2>2, GoMoves DEF Elsewhere
  <2> QED
    BY <2>2, <2>3 DEF Quietly, Elsewhere
<1>7. CASE ReplaceSurveys(p)
  <2>1. /\ proc[p].pc = "survey"
        /\ UNCHANGED <<env, row, box, sleeper, stopper, crashes, runs>>
        /\ current' = current \/ current' = current \cup {p}
    BY <1>7 DEF ReplaceSurveys
  <2>2. Moves(p)
    <3>1. CASE Go(p, "requeue")
      BY <1>t, <3>1, GoMoves DEF Elsewhere
    <3>2. CASE ~Go(p, "requeue")
      <4> DEFINE v == [proc[p] EXCEPT !.pc = "seize", !.seen = row.state, !.ref = row.ref]
      <4>1. /\ v \in Execution /\ v.pc = "seize" /\ v.fresh = proc[p].fresh
            /\ v.stuck = proc[p].stuck /\ v.got = proc[p].got
        <5>1. proc[p] \in Execution /\ row \in Row
          BY <1>t DEF TypeOK
        <5> QED
          BY ONLY <5>1 DEF Execution, Pcs, Row
      <4>2. Becomes(p, v)
        BY <1>7, <3>2 DEF ReplaceSurveys
      <4> HIDE DEF v
      <4> QED
        BY <1>t, <2>1, <4>1, <4>2, BecomesMoves DEF Elsewhere
    <3> QED
      BY <3>1, <3>2
  <2> QED
    BY <2>1, <2>2 DEF Quietly, Elsewhere
<1>8. CASE (ProvisionClaims(p) \/ ReplaceClaims(p)) /\ KeepRow /\ Go(p, "requeue")
  <2>1. proc[p].pc \in {"claim", "seize"}
        /\ UNCHANGED <<env, row, current, box, sleeper, stopper, crashes, runs>>
    BY <1>8 DEF ProvisionClaims, ReplaceClaims
  <2>2. Moves(p)
    BY <1>t, <1>8, GoMoves DEF Elsewhere
  <2> QED
    BY <2>1, <2>2 DEF Quietly, Elsewhere
<1> QED
  BY <1>1, <1>2, <1>3, <1>4, <1>5, <1>6, <1>7, <1>8 DEF Quiet

-----------------------------------------------------------------------------
(* The steps that move no sandbox and do not claim or release the row *)

LEMMA QuietMove ==
  ASSUME LInv, SInv, NEW p \in Procs, Steps(p), UNCHANGED <<env, box, sleeper>>,
         row'.state = row.state, row'.ref = row.ref,
         \A q \in Procs \ {p} : runs'[env.run[q]].by = q => runs[env.run[q]].by = q,
         proc'[p].pc \in {"idle", "enter", "take", "validate", "undo", "read", "ask", "wait",
                          "askAgain", "claim", "survey", "seize", "requeue", "release"},
         ~proc'[p].fresh
  PROVE  SInv'
<1>1. \A q \in Procs : Works(q)' => Works(q)
  BY DEF Steps, Works
<1>2. ~Booting(p)'
  BY DEF Booting, Provisioning
<1> QED
  BY <1>1, <1>2, QuietKept DEF Steps

LEMMA NotFresh ==
  ASSUME SInv, NEW p \in Procs, proc[p].pc \notin {"activate", "rollback", "record"}
  PROVE  ~proc[p].fresh
BY DEF SInv, Fits, BoxFits

LEMMA QuietStepsKept == ASSUME LInv, SInv, NEW p \in Procs, Quiet(p) PROVE SInv'
<1>1. Quietly(p)
  BY QuietSteps
<1>2. ~proc'[p].fresh
  BY <1>1, NotFresh DEF Quietly, Moves, Elsewhere
<1> QED
  BY <1>1, <1>2, QuietMove DEF Quietly, Moves, Elsewhere

LEMMA CrashKept == ASSUME LInv, SInv, NEW p \in Procs, Crash(p) PROVE SInv'
<1>1. Steps(p) /\ proc'[p] = Idle
  BY IdleFacts, BecomesFacts DEF Crash, Steps, LInv
<1> QED
  BY <1>1, IdleFacts, QuietMove DEF Crash, Forget, LInv

-----------------------------------------------------------------------------
(* The steps of a boot *)

LEMMA ClaimsKept == ASSUME LInv, SInv, NEW p \in Procs, ProvisionClaims(p) PROVE SInv'
<1> USE DEF Others
<1>1. CASE ~ClaimMatches(p)
  BY <1>1, QuietStepsKept DEF ProvisionClaims, Quiet
<1>2. CASE ClaimMatches(p)
  <2>1. /\ Write("booting", row.ref, {p}) /\ Go(p, "provision") /\ proc[p].pc = "claim"
        /\ UNCHANGED <<env, box, lease, runs, sleeper, stopper>>
    BY <1>2 DEF ProvisionClaims
  <2>2. /\ Steps(p) /\ proc'[p].pc = "provision" /\ proc'[p].seen = proc[p].seen
        /\ proc'[p].ref = proc[p].ref /\ proc'[p].fresh = proc[p].fresh /\ ~proc[p].fresh
    BY <2>1, GoFacts, NotFresh DEF Steps, Pcs, Provisioning, LInv
  <2>3. row'.state = "booting" /\ row'.ref = row.ref
    BY <2>1 DEF Write
  <2>4. /\ row.state # "suspending" /\ row.state = proc[p].seen /\ row.ref = proc[p].ref
        /\ row.state = "booting" => NobodyBoots /\ NobodyWorks
    BY <1>2, <2>1 DEF ClaimMatches, LInv, SeensFit, SeenFits, StampsFit, StampFits, Waits
  <2>5. NobodyBoots
    BY <2>4 DEF SInv, Fits, BootFits, NobodyBoots
  <2>6. row.state = "running" => IsUp(row.ref)
    BY DEF SInv, RowFits
  <2>7. row.state # "running" => NobodyWorks
    BY <2>4 DEF SInv, RowFits, LInv, TypeOK, Row, States, Down
  <2>8. \A q \in Procs : Works(q)' => Works(q) /\ q # p
    BY <2>1, <2>2 DEF Steps, Works
  <2>9. Fits(p)'
    <3>1. BootFits(p)'
      <4>1. proc'[p].seen = "running" => IsUp(proc[p].ref)'
        BY <2>1, <2>2, <2>4, <2>6 DEF IsUp
      <4>2. proc'[p].seen # "running" => NobodyWorks'
        BY <2>2, <2>4, <2>7, <2>8 DEF NobodyWorks
      <4> QED
        BY <2>2, <2>3, <2>4, <4>1, <4>2 DEF BootFits, IsUp
    <3>2. BoxFits(p)' /\ TakenFits(p)' /\ WorkFits(p)'
      BY <2>2, <2>8 DEF BoxFits, TakenFits, WorkFits
    <3> QED
      BY <3>1, <3>2 DEF Fits
  <2>10. \A q \in Procs \ {p} : Works(q) => row'.ref = proc[q].got /\ IsUp(row.ref)'
    BY <2>1, <2>3 DEF SInv, Fits, WorkFits, IsUp
  <2>11. RowFits'
    BY <2>3 DEF RowFits, Down
  <2> QED
    BY <2>1, <2>2, <2>4, <2>5, <2>9, <2>10, <2>11, LoneKept, Aloneness
<1> QED
  BY <1>1, <1>2

(* What a boot does to a sandbox leaves the workers theirs, if it has seen *)
(* the computer running, and there are none if it has not.                 *)
LEMMA BootBoxKept ==
  ASSUME LInv, SInv, NEW p \in Procs, Booting(p), Steps(p), Booting(p)',
         UNCHANGED <<env, row, runs, sleeper>>,
         proc'[p].seen = proc[p].seen, proc'[p].ref = proc[p].ref,
         proc[p].seen = "running" => IsUp(proc[p].ref)' /\ ~proc'[p].fresh,
         BoxFits(p)'
  PROVE  SInv'
<1>1. BootFits(p) /\ row.state = "booting" /\ row.ref = proc[p].ref
  BY DEF SInv, Fits, BootFits
<1>2. ~Works(p)' /\ TakenFits(p)'
  BY DEF Booting, Provisioning, Works, TakenFits
<1>3. ~Works(p)
  BY DEF Booting, Provisioning, Works
<1>4. NobodyWorks => NobodyWorks'
  BY <1>2 DEF NobodyWorks, Works, Steps
<1>5. BootFits(p)'
  BY <1>1, <1>4 DEF BootFits, IsUp
<1>6. Fits(p)'
  BY <1>2, <1>5 DEF Fits, WorkFits
<1>7. ASSUME NEW q \in Procs \ {p}, Works(q) PROVE row'.ref = proc[q].got /\ IsUp(row.ref)'
  <2>1. proc[p].seen = "running"
    BY <1>1, <1>7 DEF BootFits, NobodyWorks
  <2> QED
    BY <1>1, <1>7, <2>1 DEF SInv, Fits, WorkFits, IsUp
<1>8. RowFits'
  BY <1>1 DEF RowFits, Down
<1> QED
  BY <1>6, <1>7, <1>8, LoneKept, Aloneness

LEMMA ProvisionsKept == ASSUME LInv, SInv, NEW p \in Procs, Provision(p) PROVE SInv'
<1>1. /\ Booting(p) /\ UNCHANGED <<env, row, lease, runs, sleeper>> /\ proc[p].pc = "provision"
      /\ proc[p].seen = "running" => IsUp(proc[p].ref)
      /\ ~proc[p].fresh
  BY DEF Provision, Others, KeepRow, Booting, Provisioning, SInv, Fits, BootFits, BoxFits
<1>2. proc[p].ref \in MaybeRef /\ env.refs \subseteq Refs /\ box \in Boxes
  BY EnvFacts DEF LInv, TypeOK, Execution, Boxes
<1>3. CASE Go(p, "record") /\ UNCHANGED box
  <2>1. /\ Steps(p) /\ proc'[p].pc = "record" /\ proc'[p].seen = proc[p].seen
        /\ proc'[p].ref = proc[p].ref /\ proc'[p].fresh = proc[p].fresh
    BY <1>3, GoFacts DEF Steps, Pcs, Provisioning, LInv
  <2>2. Booting(p)' /\ BoxFits(p)'
    BY <1>1, <2>1 DEF Booting, Provisioning, BoxFits
  <2> QED
    BY <1>1, <1>3, <2>1, <2>2, BootBoxKept DEF IsUp
<1>4. ASSUME NEW ref \in Refs, box' = [box EXCEPT ![ref] = "up"], NEW fresh \in BOOLEAN,
             fresh => proc[p].seen # "running", ~fresh => ref = proc[p].ref,
             NEW v \in Execution, Becomes(p, v),
             v.pc = "activate" /\ v.got = ref /\ v.fresh = fresh /\ v.seen = proc[p].seen
             /\ v.ref = proc[p].ref
      PROVE  SInv'
  <2>1. Steps(p) /\ proc'[p] = v
    BY <1>4, BecomesFacts DEF Steps, LInv
  <2>2. \A r : r \in MaybeRef /\ IsUp(r) => IsUp(r)'
    BY <1>2, <1>4 DEF IsUp, Boxes, MaybeRef
  <2>3. box'[ref] = "up" /\ ref # NoRef
    BY <1>2, <1>4, EnvFacts DEF Boxes, LInv
  <2>4. Booting(p)' /\ BoxFits(p)'
    BY <1>4, <2>1, <2>3 DEF Booting, Provisioning, BoxFits, IsUp
  <2>5. proc[p].seen = "running" => IsUp(proc[p].ref)' /\ ~proc'[p].fresh
    BY <1>1, <1>2, <1>4, <2>1, <2>2
  <2>6. proc'[p].seen = proc[p].seen /\ proc'[p].ref = proc[p].ref
    BY <1>4, <2>1
  <2> QED
    BY <1>1, <2>1, <2>4, <2>5, <2>6, BootBoxKept
<1>5. CASE Exists(proc[p].ref) /\ ~(Go(p, "record") /\ UNCHANGED box)
  <2> DEFINE v == [proc[p] EXCEPT !.pc = "activate", !.got = proc[p].ref]
  <2>1. box' = [box EXCEPT ![proc[p].ref] = "up"] /\ Becomes(p, v) /\ proc[p].ref \in Refs
    BY <1>2, <1>5 DEF Provision, Exists, MaybeRef
  <2>2. /\ v \in Execution /\ v.pc = "activate" /\ v.got = proc[p].ref /\ v.fresh = FALSE
        /\ v.seen = proc[p].seen /\ v.ref = proc[p].ref
    <3>1. proc[p] \in Execution
      BY DEF LInv, TypeOK
    <3>2. ~proc[p].fresh
      BY <1>1
    <3> QED
      BY ONLY <1>2, <3>1, <3>2 DEF Execution, Pcs, Provisioning
  <2> HIDE DEF v
  <2> QED
    BY <1>1, <1>4, <2>1, <2>2
<1>6. CASE ~Exists(proc[p].ref) /\ ~(Go(p, "record") /\ UNCHANGED box)
  <2>1. PICK new \in env.refs :
          /\ box' = [box EXCEPT ![new] = "up"]
          /\ Becomes(p, [proc[p] EXCEPT !.pc = "activate", !.got = new, !.fresh = TRUE])
    BY <1>6 DEF Provision
  <2> DEFINE v == [proc[p] EXCEPT !.pc = "activate", !.got = new, !.fresh = TRUE]
  <2>2. Becomes(p, v) /\ new \in Refs
    BY <1>2, <2>1
  <2>3. /\ v \in Execution /\ v.pc = "activate" /\ v.got = new /\ v.fresh = TRUE
        /\ v.seen = proc[p].seen /\ v.ref = proc[p].ref
    <3>1. proc[p] \in Execution
      BY DEF LInv, TypeOK
    <3> QED
      BY ONLY <2>2, <3>1 DEF Execution, Pcs, Provisioning, MaybeRef
  <2>4. proc[p].seen # "running"
    BY <1>1, <1>6 DEF IsUp, Exists
  <2> HIDE DEF v
  <2> QED
    BY <1>4, <2>1, <2>2, <2>3, <2>4
<1> QED
  BY <1>3, <1>5, <1>6

LEMMA ActivatesKept == ASSUME LInv, SInv, NEW p \in Procs, Activate(p) \/ PrepareFails(p) PROVE SInv'
<1> USE DEF Others
<1>1. /\ Booting(p) /\ proc[p].pc = "activate" /\ UNCHANGED <<env, box, lease, runs, sleeper>>
      /\ proc[p].seen = "running" => IsUp(proc[p].ref) /\ ~proc[p].fresh
  BY DEF Activate, PrepareFails, Booting, Provisioning, SInv, Fits, BootFits
<1>2. CASE PrepareFails(p) \/ ~ActivationMatches(p)
  <2>1. /\ Steps(p) /\ proc'[p].pc = "rollback" /\ proc'[p].seen = proc[p].seen
        /\ proc'[p].ref = proc[p].ref /\ proc'[p].fresh = proc[p].fresh
    <3>1. CASE PrepareFails(p)
      BY <3>1, GoFacts DEF Steps, Pcs, Provisioning, PrepareFails, LInv
    <3>2. CASE ~PrepareFails(p)
      <4> DEFINE v == [proc[p] EXCEPT !.pc = "rollback", !.busy = TRUE]
      <4>1. /\ v \in Execution /\ v.pc = "rollback" /\ v.seen = proc[p].seen
            /\ v.ref = proc[p].ref /\ v.fresh = proc[p].fresh
        <5>1. proc[p] \in Execution
          BY DEF LInv, TypeOK
        <5> QED
          BY ONLY <5>1 DEF Execution, Pcs, Provisioning
      <4>2. Becomes(p, v)
        BY <1>2, <3>2 DEF Activate
      <4> HIDE DEF v
      <4> QED
        BY <4>1, <4>2, BecomesFacts DEF Steps, LInv
    <3> QED
      BY <3>1, <3>2
  <2>2. UNCHANGED row
    BY <1>2 DEF PrepareFails, Activate, KeepRow
  <2>3. Booting(p)' /\ BoxFits(p)'
    BY <1>1, <2>1 DEF Booting, Provisioning, BoxFits
  <2> QED
    BY <1>1, <2>1, <2>2, <2>3, BootBoxKept DEF IsUp
<1>3. CASE Activate(p) /\ ActivationMatches(p)
  <2>1. /\ row' = [state |-> "running", ref |-> proc[p].got, aged |-> FALSE]
        /\ row.state = "booting" /\ row.ref = proc[p].ref
    BY <1>3 DEF Activate, ActivationMatches, Claimed, Write
  <2>2. /\ row'.state = "running" /\ row'.ref = proc[p].got
        /\ IsUp(row.ref)' /\ (~proc[p].fresh => proc[p].got = proc[p].ref)
    BY <1>1, <2>1 DEF SInv, Fits, BoxFits, IsUp
  <2>3. /\ Steps(p) /\ proc'[p].pc \in {"using", "release"} /\ ~proc'[p].fresh
        /\ proc'[p].pc = "using" => proc'[p].got = proc[p].got
    <3>1. CASE env.kind[p] = "run"
      <4> DEFINE u == At(p, "using")
                 v == [u EXCEPT !.got = proc[p].got]
      <4>1. v \in Execution /\ v.pc = "using" /\ ~v.fresh /\ v.got = proc[p].got
        <5>1. TypeOK /\ "using" \in Pcs /\ proc[p].got \in MaybeRef
          BY RowFacts DEF Pcs, LInv
        <5>2. u \in Execution /\ u.pc = "using" /\ ~u.fresh
          BY ONLY <5>1, p \in Procs, AtFacts
        <5> HIDE DEF u
        <5> QED
          BY ONLY <5>1, <5>2 DEF Execution
      <4>2. Becomes(p, v)
        BY <1>3, <3>1 DEF Activate
      <4> HIDE DEF v
      <4> QED
        BY <4>1, <4>2, BecomesFacts DEF Steps, LInv
    <3>2. CASE env.kind[p] # "run"
      <4>1. Go(p, "release")
        BY <1>3, <3>2 DEF Activate
      <4>2. proc'[p] = At(p, "release")
        BY <4>1 DEF Go, Becomes, LInv, TypeOK
      <4>3. TypeOK /\ "release" \in Pcs
        BY DEF Pcs, LInv
      <4>4. ~At(p, "release").fresh
        BY <4>3, AtFacts
      <4> QED
        BY <4>1, <4>2, <4>3, <4>4, GoFacts DEF Steps
    <3> QED
      BY <3>1, <3>2
  <2>4. RowFits'
    BY <2>2 DEF RowFits, Down
  <2>5. Fits(p)'
    BY <2>2, <2>3 DEF Fits, BootFits, BoxFits, TakenFits, WorkFits, Works, Booting, Provisioning
  <2>6. ASSUME NEW q \in Procs \ {p}, Works(q) PROVE row'.ref = proc[q].got /\ IsUp(row.ref)'
    <3>1. proc[p].seen = "running"
      BY <1>1, <2>6 DEF SInv, Fits, BootFits, NobodyWorks
    <3>2. proc[p].got = row.ref
      BY <1>1, <2>1, <2>2, <3>1
    <3> QED
      BY <2>2, <2>6, <3>2 DEF SInv, Fits, WorkFits
  <2> QED
    BY <1>1, <2>3, <2>4, <2>5, <2>6, LoneKept, Aloneness
<1> QED
  BY <1>2, <1>3

LEMMA RollbackKept ==
  ASSUME LInv, SInv, NEW p \in Procs, rollbackProvisionedComputer(p) PROVE SInv'
<1>1. /\ Booting(p) /\ UNCHANGED <<env, row, lease, runs, sleeper>> /\ proc[p].pc = "rollback"
      /\ proc[p].seen = "running" => IsUp(proc[p].ref) /\ ~proc[p].fresh
  BY DEF rollbackProvisionedComputer, Others, KeepRow, Booting, Provisioning, SInv, Fits, BootFits
<1>2. /\ Steps(p) /\ proc'[p].pc = "record" /\ proc'[p].seen = proc[p].seen
      /\ proc'[p].ref = proc[p].ref /\ proc'[p].fresh = proc[p].fresh
  <2>1. CASE Go(p, "record")
    BY <2>1, GoFacts DEF Steps, Pcs, Provisioning, LInv
  <2>2. CASE ~Go(p, "record")
    <3>1. PICK stuck \in BOOLEAN : Becomes(p, [proc[p] EXCEPT !.pc = "record", !.stuck = stuck])
      BY <2>2 DEF rollbackProvisionedComputer
    <3> DEFINE v == [proc[p] EXCEPT !.pc = "record", !.stuck = stuck]
    <3>2. /\ v \in Execution /\ v.pc = "record" /\ v.seen = proc[p].seen
          /\ v.ref = proc[p].ref /\ v.fresh = proc[p].fresh
      <4>1. proc[p] \in Execution
        BY DEF LInv, TypeOK
      <4> QED
        BY ONLY <4>1, stuck \in BOOLEAN DEF Execution, Pcs, Provisioning
    <3>3. Becomes(p, v)
      BY <3>1
    <3> HIDE DEF v
    <3> QED
      BY <3>2, <3>3, BecomesFacts DEF Steps, LInv
  <2> QED
    BY <2>1, <2>2
<1>3. proc[p].seen = "running" => UNCHANGED box
  BY <1>1 DEF rollbackProvisionedComputer, RollsBack, Reconnecting, IsUp
<1>4. Booting(p)' /\ BoxFits(p)'
  BY <1>2 DEF Booting, Provisioning, BoxFits
<1> QED
  BY <1>1, <1>2, <1>3, <1>4, BootBoxKept DEF IsUp

(* A write at the end of a claim: p has the row and leaves it, or goes on. *)
LEMMA EndsKept ==
  ASSUME LInv, SInv, NEW p \in Procs, Booting(p) \/ ProcHolds(p), Steps(p),
         UNCHANGED <<env, box, runs, sleeper>>, row'.ref = row.ref,
         proc'[p].pc \in {"requeue", "clear"}, ~proc'[p].fresh,
         row'.state = "running" => IsUp(row.ref),
         row'.state \in Down \/ proc'[p].pc = "clear" => NobodyWorks
  PROVE  SInv'
<1>1. ~Works(p)' /\ ~Booting(p)'
  BY DEF Works, Booting, Provisioning
<1>2. NobodyWorks => NobodyWorks'
  BY <1>1 DEF NobodyWorks, Works, Steps
<1>3. Fits(p)'
  BY <1>1, <1>2 DEF Fits, BootFits, BoxFits, TakenFits, WorkFits
<1>4. RowFits'
  BY <1>2 DEF RowFits, IsUp
<1>5. \A q \in Procs \ {p} : Works(q) => row'.ref = proc[q].got /\ IsUp(row.ref)'
  BY DEF SInv, Fits, WorkFits, IsUp
<1> QED
  BY <1>3, <1>4, <1>5, LoneKept, Aloneness

(* An execution that gives up keeps nothing of its attempt.                *)
LEMMA RequeueFacts ==
  ASSUME TypeOK, NEW p \in Procs, Go(p, "requeue")
  PROVE  Steps(p) /\ proc'[p].pc = "requeue" /\ ~proc'[p].fresh
BY GoFacts DEF Pcs, Steps

LEMMA RecordsKept == ASSUME LInv, SInv, NEW p \in Procs, RecordFailure(p) PROVE SInv'
<1>1. CASE ~Claimed(p)
  BY <1>1, RequeueFacts, QuietMove DEF RecordFailure, Others, KeepRow, LInv
<1>2. CASE Claimed(p)
  <2>1. /\ Booting(p) /\ UNCHANGED <<env, box, lease, runs, sleeper>>
        /\ row.ref = proc[p].ref /\ Go(p, "requeue")
        /\ proc[p].seen = "running" => IsUp(row.ref)
        /\ proc[p].seen # "running" => NobodyWorks
    BY <1>2 DEF RecordFailure, Others, Claimed, Booting, Provisioning, SInv, Fits, BootFits
  <2>2. Reconnecting(p) <=> proc[p].seen = "running"
    BY <2>1 DEF Reconnecting, IsUp
  <2>3. Steps(p) /\ proc'[p].pc = "requeue" /\ ~proc'[p].fresh
    BY <2>1, RequeueFacts DEF LInv
  <2>4. CASE Reconnecting(p)
    <3>1. row'.state = "running" /\ row'.ref = row.ref
      BY <1>2, <2>4 DEF RecordFailure, Write
    <3> QED
      BY <2>1, <2>2, <2>3, <2>4, <3>1, EndsKept DEF Down
  <2>5. CASE ~Reconnecting(p)
    <3>1. row'.state = "error"
      BY <1>2, <2>5 DEF RecordFailure, Write
    <3>2. NobodyWorks /\ NobodyWorks'
      BY <2>1, <2>2, <2>3, <2>5 DEF NobodyWorks, Works, Steps
    <3>3. Fits(p)' /\ RowFits'
      BY <2>3, <3>1, <3>2 DEF Fits, BootFits, BoxFits, TakenFits, WorkFits, Works, Booting,
                              Provisioning, RowFits
    <3> QED
      BY <2>1, <2>3, <3>2, <3>3, LoneKept, Aloneness DEF NobodyWorks
  <2> QED
    BY <2>4, <2>5
<1> QED
  BY <1>1, <1>2

-----------------------------------------------------------------------------
(* The steps of a turn and of a replacement *)

LEMMA CheckpointsKept == ASSUME LInv, SInv, NEW p \in Procs, Checkpoint(p) PROVE SInv'
<1> USE DEF Others
<1>1. CASE Recorded /\ UNCHANGED proc
  BY <1>1, QuietKept DEF Checkpoint, Recorded, Write, Works
<1>2. CASE ~(Recorded /\ UNCHANGED proc)
  <2>1. /\ row' = [state |-> "suspending", ref |-> row.ref, aged |-> FALSE] /\ Go(p, "checkpoint")
        /\ row.state = "running" /\ row.ref = proc[p].got
        /\ UNCHANGED <<env, box, lease, runs, sleeper>> /\ proc[p].pc = "using"
    BY <1>2 DEF Checkpoint, Write
  <2>2. /\ Steps(p) /\ proc'[p].pc = "checkpoint" /\ proc'[p].got = proc[p].got
        /\ proc'[p].fresh = proc[p].fresh /\ ~proc[p].fresh
    BY <2>1, GoFacts, NotFresh DEF Steps, Pcs, LInv
  <2>3. NobodyBoots
    BY <2>1 DEF SInv, Fits, BootFits, NobodyBoots
  <2>4. IsUp(row.ref)' /\ row'.ref = row.ref /\ row'.state = "suspending"
    BY <2>1 DEF SInv, RowFits, IsUp
  <2>5. Fits(p)' /\ RowFits'
    BY <2>1, <2>2, <2>4 DEF Fits, BootFits, BoxFits, TakenFits, WorkFits, Booting, Provisioning,
                            RowFits, Down, IsUp
  <2>6. \A q \in Procs \ {p} : Works(q) => row'.ref = proc[q].got /\ IsUp(row.ref)'
    BY <2>4 DEF SInv, Fits, WorkFits
  <2> QED
    BY <2>1, <2>2, <2>3, <2>5, <2>6, LoneKept, Aloneness
<1> QED
  BY <1>1, <1>2

LEMMA CheckpointsEndKept == ASSUME LInv, SInv, NEW p \in Procs, CheckpointEnds(p) PROVE SInv'
<1>1. /\ ProcHolds(p) /\ row.state = "suspending" /\ row.ref = proc[p].got /\ IsUp(row.ref)
      /\ Go(p, "using") /\ UNCHANGED <<env, box, lease, runs, sleeper>>
      /\ proc[p].pc = "checkpoint"
  BY DEF CheckpointEnds, Others, ProcHolds, LInv, HoldersSuspend, SInv, Fits, BoxFits
<1>2. row'.state = "running" /\ row'.ref = row.ref
  BY <1>1 DEF CheckpointEnds, Write
<1>3. /\ Steps(p) /\ proc'[p].pc = "using" /\ proc'[p].got = proc[p].got
      /\ proc'[p].fresh = proc[p].fresh /\ ~proc[p].fresh
  BY <1>1, GoFacts, NotFresh DEF Steps, Pcs, LInv
<1>4. IsUp(row.ref)'
  BY <1>1, <1>2 DEF IsUp
<1>5. Fits(p)' /\ RowFits'
  BY <1>1, <1>2, <1>3, <1>4 DEF Fits, BootFits, BoxFits, TakenFits, WorkFits, Booting,
                                Provisioning, RowFits, Down
<1>6. \A q \in Procs \ {p} : Works(q) => row'.ref = proc[q].got /\ IsUp(row.ref)'
  BY <1>2, <1>4 DEF SInv, Fits, WorkFits
<1> QED
  BY <1>1, <1>3, <1>5, <1>6, LoneKept, Aloneness

LEMMA SeizesKept == ASSUME LInv, SInv, NEW p \in Procs, ReplaceClaims(p) PROVE SInv'
<1> USE DEF Others
<1>1. CASE KeepRow /\ Go(p, "requeue")
  BY <1>1, QuietStepsKept DEF Quiet
<1>2. CASE ~(KeepRow /\ Go(p, "requeue"))
  <2>1. /\ row' = [state |-> "suspending", ref |-> row.ref, aged |-> FALSE] /\ Go(p, "recheck")
        /\ row.state = proc[p].seen /\ (row.state = "booting" => p \in current)
        /\ UNCHANGED <<env, box, lease, runs, sleeper>> /\ proc[p].pc = "seize"
    BY <1>2 DEF ReplaceClaims, Write
  <2>2. row.state # "suspending" /\ NobodyBoots
    BY <2>1 DEF LInv, SeensFit, SeenFits, StampsFit, StampFits, SInv, Fits, BootFits, NobodyBoots
  <2>3. /\ Steps(p) /\ proc'[p].pc = "recheck" /\ proc'[p].seen = row.state
        /\ proc'[p].fresh = proc[p].fresh /\ ~proc[p].fresh
    BY <2>1, GoFacts, NotFresh DEF Steps, Pcs, LInv
  <2>4. row'.ref = row.ref /\ row'.state = "suspending"
    BY <2>1
  <2>5. ~Works(p)' /\ (NobodyWorks => NobodyWorks')
    BY <2>1, <2>3 DEF NobodyWorks, Works, Steps
  <2>6. Fits(p)'
    BY <2>1, <2>3, <2>4, <2>5 DEF SInv, RowFits, Fits, BootFits, BoxFits, TakenFits, WorkFits,
                                  Booting, Provisioning, IsUp
  <2>7. RowFits'
    BY <2>4 DEF RowFits, Down
  <2>8. \A q \in Procs \ {p} : Works(q) => row'.ref = proc[q].got /\ IsUp(row.ref)'
    BY <2>1, <2>4 DEF SInv, Fits, WorkFits, IsUp
  <2> QED
    BY <2>1, <2>2, <2>3, <2>6, <2>7, <2>8, LoneKept, Aloneness
<1> QED
  BY <1>1, <1>2

(* The second look at the runs finds everybody who works.                  *)
LEMMA WorkersAreActive ==
  ASSUME LInv, ~\E i \in Ids : Active(i)
  PROVE  NobodyWorks
<1> SUFFICES ASSUME NEW q \in Procs, Works(q) PROVE FALSE
  BY DEF NobodyWorks
<1>1. env.kind[q] = "run" /\ Begun(q) /\ env.run[q] \in Ids
  BY EnvFacts DEF LInv, KindsFit, KindFits, Begun, Works
<1>2. runs[env.run[q]].status = "live"
  BY <1>1, EnvFacts DEF LInv, OwnersFit, HasRun, Works
<1> QED
  BY <1>1, <1>2 DEF Active

LEMMA RechecksKept == ASSUME LInv, SInv, NEW p \in Procs, ReplaceRechecks(p) PROVE SInv'
<1>1. /\ ProcHolds(p) /\ row.state = "suspending" /\ proc[p].pc = "recheck"
      /\ UNCHANGED <<env, box, lease, runs, sleeper>>
  BY DEF ReplaceRechecks, Others, ProcHolds, LInv, HoldersSuspend
<1>2. CASE Go(p, "requeue") /\ \E i \in Ids : Active(i)
  <2>1. row'.state = proc[p].seen /\ row'.ref = row.ref
    <3>1. ~(Go(p, "destroy") /\ KeepRow)
      <4>1. "destroy" \in Pcs /\ "requeue" \in Pcs
        BY DEF Pcs
      <4>2. Go(p, "destroy") => proc'[p].pc = "destroy"
        BY <4>1, GoFacts DEF LInv
      <4>3. Go(p, "requeue") => proc'[p].pc = "requeue"
        BY <4>1, GoFacts DEF LInv
      <4> QED
        BY <1>2, <4>2, <4>3
    <3> QED
      BY <1>1, <1>2, <3>1 DEF ReplaceRechecks, Write
  <2>2. Steps(p) /\ proc'[p].pc = "requeue" /\ ~proc'[p].fresh
    BY <1>2, RequeueFacts DEF LInv
  <2>3. /\ proc[p].seen = "running" => IsUp(row.ref)
        /\ proc[p].seen \in Down => NobodyWorks
    <3>1. BoxFits(p) /\ TakenFits(p)
      BY DEF SInv, Fits
    <3> QED
      BY <1>1, <3>1 DEF BoxFits, TakenFits
  <2> QED
    BY <1>1, <2>1, <2>2, <2>3, EndsKept
<1>3. CASE Go(p, "destroy") /\ KeepRow /\ ~\E i \in Ids : Active(i)
  <2>1. /\ Steps(p) /\ proc'[p].pc = "destroy" /\ proc'[p].fresh = proc[p].fresh /\ ~proc[p].fresh
    BY <1>1, <1>3, GoFacts, NotFresh DEF Steps, Pcs, LInv
  <2>2. NobodyWorks
    BY <1>3, WorkersAreActive
  <2>3. NobodyWorks' /\ UNCHANGED row
    BY <1>1, <1>3, <2>1, <2>2 DEF NobodyWorks, Works, Steps, KeepRow
  <2>4. Fits(p)' /\ RowFits'
    BY <1>1, <2>1, <2>3 DEF Fits, BootFits, BoxFits, TakenFits, WorkFits, NobodyWorks, Booting,
                            Provisioning, RowFits, Down
  <2> QED
    BY <1>1, <2>1, <2>2, <2>4, LoneKept, Aloneness DEF NobodyWorks
<1> QED
  BY <1>2, <1>3 DEF ReplaceRechecks

LEMMA DestroysKept ==
  ASSUME LInv, SInv, NEW p \in Procs, ReplaceDestroys(p) \/ ReplaceClears(p) PROVE SInv'
<1>1. /\ ProcHolds(p) /\ NobodyWorks /\ row.state = "suspending"
      /\ UNCHANGED <<env, runs, sleeper>>
      /\ proc[p].pc \in {"destroy", "clear"}
  BY DEF ReplaceDestroys, ReplaceClears, Others, ProcHolds, LInv, HoldersSuspend, SInv, Fits,
         TakenFits
<1>2. /\ Steps(p) /\ proc'[p].pc \in {"clear", "requeue", "read"} /\ ~proc'[p].fresh
      /\ proc'[p].pc = "clear" => row'.state = "suspending"
      /\ row'.state # "running"
  <2>1. CASE Go(p, "clear") /\ (KeepRow \/ Recorded)
    <3>1. Steps(p) /\ proc'[p].pc = "clear" /\ ~proc'[p].fresh
      BY <1>1, <2>1, GoFacts, NotFresh DEF Steps, Pcs, LInv
    <3> QED
      BY <1>1, <2>1, <3>1 DEF KeepRow, Recorded, Write
  <2>2. CASE Write("error", row.ref, {}) /\ Go(p, "requeue")
    BY <2>2, RequeueFacts DEF Write, LInv
  <2>3. CASE ReplaceClears(p)
    <3>1. TypeOK /\ "read" \in Pcs
      BY DEF Pcs, LInv
    <3>2. At(p, "read") \in Execution /\ At(p, "read").pc = "read" /\ ~At(p, "read").fresh
      BY ONLY <3>1, p \in Procs, AtFacts
    <3>3. Steps(p) /\ proc'[p] = At(p, "read")
      BY <2>3, <3>1, <3>2, BecomesFacts DEF Steps, ReplaceClears
    <3> QED
      BY <2>3, <3>2, <3>3 DEF ReplaceClears, Write
  <2> QED
    BY <2>1, <2>2, <2>3 DEF ReplaceDestroys
<1>3. NobodyWorks'
  BY <1>1, <1>2 DEF NobodyWorks, Works, Steps
<1>4. Fits(p)'
  BY <1>2, <1>3 DEF Fits, BootFits, BoxFits, TakenFits, WorkFits, NobodyWorks, Booting,
                    Provisioning
<1>5. RowFits'
  BY <1>2, <1>3 DEF RowFits
<1> QED
  BY <1>1, <1>2, <1>4, <1>5, LoneKept, Aloneness DEF NobodyWorks

-----------------------------------------------------------------------------
(* The steps of an idle sleep *)

LEMMA SleepStepsKept ==
  ASSUME LInv, LInv', SInv, NEW s \in env.sleepers, sleepComputerIfIdle(s) \/ SleepCrash(s)
  PROVE  SInv'
<1>1. /\ s \in Sleepers /\ UNCHANGED <<env, runs, proc, lease>> /\ TypeOK
      /\ \A q \in Procs : Works(q)' = Works(q)
  BY EnvFacts DEF sleepComputerIfIdle, SleepReads, SleepAsksRuns, SleepClaims, SleepCheckpoints,
     SleepRechecks, SleepStops, SleepRecords, Rest, SleepCrash, Works, LInv
<1>2. \A q \in Procs : proc'[q] = proc[q]
  BY <1>1
<1>3. \A ref : UNCHANGED box => (IsUp(ref)' <=> IsUp(ref))
  BY DEF IsUp
<1>4. NobodyWorks => NobodyWorks'
  BY <1>1 DEF NobodyWorks
<1>5. \A t \in Sleepers \ {s} : sleeper'[t] = sleeper[t]
  <2>1. \A pc : Sleeps(s, pc) => \A t \in Sleepers \ {s} : sleeper'[t] = sleeper[t]
    BY <1>1 DEF Sleeps, TypeOK
  <2> QED
    BY <1>1, <2>1 DEF sleepComputerIfIdle, SleepReads, SleepAsksRuns, SleepClaims,
       SleepCheckpoints, SleepRechecks, SleepStops, SleepRecords, SleepCrash, Ignores, TypeOK
(* Where nobody has the row, or s has it.                                  *)
<1>6. ASSUME SleepHolds(s) \/ row.state = "running", SleepFits(s)', RowFits',
             \A q \in Procs : Works(q) => row'.ref = row.ref /\ IsUp(row.ref)'
      PROVE  SInv'
  <2>1. \A q \in Procs : ~Booting(q) /\ ~ProcHolds(q)
    BY <1>1, <1>6 DEF LInv, HoldersSuspend, HolderIsAlone, SInv, Fits, BootFits
  <2>2. \A t \in Sleepers \ {s} : ~SleepHolds(t)
    BY <1>1, <1>6 DEF LInv, HoldersSuspend, HolderIsAlone
  <2>3. \A q \in Procs : Works(q) => row'.ref = proc[q].got /\ IsUp(row.ref)'
    BY <1>6 DEF SInv, Fits, WorkFits
  <2> QED
    BY <1>1, <1>5, <1>6, <2>1, <2>2, <2>3, LoneSleeps
(* Where the row and the sandboxes stay.                                   *)
<1>7. ASSUME UNCHANGED <<row, box>>, SleepFits(s)' PROVE SInv'
  <2>1. ASSUME NEW q \in Procs PROVE Fits(q)' /\ Booting(q)' = Booting(q)
    BY <1>1, <1>2, <1>3, <1>4, <1>7 DEF SInv, Fits, BootFits, BoxFits, WorkFits, TakenFits, Booting
  <2>2. ASSUME NEW t \in Sleepers PROVE SleepFits(t)'
    BY <1>3, <1>4, <1>5, <1>7 DEF SInv, SleepFits
  <2>3. RowFits' /\ BootIsAlone'
    BY <1>3, <1>4, <1>7, <2>1 DEF SInv, RowFits, BootIsAlone
  <2> QED
    BY <2>1, <2>2, <2>3 DEF SInv
<1>8. ASSUME Ignores(s), UNCHANGED box PROVE SInv'
  BY <1>1, <1>7, <1>8, SleepsFacts DEF Ignores, Forget, SleepFits
<1>9. ASSUME Wakes(s), Sleeps(s, "idle"), UNCHANGED box,
             sleeper[s].pc \in {"checkpoint", "recheck", "stop"}
      PROVE  SInv'
  <2>1. SleepFits(s)' /\ SleepHolds(s) /\ IsUp(row.ref)
    BY <1>1, <1>9, SleepsFacts DEF SleepFits, SleepHolds, SInv
  <2>2. CASE StillMine(s)
    <3>1. row'.state = "running" /\ row'.ref = row.ref
      BY <1>9, <2>2 DEF Wakes, Write
    <3>2. IsUp(row.ref)'
      BY <1>9, <2>1, <3>1 DEF IsUp
    <3> QED
      BY <1>6, <2>1, <3>1, <3>2 DEF RowFits, Down
  <2>3. CASE ~StillMine(s)
    BY <1>7, <1>9, <2>1, <2>3 DEF Wakes, Forget
  <2> QED
    BY <2>2, <2>3
<1>10. CASE SleepReads(s)
  BY <1>1, <1>7, <1>10 DEF SleepReads, SleepFits, TypeOK
<1>11. CASE SleepAsksRuns(s)
  BY <1>1, <1>7, <1>8, <1>11, SleepsFacts DEF SleepAsksRuns, KeepRow, SleepFits
<1>12. CASE SleepClaims(s) /\ ~Ignores(s)
  <2>1. /\ row'.state = "suspending" /\ row'.ref = row.ref /\ row.state = "running" /\ UNCHANGED box
        /\ IsUp(row.ref) /\ Sleeps(s, "checkpoint")
    BY <1>12 DEF SleepClaims, Write, SleepMatches, SInv, RowFits
  <2>2. IsUp(row.ref)' /\ RowFits'
    BY <2>1 DEF IsUp, RowFits, Down
  <2>3. SleepFits(s)'
    BY <1>1, <2>1, <2>2, SleepsFacts DEF SleepFits
  <2> QED
    BY <1>6, <2>1, <2>2, <2>3
<1>13. CASE SleepCheckpoints(s)
  <2>1. CASE KeepRow /\ Sleeps(s, "recheck")
    <3>1. SleepFits(s)'
      BY <1>1, <1>3, <1>13, <2>1, SleepsFacts DEF SleepCheckpoints, SleepFits, SInv, KeepRow
    <3> QED
      BY <1>7, <1>13, <2>1, <3>1 DEF SleepCheckpoints, KeepRow
  <2> QED
    BY <1>9, <1>13, <2>1 DEF SleepCheckpoints
<1>14. CASE SleepRechecks(s)
  <2>1. CASE SleepGoesOn(s) /\ KeepRow /\ Sleeps(s, "stop")
    <3>1. NobodyWorks'
      BY <1>4, <2>1, WorkersAreActive DEF SleepGoesOn
    <3>2. SleepFits(s)'
      BY <1>1, <1>3, <1>14, <2>1, <3>1, SleepsFacts DEF SleepRechecks, SleepFits, SInv, KeepRow
    <3> QED
      BY <1>7, <1>14, <2>1, <3>2 DEF SleepRechecks, KeepRow
  <2> QED
    BY <1>9, <1>14, <2>1 DEF SleepRechecks
<1>15. CASE SleepStops(s)
  <2>1. CASE KeepRow /\ Sleeps(s, "record")
    <3>1. NobodyWorks /\ NobodyWorks' /\ SleepHolds(s) /\ row.state = "suspending" /\ UNCHANGED row
      BY <1>1, <1>4, <1>15, <2>1 DEF SleepStops, SInv, SleepFits, SleepHolds, LInv, HoldersSuspend,
                                     KeepRow
    <3>2. SleepFits(s)' /\ RowFits'
      BY <1>1, <2>1, <3>1, SleepsFacts DEF SleepFits, RowFits, Down
    <3> QED
      BY <1>6, <3>1, <3>2 DEF NobodyWorks
  <2> QED
    BY <1>9, <1>15, <2>1 DEF SleepStops
<1>16. CASE SleepRecords(s)
  <2>1. NobodyWorks /\ NobodyWorks' /\ SleepHolds(s) /\ UNCHANGED box /\ Sleeps(s, "idle")
    BY <1>1, <1>4, <1>16 DEF SleepRecords, SInv, SleepFits, SleepHolds
  <2>2. SleepFits(s)'
    BY <1>1, <2>1, SleepsFacts DEF SleepFits
  <2>3. CASE StillMine(s)
    <3>1. row'.state = "suspended"
      BY <1>16, <2>3 DEF SleepRecords, Write
    <3> QED
      BY <1>6, <2>1, <2>2, <3>1 DEF RowFits, NobodyWorks
  <2>4. CASE ~StillMine(s)
    BY <1>7, <1>16, <2>1, <2>2, <2>4 DEF SleepRecords, Forget
  <2> QED
    BY <2>3, <2>4
<1>17. CASE SleepCrash(s)
  BY <1>8, <1>17 DEF SleepCrash
<1>18. CASE SleepClaims(s) /\ Ignores(s)
  BY <1>8, <1>18 DEF SleepClaims
<1> QED
  BY <1>10, <1>11, <1>12, <1>13, <1>14, <1>15, <1>16, <1>17, <1>18 DEF sleepComputerIfIdle

-----------------------------------------------------------------------------
(* The runs, the leases and the clock *)

LEMMA OutsideStepsKept ==
  ASSUME LInv, SInv,
         \/ \E i \in Ids : \/ Create(i) \/ Cancel(i) \/ expireComputerExecutionLeases(i)
                          \/ RunLeaseLapses(i)
         \/ \E b \in Bots : ComputerLeaseLapses(b)
         \/ Age \/ UNCHANGED vars
  PROVE  SInv'
<1>1. /\ UNCHANGED <<env, box, proc, sleeper>> /\ row'.state = row.state /\ row'.ref = row.ref
      /\ \A q \in Procs : runs'[env.run[q]].by \in {runs[env.run[q]].by, NoProc}
  <2>1. ASSUME NEW i \in Ids, \/ Create(i) \/ Cancel(i) \/ expireComputerExecutionLeases(i)
                              \/ RunLeaseLapses(i)
        PROVE  UNCHANGED <<env, row, box, proc, sleeper>>
               /\ \A j \in Ids : runs'[j].by \in {runs[j].by, NoProc}
    <3>1. UNCHANGED <<env, row, box, proc, sleeper>>
      BY <2>1 DEF Create, Cancel, expireComputerExecutionLeases, RunLeaseLapses, Others, KeepRow
    <3>2. PICK status \in {"queued", "cancelled", "done", "lapsed"} :
            \/ runs' = [runs EXCEPT ![i].status = status]
            \/ runs' = [runs EXCEPT ![i] = [status |-> status, by |-> NoProc]]
      BY <2>1 DEF Create, Cancel, expireComputerExecutionLeases, RunLeaseLapses
    <3>3. runs \in [Ids -> RunRow]
      BY DEF LInv, TypeOK
    <3>4. \A j \in Ids : runs'[j].by \in {runs[j].by, NoProc}
      BY ONLY <3>2, <3>3, i \in Ids DEF RunRow
    <3> QED
      BY <3>1, <3>4
  <2>2. \A q \in Procs : env.run[q] \in Ids
    BY EnvFacts DEF LInv
  <2>3. row \in Row
    BY DEF LInv, TypeOK
  <2> QED
    BY <2>1, <2>2, <2>3 DEF ComputerLeaseLapses, Age, Others, KeepRow, vars, Row
<1>2. \A q \in Procs : Works(q)' => Works(q)
  BY <1>1, EnvFacts DEF Works, LInv
<1> QED
  BY <1>1, <1>2, QuietKept

-----------------------------------------------------------------------------
LEMMA InitKInv == Init => KInv
<1> SUFFICES ASSUME Init PROVE KInv
  OBVIOUS
<1>1. LInv
  BY InitLInv
<1>2. \A p \in Procs : proc[p].pc = "idle" /\ ~proc[p].fresh
  BY DEF Init, Idle
<1>3. \A p \in Procs : ~Booting(p) /\ ~Works(p)
  BY <1>2 DEF Booting, Provisioning, Works
<1>4. SInv
  BY <1>2, <1>3 DEF Init, SInv, Fits, BootFits, BoxFits, WorkFits, TakenFits, SleepFits, RowFits,
                    BootIsAlone, NobodyWorks
<1> QED
  BY <1>1, <1>4 DEF KInv

LEMMA StepKInv == KInv /\ [Next]_vars => KInv'
<1> SUFFICES ASSUME KInv, [Next]_vars PROVE KInv'
  OBVIOUS
<1>1. LInv /\ LInv'
  BY StepLInv DEF KInv
<1> SUFFICES ASSUME NoStop' PROVE SInv'
  BY <1>1 DEF KInv
<1>2. UNCHANGED env
  <2>1. CASE UNCHANGED vars
    BY <2>1 DEF vars
  <2>2. CASE Next
    <3>1. ASSUME NEW p \in Procs,
                 \/ Begin(p) \/ Enter(p) \/ provisionComputer(p) \/ replaceComputer(p)
                 \/ Turn(p) \/ Checkpoint(p) \/ Crash(p)
          PROVE  UNCHANGED env
      BY <3>1 DEF Begin, Enter, provisionComputer, replaceComputer, Turn, Checkpoint, Crash,
         AcquireReads, AcquireTakes, AcquireValidates, Requeue, releaseComputerExecutionLease,
         ProvisionReads, ProvisionAsksRuns, ProvisionWaits, ProvisionAsksRunsAgain,
         ProvisionClaims, Provision, Activate, PrepareFails, rollbackProvisionedComputer,
         RecordFailure, ReplaceSurveys, ReplaceClaims, ReplaceRechecks, ReplaceDestroys,
         ReplaceClears, Finish, CheckpointEnds, Others
    <3>2. ASSUME NEW s \in env.sleepers, sleepComputerIfIdle(s) \/ SleepCrash(s)
          PROVE  UNCHANGED env
      BY <3>2 DEF sleepComputerIfIdle, SleepReads, SleepAsksRuns, SleepClaims, SleepCheckpoints,
         SleepRechecks, SleepStops, SleepRecords, Rest, SleepCrash
    <3>3. ASSUME NEW k \in env.stoppers, stop(k) PROVE UNCHANGED env
      BY <3>3 DEF stop, StopReads, StopClaims, StopRechecks, StopDeletesLeases, StopStops,
         StopRecords, Still
    <3>4. ASSUME NEW i \in Ids, \/ Create(i) \/ Cancel(i) \/ expireComputerExecutionLeases(i)
                                \/ RunLeaseLapses(i)
          PROVE  UNCHANGED env
      BY <3>4 DEF Create, Cancel, expireComputerExecutionLeases, RunLeaseLapses, Others
    <3> QED
      BY <2>2, <3>1, <3>2, <3>3, <3>4 DEF Next, ComputerLeaseLapses, Age, Others
  <2> QED
    BY <2>1, <2>2
<1>3. SInv /\ env.stoppers = {}
  BY <1>2 DEF KInv, NoStop
<1>4. ASSUME NEW p \in Procs, provisionComputer(p) PROVE SInv'
  <2>1. \/ ProvisionReads(p) \/ ProvisionAsksRuns(p) \/ ProvisionWaits(p)
        \/ ProvisionAsksRunsAgain(p)
        => SInv'
    BY <1>1, <1>3, QuietStepsKept DEF Quiet
  <2>2. ProvisionClaims(p) \/ Provision(p) => SInv'
    BY <1>1, <1>3, ClaimsKept, ProvisionsKept
  <2>3. Activate(p) \/ PrepareFails(p) => SInv'
    BY <1>1, <1>3, ActivatesKept
  <2>4. rollbackProvisionedComputer(p) \/ RecordFailure(p) => SInv'
    BY <1>1, <1>3, RollbackKept, RecordsKept
  <2> QED
    BY <1>4, <2>1, <2>2, <2>3, <2>4 DEF provisionComputer
<1>5. ASSUME NEW p \in Procs, replaceComputer(p) PROVE SInv'
  <2>1. ReplaceSurveys(p) => SInv'
    BY <1>1, <1>3, QuietStepsKept DEF Quiet
  <2>2. ReplaceClaims(p) \/ ReplaceRechecks(p) => SInv'
    BY <1>1, <1>3, SeizesKept, RechecksKept
  <2>3. ReplaceDestroys(p) \/ ReplaceClears(p) => SInv'
    BY <1>1, <1>3, DestroysKept
  <2> QED
    BY <1>5, <2>1, <2>2, <2>3 DEF replaceComputer
<1>6. ASSUME NEW p \in Procs, Begin(p) \/ Enter(p) \/ Turn(p) \/ Checkpoint(p) \/ Crash(p)
      PROVE  SInv'
  <2>1. Begin(p) \/ Enter(p) \/ Finish(p) => SInv'
    BY <1>1, <1>3, QuietStepsKept DEF Quiet
  <2>2. Checkpoint(p) \/ CheckpointEnds(p) => SInv'
    BY <1>1, <1>3, CheckpointsKept, CheckpointsEndKept
  <2>3. Crash(p) => SInv'
    BY <1>1, <1>3, CrashKept
  <2> QED
    BY <1>6, <2>1, <2>2, <2>3 DEF Turn
<1>7. ASSUME NEW s \in env.sleepers, sleepComputerIfIdle(s) \/ SleepCrash(s) PROVE SInv'
  BY <1>1, <1>3, <1>7, SleepStepsKept
<1>8. CASE \/ \E i \in Ids : \/ Create(i) \/ Cancel(i) \/ expireComputerExecutionLeases(i)
                           \/ RunLeaseLapses(i)
           \/ \E b \in Bots : ComputerLeaseLapses(b)
           \/ Age \/ UNCHANGED vars
  BY <1>1, <1>3, <1>8, OutsideStepsKept
<1> QED
  BY <1>3, <1>4, <1>5, <1>6, <1>7, <1>8 DEF Next

LEMMA KInvHolds == Spec => []KInv
BY InitKInv, StepKInv, PTL DEF Spec

(* A row that says running names a sandbox that is up, and a run at work   *)
(* keeps its sandbox: for any number of executions, sandboxes and deaths   *)
(* no lost race of rollback, sleep or replacement takes it away.           *)
THEOREM SandboxKept == Spec => []SandboxIsKept
<1>1. KInv => SandboxIsKept
  <2> SUFFICES ASSUME KInv, NoStop PROVE SandboxIsKept
    BY DEF SandboxIsKept, RunningIsUp, UsersKeepTheirBox
  <2> QED
    BY DEF KInv, SInv, Fits, WorkFits, RowFits, IsUp, SandboxIsKept, RunningIsUp, UsersKeepTheirBox
<1> QED
  BY <1>1, KInvHolds, PTL

(* Two boots never provision at the same time, whatever claims of fresh,   *)
(* running and abandoned rows come together.                               *)
THEOREM ProvisionerIsAlone == Spec => []OneProvisioner
<1>1. KInv => OneProvisioner
  BY DEF KInv, SInv, BootIsAlone, OneProvisioner, Provisioner, Booting, Provisioning
<1> QED
  BY <1>1, KInvHolds, PTL
-----------------------------------------------------------------------------
(* Who ends a transition. While nobody dies, a suspending row has a holder *)
(* that knows the claim it holds, and a booting row has an execution that  *)
(* knows the stamp of its claim and all its sandboxes.                     *)

(* At all times: who is at work was asked for, what an execution has got   *)
(* it got in this attempt, and a run is in one execution's hands.          *)
LocalFits(p) ==
  /\ proc[p].got # NoRef => proc[p].pc \in {"activate", "rollback", "record", "using", "checkpoint"}
  /\ proc[p].stuck => proc[p].pc = "record"
RunsAlone == \A p, q \in Procs : Begun(p) /\ Begun(q) /\ env.run[p] = env.run[q] => p = q
AskedFor ==
  /\ \A s \in Sleepers : sleeper[s].pc # "idle" => s \in env.sleepers
  /\ \A k \in Stoppers : stopper[k].pc # "idle" => k \in env.stoppers
Local == (\A p \in Procs : LocalFits(p)) /\ RunsAlone /\ AskedFor

Held ==
  \/ \E s \in Sleepers : SleepHolds(s)
  \/ \E p \in Procs : ProcHolds(p)
  \/ \E k \in Stoppers : StopHolds(k)
SuspendFits ==
  /\ row.state = "suspending" => Held
  /\ \A p \in Procs : proc[p].pc = "checkpoint" => row.ref = proc[p].got
  /\ \A s \in Sleepers : SleepHolds(s) => s \in current
  /\ \A k \in Stoppers : stopper[k].pc \in {"claim", "recheck"} => stopper[k].seen # "suspending"

KnowsBoot(p) == Booting(p) => p \in current
(* What it has got is the sandbox it asked for, which it found, or another *)
(* one, which it made because that one was not there; a sandbox it made    *)
(* and could not roll back is noted.                                       *)
AttemptFits(p) ==
  Booting(p) =>
    /\ proc[p].got \in {NoRef, proc[p].ref} \/ proc[p].fresh
    /\ proc[p].fresh => proc[p].got = proc[p].ref \/ ~IsUp(proc[p].ref)
    /\ proc[p].pc = "rollback" => proc[p].got # NoRef
    /\ proc[p].stuck => proc[p].got = proc[p].ref \/ proc[p].fresh
    /\ proc[p].pc = "record" /\ proc[p].fresh /\ IsUp(proc[p].got) => proc[p].stuck
UpFits ==
  \A r \in Refs : box[r] = "up" => row.ref = r \/ \E p \in Procs : Booting(p) /\ proc[p].got = r
BootingFits ==
  /\ row.state = "booting" => \E p \in Procs : Booting(p)
  /\ \A p \in Procs : KnowsBoot(p) /\ AttemptFits(p)
  /\ UpFits

(* Nothing moves the stamp of a suspending row under its holder.           *)
Patient == SleepsByItself \/ StopsByItself

TInv ==
  /\ KInv /\ Local
  /\ crashes = 0 /\ Patient => SuspendFits
  /\ crashes = 0 /\ ByItself => BootingFits

(* The three parts of TransitionIsHeld and of NoOrphan follow.             *)
LEMMA TransitionsFollow == TInv => TransitionIsHeld /\ NoOrphan
<1> SUFFICES ASSUME TInv PROVE TransitionIsHeld /\ NoOrphan
  OBVIOUS
<1>1. OneProvisioner
  BY DEF TInv, KInv, SInv, BootIsAlone, OneProvisioner, Provisioner, Booting, Provisioning
<1>2. SuspendingIsHeld
  BY DEF TInv, Patient, SuspendFits, SuspendingIsHeld, Held, SleepHolds, ProcHolds, StopHolds
<1>3. BootingIsHeld
  BY DEF TInv, BootingFits, BootingIsHeld, KnowsBoot
<1>4. NoOrphan
  BY DEF TInv, BootingFits, NoOrphan, UpFits, Booting
<1> QED
  BY <1>1, <1>2, <1>3, <1>4 DEF TransitionIsHeld

-----------------------------------------------------------------------------
(* The local facts *)

(* Steps of p that change no other execution's record or run.              *)
LEMMA LocalKept ==
  ASSUME LInv, Local, NEW p \in Procs, Steps(p), UNCHANGED <<env, sleeper, stopper>>,
         LocalFits(p)', Begun(p)' => Begun(p)
  PROVE  Local'
<1>1. ASSUME NEW q \in Procs PROVE LocalFits(q)' /\ (Begun(q)' => Begun(q))
  BY DEF Steps, Local, LocalFits, Begun
<1> QED
  BY <1>1 DEF Local, RunsAlone, AskedFor

LEMMA QuietLocal == ASSUME LInv, Local, NEW p \in Procs, Quiet(p) PROVE Local'
<1>1. Quietly(p)
  BY QuietSteps
<1>2. LocalFits(p)'
  BY <1>1 DEF Quietly, Moves, Local, LocalFits, Elsewhere
<1>3. ASSUME ~Begin(p) PROVE Begun(p)' => Begun(p)
  <2>1. proc[p].pc \notin {"idle", "release"} \/ proc'[p].pc \in {"idle", "release"}
        \/ releaseComputerExecutionLease(p)
    BY <1>3 DEF Quiet, Enter, AcquireReads, AcquireTakes, AcquireValidates, Requeue, Finish,
       ProvisionReads, ProvisionAsksRuns, ProvisionWaits, ProvisionAsksRunsAgain, ReplaceSurveys,
       ProvisionClaims, ReplaceClaims
  <2>2. releaseComputerExecutionLease(p) => 
          proc[p].pc \notin {"idle", "release"} \/ proc'[p].pc \in {"idle", "release"}
    <3> SUFFICES ASSUME releaseComputerExecutionLease(p), proc[p].pc # "undo"
                 PROVE  proc'[p].pc = "idle" \/ proc[p].pc # "release"
      BY DEF releaseComputerExecutionLease
    <3> QED
      BY IdleFacts, BecomesFacts DEF releaseComputerExecutionLease, LInv
  <2> QED
    BY <1>1, <2>1, <2>2 DEF Begun, Quietly
<1>4. CASE Begin(p)
  <2>1. env.kind[p] = "run" => runs[env.run[p]].status \in {"queued", "lapsed"}
    BY <1>4, Zenon DEF Begin
  <2>2. \A q \in Procs : Begun(q) /\ env.run[q] = env.run[p] => env.kind[p] # "run"
    BY <2>1 DEF LInv, OwnersFit, HasRun
  <2>3. /\ \A q \in Procs \ {p} : LocalFits(q)' /\ (Begun(q)' <=> Begun(q))
        /\ UNCHANGED <<env, sleeper, stopper>>
    BY <1>1 DEF Quietly, Moves, Steps, Local, LocalFits, Begun
  <2>4. RunsAlone'
    BY <2>2, <2>3 DEF RunsAlone, Local, Begun
  <2> QED
    BY <1>2, <2>3, <2>4 DEF Local, AskedFor
<1> QED
  BY <1>1, <1>2, <1>3, <1>4, LocalKept DEF Quietly, Moves

-----------------------------------------------------------------------------
(* What the steps that are not quiet do to the execution that takes them *)

Same(p, pc) ==
  /\ Steps(p) /\ proc'[p].pc = pc
  /\ proc'[p].seen = proc[p].seen /\ proc'[p].ref = proc[p].ref
  /\ proc'[p].got = proc[p].got /\ proc'[p].fresh = proc[p].fresh
  /\ proc'[p].stuck = proc[p].stuck
Leaves(p) ==
  /\ Steps(p) /\ proc'[p].pc \in {"requeue", "release", "read"}
  /\ proc'[p].got = NoRef /\ ~proc'[p].fresh /\ ~proc'[p].stuck
Around == UNCHANGED <<env, runs, sleeper, stopper, crashes>>

LEMMA GoSame ==
  ASSUME TypeOK, NEW p \in Procs,
         NEW pc \in Pcs \ {"requeue", "release"}, Go(p, pc)
  PROVE  Same(p, pc)
BY GoFacts DEF Same, Steps

LEMMA GoLeaves ==
  ASSUME TypeOK, NEW p \in Procs, NEW pc \in {"requeue", "release"}, Go(p, pc)
  PROVE  Leaves(p)
BY GoFacts DEF Leaves, Steps, Pcs

LEMMA ClaimDoes ==
  ASSUME LInv, NEW p \in Procs, ProvisionClaims(p)
  PROVE  \/ Quiet(p)
         \/ /\ Around /\ UNCHANGED <<box, lease>> /\ proc[p].pc = "claim" /\ Same(p, "provision")
            /\ ClaimMatches(p) /\ row'.state = "booting" /\ row'.ref = row.ref /\ current' = {p}
<1>1. "provision" \in Pcs \ {"requeue", "release"} /\ TypeOK
  BY DEF Pcs, Provisioning, LInv
<1>2. CASE ClaimMatches(p) /\ Write("booting", row.ref, {p}) /\ Go(p, "provision")
  BY <1>1, <1>2, GoSame DEF ProvisionClaims, Write, Around, Others
<1>3. CASE KeepRow /\ Go(p, "requeue")
  BY <1>3 DEF Quiet
<1> QED
  BY <1>2, <1>3 DEF ProvisionClaims

LEMMA ProvisionDoes ==
  ASSUME LInv, NEW p \in Procs, Provision(p)
  PROVE  /\ Around /\ UNCHANGED <<row, current, lease>> /\ proc[p].pc = "provision"
         /\ \/ Same(p, "record") /\ UNCHANGED box
            \/ /\ Steps(p) /\ proc'[p].pc = "activate" /\ proc'[p].seen = proc[p].seen
               /\ proc'[p].ref = proc[p].ref /\ proc'[p].stuck = proc[p].stuck
               /\ proc'[p].got \in Refs /\ box' = [box EXCEPT ![proc'[p].got] = "up"]
               /\ \/ proc'[p].got = proc[p].ref /\ proc'[p].fresh = proc[p].fresh
                  \/ box[proc'[p].got] = "none" /\ proc'[p].fresh /\ ~Exists(proc[p].ref)
<1> DEFINE ref == proc[p].ref
<1>1. TypeOK /\ proc[p] \in Execution
  BY DEF LInv, TypeOK
<1>2. Around /\ UNCHANGED <<row, current, lease>> /\ proc[p].pc = "provision"
  BY DEF Provision, Around, Others, KeepRow
<1>3. ASSUME Go(p, "record"), UNCHANGED box PROVE Same(p, "record") /\ UNCHANGED box
  BY <1>1, <1>3, GoSame DEF Pcs, Provisioning
<1>4. ASSUME Exists(ref), box' = [box EXCEPT ![ref] = "up"],
             Becomes(p, [proc[p] EXCEPT !.pc = "activate", !.got = ref])
      PROVE  /\ Steps(p) /\ proc'[p].pc = "activate" /\ proc'[p].seen = proc[p].seen
             /\ proc'[p].ref = proc[p].ref /\ proc'[p].stuck = proc[p].stuck
             /\ proc'[p].got \in Refs /\ box' = [box EXCEPT ![proc'[p].got] = "up"]
             /\ proc'[p].got = proc[p].ref /\ proc'[p].fresh = proc[p].fresh
  <2> DEFINE v == [proc[p] EXCEPT !.pc = "activate", !.got = ref]
  <2>1. ref \in Refs
    BY <1>1, <1>4 DEF Execution, Exists, MaybeRef
  <2>2. /\ v \in Execution /\ v.pc = "activate" /\ v.seen = proc[p].seen /\ v.ref = ref
        /\ v.stuck = proc[p].stuck /\ v.got = ref /\ v.fresh = proc[p].fresh
    BY ONLY <1>1 DEF Execution, Pcs, Provisioning
  <2>3. Becomes(p, v)
    BY <1>4
  <2> HIDE DEF v
  <2>4. Steps(p) /\ proc'[p] = v
    BY <1>1, <2>2, <2>3, BecomesFacts DEF Steps
  <2> QED
    BY <1>4, <2>1, <2>2, <2>4
<1>5. ASSUME ~Exists(ref), NEW new \in env.refs, box[new] = "none",
             box' = [box EXCEPT ![new] = "up"],
             Becomes(p, [proc[p] EXCEPT !.pc = "activate", !.got = new, !.fresh = TRUE])
      PROVE  /\ Steps(p) /\ proc'[p].pc = "activate" /\ proc'[p].seen = proc[p].seen
             /\ proc'[p].ref = proc[p].ref /\ proc'[p].stuck = proc[p].stuck
             /\ proc'[p].got \in Refs /\ box' = [box EXCEPT ![proc'[p].got] = "up"]
             /\ box[proc'[p].got] = "none" /\ proc'[p].fresh /\ ~Exists(proc[p].ref)
  <2> DEFINE v == [proc[p] EXCEPT !.pc = "activate", !.got = new, !.fresh = TRUE]
  <2>1. new \in Refs
    BY <1>1, EnvFacts
  <2>2. /\ v \in Execution /\ v.pc = "activate" /\ v.seen = proc[p].seen /\ v.ref = ref
        /\ v.stuck = proc[p].stuck /\ v.got = new /\ v.fresh
    BY ONLY <1>1, <2>1 DEF Execution, Pcs, Provisioning, MaybeRef
  <2>3. Becomes(p, v)
    BY <1>5
  <2> HIDE DEF v
  <2>4. Steps(p) /\ proc'[p] = v
    BY <1>1, <2>2, <2>3, BecomesFacts DEF Steps
  <2> QED
    BY <1>5, <2>1, <2>2, <2>4
<1>6. CASE Exists(ref) /\ box' = [box EXCEPT ![ref] = "up"]
           /\ Becomes(p, [proc[p] EXCEPT !.pc = "activate", !.got = ref])
  BY <1>2, <1>4, <1>6
<1>7. CASE ~Exists(ref) /\ \E new \in env.refs :
             /\ box[new] = "none"
             /\ box' = [box EXCEPT ![new] = "up"]
             /\ Becomes(p, [proc[p] EXCEPT !.pc = "activate", !.got = new, !.fresh = TRUE])
  BY <1>2, <1>5, <1>7
<1>8. CASE Go(p, "record") /\ UNCHANGED box
  BY <1>2, <1>3, <1>8
<1> QED
  BY <1>6, <1>7, <1>8 DEF Provision

LEMMA ActivateDoes ==
  ASSUME LInv, NEW p \in Procs, Activate(p) \/ PrepareFails(p)
  PROVE  /\ Around /\ UNCHANGED <<box, lease>> /\ proc[p].pc = "activate"
         /\ \/ /\ ActivationMatches(p) /\ row'.state = "running" /\ row'.ref = proc[p].got
               /\ Steps(p) /\ ~proc'[p].fresh /\ ~proc'[p].stuck
               /\ \/ proc'[p].pc = "using" /\ proc'[p].got = proc[p].got
                  \/ proc'[p].pc = "release" /\ proc'[p].got = NoRef
            \/ UNCHANGED <<row, current>> /\ Same(p, "rollback")
<1>1. TypeOK /\ proc[p] \in Execution /\ "rollback" \in Pcs /\ "using" \in Pcs
  BY DEF LInv, TypeOK, Pcs, Provisioning
<1>2. Around /\ UNCHANGED <<box, lease>> /\ proc[p].pc = "activate"
  BY DEF Activate, PrepareFails, Around, Others
<1>3. CASE PrepareFails(p)
  BY <1>1, <1>2, <1>3, GoSame DEF PrepareFails, KeepRow
<1>4. CASE Activate(p) /\ ActivationMatches(p)
  <2>1. row'.state = "running" /\ row'.ref = proc[p].got
    BY <1>4 DEF Activate, Write
  <2>2. CASE env.kind[p] = "run"
    <3> DEFINE u == At(p, "using")
               v == [u EXCEPT !.got = proc[p].got]
    <3>1. u \in Execution /\ u.pc = "using" /\ ~u.fresh /\ ~u.stuck
      BY <1>1, AtFacts
    <3>2. proc[p].got \in MaybeRef
      BY <1>1 DEF Execution
    <3> HIDE DEF u
    <3>3. v \in Execution /\ v.pc = "using" /\ ~v.fresh /\ ~v.stuck /\ v.got = proc[p].got
      BY ONLY <3>1, <3>2 DEF Execution
    <3>4. Becomes(p, v)
      BY <1>4, <2>2 DEF Activate, u
    <3> HIDE DEF v
    <3>5. Steps(p) /\ proc'[p] = v
      BY <1>1, <3>3, <3>4, BecomesFacts DEF Steps
    <3> QED
      BY <1>2, <1>4, <2>1, <3>3, <3>5
  <2>3. CASE env.kind[p] # "run"
    <3>1. Go(p, "release")
      BY <1>4, <2>3 DEF Activate
    <3>2. Steps(p) /\ proc'[p].pc = "release" /\ proc'[p].got = NoRef /\ ~proc'[p].fresh /\ ~proc'[p].stuck
      BY <1>1, <3>1, GoFacts DEF Steps, Pcs
    <3> QED
      BY <1>2, <1>4, <2>1, <3>2
  <2> QED
    BY <2>2, <2>3
<1>5. CASE Activate(p) /\ ~ActivationMatches(p)
  <2> DEFINE v == [proc[p] EXCEPT !.pc = "rollback", !.busy = TRUE]
  <2>1. /\ v \in Execution /\ v.pc = "rollback" /\ v.seen = proc[p].seen /\ v.ref = proc[p].ref
        /\ v.stuck = proc[p].stuck /\ v.got = proc[p].got /\ v.fresh = proc[p].fresh
    BY ONLY <1>1 DEF Execution
  <2>2. Becomes(p, v) /\ UNCHANGED <<row, current>>
    BY <1>5 DEF Activate, KeepRow
  <2> HIDE DEF v
  <2>3. Same(p, "rollback")
    BY <1>1, <2>1, <2>2, BecomesFacts DEF Steps, Same
  <2> QED
    BY <1>2, <2>2, <2>3
<1> QED
  BY <1>3, <1>4, <1>5

LEMMA RollbackDoes ==
  ASSUME LInv, NEW p \in Procs, rollbackProvisionedComputer(p)
  PROVE  /\ Around /\ UNCHANGED <<row, current, lease>> /\ proc[p].pc = "rollback"
         /\ Steps(p) /\ proc'[p].pc = "record" /\ proc'[p].seen = proc[p].seen
         /\ proc'[p].ref = proc[p].ref /\ proc'[p].got = proc[p].got
         /\ proc'[p].fresh = proc[p].fresh
         /\ \/ /\ RollsBack(p) /\ Exists(proc[p].got) /\ proc'[p].stuck = proc[p].stuck
               /\ \E to \in {"gone", "stopped"} : box' = [box EXCEPT ![proc[p].got] = to]
            \/ RollsBack(p) /\ UNCHANGED box /\ (Exists(proc[p].got) => proc'[p].stuck)
            \/ ~RollsBack(p) /\ UNCHANGED box /\ proc'[p].stuck = proc[p].stuck
<1>1. TypeOK /\ proc[p] \in Execution /\ "record" \in Pcs
  BY DEF LInv, TypeOK, Pcs, Provisioning
<1>2. Around /\ UNCHANGED <<row, current, lease>> /\ proc[p].pc = "rollback"
  BY DEF rollbackProvisionedComputer, Around, Others, KeepRow
<1>3. Go(p, "record") => Same(p, "record")
  BY <1>1, GoSame
<1>4. ASSUME NEW stuck \in BOOLEAN, Becomes(p, [proc[p] EXCEPT !.pc = "record", !.stuck = stuck])
      PROVE  /\ Steps(p) /\ proc'[p].pc = "record" /\ proc'[p].seen = proc[p].seen
             /\ proc'[p].ref = proc[p].ref /\ proc'[p].got = proc[p].got
             /\ proc'[p].fresh = proc[p].fresh /\ proc'[p].stuck = stuck
  <2> DEFINE v == [proc[p] EXCEPT !.pc = "record", !.stuck = stuck]
  <2>1. /\ v \in Execution /\ v.pc = "record" /\ v.seen = proc[p].seen /\ v.ref = proc[p].ref
        /\ v.stuck = stuck /\ v.got = proc[p].got /\ v.fresh = proc[p].fresh
    BY ONLY <1>1, stuck \in BOOLEAN DEF Execution
  <2>2. Becomes(p, v)
    BY <1>4
  <2> HIDE DEF v
  <2> QED
    BY <1>1, <2>1, <2>2, BecomesFacts DEF Steps
<1>5. CASE RollsBack(p) /\ Exists(proc[p].got)
           /\ (\E to \in {"gone", "stopped"} : box' = [box EXCEPT ![proc[p].got] = to])
           /\ Go(p, "record")
  BY <1>2, <1>3, <1>5 DEF Same
<1>6. CASE RollsBack(p) /\ UNCHANGED box
           /\ \E stuck \in (IF Exists(proc[p].got) THEN {TRUE} ELSE BOOLEAN) :
                Becomes(p, [proc[p] EXCEPT !.pc = "record", !.stuck = stuck])
  <2>1. PICK stuck \in BOOLEAN :
          /\ Becomes(p, [proc[p] EXCEPT !.pc = "record", !.stuck = stuck])
          /\ Exists(proc[p].got) => stuck
    BY <1>6
  <2> QED
    BY <1>2, <1>4, <1>6, <2>1
<1>7. CASE ~RollsBack(p) /\ UNCHANGED box /\ Go(p, "record")
  BY <1>2, <1>3, <1>7 DEF Same
<1> QED
  BY <1>5, <1>6, <1>7 DEF rollbackProvisionedComputer

LEMMA RecordDoes ==
  ASSUME LInv, NEW p \in Procs, RecordFailure(p)
  PROVE  /\ Around /\ UNCHANGED <<box, lease>> /\ proc[p].pc = "record" /\ Leaves(p)
         /\ \/ /\ Claimed(p) /\ row'.state \in {"running", "error"}
               /\ row'.ref = IF ~Reconnecting(p) /\ proc[p].stuck THEN proc[p].got ELSE row.ref
            \/ ~Claimed(p) /\ UNCHANGED <<row, current>>
<1>1. Leaves(p)
  BY GoLeaves DEF RecordFailure, LInv
<1> QED
  BY <1>1 DEF RecordFailure, Write, KeepRow, Around, Others

LEMMA SeizeDoes ==
  ASSUME LInv, NEW p \in Procs, ReplaceClaims(p)
  PROVE  \/ Quiet(p)
         \/ /\ Around /\ proc[p].pc = "seize" /\ Same(p, "recheck")
            /\ row.state = proc[p].seen /\ row'.state = "suspending"
<1>1. "recheck" \in Pcs \ {"requeue", "release"} /\ TypeOK
  BY DEF Pcs, LInv
<1>2. CASE Write("suspending", row.ref, {}) /\ Go(p, "recheck") /\ row.state = proc[p].seen
  BY <1>1, <1>2, GoSame DEF ReplaceClaims, Write, Around, Others
<1>3. CASE KeepRow /\ Go(p, "requeue")
  BY <1>3 DEF Quiet
<1> QED
  BY <1>2, <1>3 DEF ReplaceClaims

(* An execution that holds the row gives it back or goes on holding it.    *)
LEMMA HolderDoes ==
  ASSUME LInv, NEW p \in Procs,
         ReplaceRechecks(p) \/ ReplaceDestroys(p) \/ ReplaceClears(p)
  PROVE  /\ Around /\ ProcHolds(p) /\ proc[p].pc # "checkpoint"
         /\ \/ Leaves(p) /\ row'.state # "suspending"
            \/ \E pc \in {"destroy", "clear"} : Same(p, pc)
<1>1. TypeOK /\ {"destroy", "clear"} \subseteq Pcs \ {"requeue", "release"}
      /\ \A pc \in {"destroy", "clear"} : Go(p, pc) => Same(p, pc)
  BY GoSame DEF Pcs, LInv
<1>2. Around /\ proc[p].pc \in {"recheck", "destroy", "clear"}
  BY DEF ReplaceRechecks, ReplaceDestroys, ReplaceClears, Around, Others
<1>3. row.state = "suspending" /\ ProcHolds(p)
  BY <1>2 DEF ProcHolds, LInv, HoldersSuspend
<1>4. Go(p, "requeue") => Leaves(p)
  BY <1>1, GoLeaves
<1>5. CASE ReplaceRechecks(p)
  <2>1. CASE Go(p, "requeue") /\ Write(proc[p].seen, row.ref, {})
    <3>1. proc[p].seen # "suspending"
      BY <1>5 DEF LInv, SeensFit, SeenFits, ReplaceRechecks
    <3> QED
      BY <1>2, <1>3, <1>4, <2>1, <3>1 DEF Write
  <2>2. CASE Go(p, "destroy")
    BY <1>1, <1>2, <1>3, <2>2
  <2> QED
    BY <1>3, <1>5, <2>1, <2>2 DEF ReplaceRechecks
<1>6. CASE ReplaceDestroys(p)
  <2>1. CASE Go(p, "clear")
    BY <1>1, <1>2, <1>3, <2>1
  <2>2. CASE Write("error", row.ref, {}) /\ Go(p, "requeue")
    BY <1>2, <1>3, <1>4, <2>2 DEF Write
  <2> QED
    BY <1>6, <2>1, <2>2 DEF ReplaceDestroys
<1>7. CASE ReplaceClears(p)
  <2>1. "read" \in Pcs
    BY DEF Pcs
  <2>2. Becomes(p, At(p, "read")) /\ row'.state = "stopped"
    BY <1>7 DEF ReplaceClears, Write
  <2>3. Leaves(p)
    <3> DEFINE v == At(p, "read")
    <3>1. v \in Execution /\ v.pc = "read" /\ v.got = NoRef /\ ~v.fresh /\ ~v.stuck
      BY <1>1, <2>1, AtFacts
    <3>2. Becomes(p, v)
      BY <2>2
    <3> HIDE DEF v
    <3> QED
      BY <1>1, <3>1, <3>2, BecomesFacts DEF Leaves, Steps
  <2> QED
    BY <1>2, <1>3, <1>7, <2>2, <2>3 DEF ReplaceClears
<1> QED
  BY <1>5, <1>6, <1>7

LEMMA TurnDoes ==
  ASSUME LInv, NEW p \in Procs, Checkpoint(p) \/ CheckpointEnds(p)
  PROVE  /\ Around /\ UNCHANGED <<box, lease>> /\ row'.ref = row.ref
         /\ \/ /\ proc[p].pc = "using" /\ ~ClaimedCheckpoints /\ UNCHANGED proc
               /\ row'.state = row.state
            \/ /\ proc[p].pc = "using" /\ ClaimedCheckpoints /\ Same(p, "checkpoint")
               /\ row.state = "running" /\ row.ref = proc[p].got /\ row'.state = "suspending"
            \/ /\ proc[p].pc = "checkpoint" /\ Same(p, "using") /\ row'.state # "booting"
               /\ row'.state # "suspending" \/ row.ref # proc[p].got
<1>1. TypeOK /\ {"using", "checkpoint"} \subseteq Pcs \ {"requeue", "release"}
      /\ \A pc \in {"using", "checkpoint"} : Go(p, pc) => Same(p, pc)
  BY GoSame DEF Pcs, LInv
<1>2. CASE Checkpoint(p)
  BY <1>1, <1>2 DEF Checkpoint, Around, Others, Write, Recorded, ClaimedCheckpoints
<1>3. CASE CheckpointEnds(p)
  <2>1. row.state = "suspending"
    BY <1>3 DEF CheckpointEnds, LInv, HoldersSuspend, ProcHolds
  <2> QED
    BY <1>1, <1>3, <2>1 DEF CheckpointEnds, Around, Others, Write, Recorded
<1> QED
  BY <1>2, <1>3

(* What is left of an execution's steps, by what it does to its record.    *)
Bold(p) ==
  \/ Provision(p) \/ Activate(p) \/ PrepareFails(p) \/ rollbackProvisionedComputer(p)
  \/ RecordFailure(p) \/ ReplaceRechecks(p) \/ ReplaceDestroys(p) \/ ReplaceClears(p)
  \/ Checkpoint(p) \/ CheckpointEnds(p)
  \/ (ProvisionClaims(p) \/ ReplaceClaims(p)) /\ ~Quiet(p)

LEMMA BoldLocal == ASSUME LInv, Local, NEW p \in Procs, Bold(p) PROVE Local'
<1>1. Around /\ proc[p].pc \notin {"idle", "release"} /\ Steps(p) /\ LocalFits(p)'
  <2>1. ASSUME Leaves(p) PROVE Steps(p) /\ LocalFits(p)'
    BY <2>1 DEF Leaves, LocalFits
  <2>2. ASSUME NEW pc, Same(p, pc), LocalFits(p),
               pc \in {"activate", "rollback", "record", "using", "checkpoint"}
               \/ proc[p].pc \notin {"activate", "rollback", "record", "using", "checkpoint"},
               pc # "record" => proc[p].pc # "record"
        PROVE  Steps(p) /\ LocalFits(p)'
    BY <2>2 DEF Same, LocalFits
  <2>3. LocalFits(p)
    BY DEF Local
  <2>4. CASE Provision(p)
    <3>1. CASE Same(p, "record")
      BY <2>2, <2>3, <2>4, <3>1, ProvisionDoes
    <3>2. CASE proc'[p].pc = "activate" /\ proc'[p].stuck = proc[p].stuck /\ Steps(p)
      BY <2>3, <2>4, <3>2, ProvisionDoes DEF LocalFits
    <3> QED
      BY <2>4, <3>1, <3>2, ProvisionDoes
  <2>5. CASE Activate(p) \/ PrepareFails(p)
    <3>1. CASE Same(p, "rollback")
      BY <2>2, <2>3, <2>5, <3>1, ActivateDoes
    <3>2. CASE /\ Steps(p) /\ ~proc'[p].stuck
               /\ \/ proc'[p].pc = "using"
                  \/ proc'[p].got = NoRef
      BY <2>5, <3>2, ActivateDoes DEF LocalFits
    <3> QED
      BY <2>5, <3>1, <3>2, ActivateDoes
  <2>6. CASE rollbackProvisionedComputer(p)
    BY <2>3, <2>6, RollbackDoes DEF LocalFits
  <2>7. CASE RecordFailure(p)
    BY <2>1, <2>7, RecordDoes
  <2>8. CASE ReplaceRechecks(p) \/ ReplaceDestroys(p) \/ ReplaceClears(p)
    <3>1. Around /\ proc[p].pc \in {"recheck", "destroy", "clear"}
      BY <2>8, HolderDoes DEF ProcHolds
    <3>2. Leaves(p) \/ \E pc \in {"destroy", "clear"} : Same(p, pc)
      BY <2>8, HolderDoes
    <3> QED
      BY <2>1, <2>2, <2>3, <3>1, <3>2
  <2>9. CASE Checkpoint(p) \/ CheckpointEnds(p)
    <3>1. CASE UNCHANGED proc /\ proc[p].pc = "using"
      BY <2>3, <2>9, <3>1, TurnDoes DEF LocalFits, Steps, LInv, TypeOK
    <3>2. CASE proc[p].pc \in {"using", "checkpoint"} /\ \E pc \in {"using", "checkpoint"} : Same(p, pc)
      BY <2>2, <2>3, <2>9, <3>2, TurnDoes
    <3> QED
      BY <2>9, <3>1, <3>2, TurnDoes
  <2>10. CASE ProvisionClaims(p) /\ ~Quiet(p)
    BY <2>2, <2>3, <2>10, ClaimDoes
  <2>11. CASE ReplaceClaims(p) /\ ~Quiet(p)
    BY <2>2, <2>3, <2>11, SeizeDoes
  <2> QED
    BY <2>4, <2>5, <2>6, <2>7, <2>8, <2>9, <2>10, <2>11 DEF Bold
<1> QED
  BY <1>1, LocalKept DEF Around, Begun

LEMMA CrashLocal == ASSUME LInv, Local, NEW p \in Procs, Crash(p) PROVE Local'
<1>1. Steps(p) /\ proc'[p] = Idle
  BY IdleFacts, BecomesFacts DEF Crash, Steps, LInv
<1> QED
  BY <1>1, IdleFacts, LocalKept DEF Crash, Local, LocalFits, Begun, LInv

LEMMA SplitSteps ==
  ASSUME NEW p \in Procs,
         \/ Begin(p) \/ Enter(p) \/ provisionComputer(p) \/ replaceComputer(p)
         \/ Turn(p) \/ Checkpoint(p) \/ Crash(p)
  PROVE  Quiet(p) \/ Bold(p) \/ Crash(p)
<1>1. CASE provisionComputer(p)
  BY <1>1 DEF provisionComputer, Quiet, Bold
<1>2. CASE replaceComputer(p)
  BY <1>2 DEF replaceComputer, Quiet, Bold
<1> QED
  BY <1>1, <1>2 DEF Turn, Quiet, Bold

-----------------------------------------------------------------------------
(* Suspending rows *)

(* A step of p after which the row is not suspending, or p holds it, or it *)
(* is held as before.                                                      *)
LEMMA SuspendKept ==
  ASSUME LInv, LInv', SuspendFits, NEW p \in Procs, Steps(p), UNCHANGED <<env, sleeper, stopper>>,
         \/ row'.state # "suspending"
         \/ ProcHolds(p)' /\ (proc'[p].pc = "checkpoint" => row'.ref = proc'[p].got)
         \/ /\ ~ProcHolds(p) /\ ~ProcHolds(p)'
            /\ row'.state = row.state /\ row'.ref = row.ref
            /\ \A s \in Sleepers : SleepHolds(s) /\ s \in current => s \in current'
  PROVE  SuspendFits'
<1>1. \A k \in Stoppers : stopper'[k].pc \in {"claim", "recheck"} => stopper'[k].seen # "suspending"
  BY DEF SuspendFits
<1>2. /\ \A q \in Procs \ {p} : proc'[q] = proc[q] /\ ProcHolds(q)' = ProcHolds(q)
      /\ \A s \in Sleepers : SleepHolds(s)' = SleepHolds(s)
      /\ \A k \in Stoppers : StopHolds(k)' = StopHolds(k)
  BY DEF Steps, ProcHolds, SleepHolds, StopHolds
<1>3. CASE row'.state # "suspending"
  <2>1. (\A q \in Procs : ~ProcHolds(q)') /\ (\A s \in Sleepers : ~SleepHolds(s)')
    BY <1>3 DEF LInv, HoldersSuspend
  <2> QED
    BY <1>1, <1>3, <2>1 DEF SuspendFits, ProcHolds
<1>4. CASE ProcHolds(p)' /\ (proc'[p].pc = "checkpoint" => row'.ref = proc'[p].got)
  <2>1. (\A q \in Procs \ {p} : ~ProcHolds(q)') /\ (\A s \in Sleepers : ~SleepHolds(s)')
    BY <1>4 DEF LInv, HolderIsAlone
  <2> QED
    BY <1>1, <1>4, <2>1 DEF SuspendFits, ProcHolds, Held
<1>5. CASE /\ ~ProcHolds(p) /\ ~ProcHolds(p)'
           /\ row'.state = row.state /\ row'.ref = row.ref
           /\ \A s \in Sleepers : SleepHolds(s) /\ s \in current => s \in current'
  <2>1. Held => Held'
    BY <1>2, <1>5 DEF Held
  <2>2. ASSUME NEW q \in Procs, proc'[q].pc = "checkpoint" PROVE row'.ref = proc'[q].got
    BY <1>2, <1>5, <2>2 DEF SuspendFits, ProcHolds
  <2> QED
    BY <1>1, <1>2, <1>5, <2>1, <2>2 DEF SuspendFits
<1> QED
  BY <1>3, <1>4, <1>5

LEMMA ProcSuspends ==
  ASSUME LInv, LInv', Local, Patient, SuspendFits, NEW p \in Procs, Quiet(p) \/ Bold(p)
  PROVE  SuspendFits'
<1>1. CASE Quiet(p)
  <2>1. Quietly(p)
    BY <1>1, QuietSteps
  <2>2. ~ProcHolds(p) /\ ~ProcHolds(p)'
    BY <2>1 DEF Quietly, Moves, Elsewhere, ProcHolds
  <2>3. \A s \in Sleepers : s \in current => s \in current'
    BY <2>1, EnvFacts DEF Quietly, LInv
  <2> QED
    BY <2>1, <2>2, <2>3, SuspendKept DEF Quietly, Moves
<1>2. CASE ProvisionClaims(p) /\ ~Quiet(p)
  BY <1>2, ClaimDoes, SuspendKept DEF Around, Same
<1>3. CASE Provision(p)
  <2>1. ~ProcHolds(p) /\ ~ProcHolds(p)' /\ Steps(p)
    BY <1>3, ProvisionDoes DEF ProcHolds, Same
  <2> QED
    BY <1>3, <2>1, ProvisionDoes, SuspendKept DEF Around
<1>4. CASE Activate(p) \/ PrepareFails(p)
  <2>1. ~ProcHolds(p) /\ ~ProcHolds(p)' /\ Steps(p)
    BY <1>4, ActivateDoes DEF ProcHolds, Same
  <2>2. row'.state # "suspending" \/ UNCHANGED <<row, current>>
    BY <1>4, ActivateDoes
  <2>3. Around
    BY <1>4, ActivateDoes
  <2> QED
    BY <2>1, <2>2, <2>3, SuspendKept DEF Around
<1>5. CASE rollbackProvisionedComputer(p)
  <2>1. ~ProcHolds(p) /\ ~ProcHolds(p)' /\ Steps(p)
    BY <1>5, RollbackDoes DEF ProcHolds
  <2> QED
    BY <1>5, <2>1, RollbackDoes, SuspendKept DEF Around
<1>6. CASE RecordFailure(p)
  <2>1. ~ProcHolds(p) /\ ~ProcHolds(p)' /\ Steps(p)
    BY <1>6, RecordDoes DEF ProcHolds, Leaves
  <2>2. row'.state # "suspending" \/ UNCHANGED <<row, current>>
    BY <1>6, RecordDoes
  <2>3. Around
    BY <1>6, RecordDoes
  <2> QED
    BY <2>1, <2>2, <2>3, SuspendKept DEF Around
<1>7. CASE ReplaceClaims(p) /\ ~Quiet(p)
  <2>1. Around /\ Same(p, "recheck")
    BY <1>7, SeizeDoes
  <2> QED
    BY <2>1, SuspendKept DEF Around, Same, ProcHolds
<1>8. CASE ReplaceRechecks(p) \/ ReplaceDestroys(p) \/ ReplaceClears(p)
  <2>1. Around /\ Steps(p)
        /\ (row'.state # "suspending" \/ (ProcHolds(p)' /\ proc'[p].pc # "checkpoint"))
    BY <1>8, HolderDoes DEF Leaves, Same, ProcHolds
  <2> QED
    BY <2>1, SuspendKept DEF Around
<1>9. CASE Checkpoint(p) \/ CheckpointEnds(p)
  <2>1. Around /\ row'.ref = row.ref
    BY <1>9, TurnDoes
  <2>2. CASE /\ proc[p].pc = "using" /\ ~ClaimedCheckpoints /\ UNCHANGED proc
             /\ row'.state = row.state
    <3>1. \A s \in Sleepers : ~SleepHolds(s)
      <4>1. env.sleepers = {}
        BY <2>2 DEF Patient, SleepsByItself, StopsByItself
      <4> QED
        BY <4>1 DEF Local, AskedFor, SleepHolds
    <3> QED
      BY <2>1, <2>2, <3>1, SuspendKept DEF Around, ProcHolds, Steps, LInv, TypeOK
  <2>3. CASE Same(p, "checkpoint") /\ row.ref = proc[p].got
    BY <2>1, <2>3, SuspendKept DEF Around, Same, ProcHolds
  <2>4. CASE /\ proc[p].pc = "checkpoint" /\ Same(p, "using")
             /\ row'.state # "suspending" \/ row.ref # proc[p].got
    BY <2>1, <2>4, SuspendKept DEF Around, Same, SuspendFits
  <2> QED
    BY <1>9, <2>2, <2>3, <2>4, TurnDoes
<1> QED
  BY <1>1, <1>2, <1>3, <1>4, <1>5, <1>6, <1>7, <1>8, <1>9 DEF Bold

(* A step of the idle sleep: the same alternatives.                        *)
LEMMA SleepSuspends ==
  ASSUME LInv, LInv', SuspendFits, NEW s \in env.sleepers, sleepComputerIfIdle(s)
  PROVE  SuspendFits'
<1>1. /\ s \in Sleepers /\ UNCHANGED <<env, proc, stopper>>
      /\ \A t \in Sleepers \ {s} : sleeper'[t] = sleeper[t]
      /\ sleeper' \in [Sleepers -> Sleep]
  BY EnvFacts DEF LInv, TypeOK, sleepComputerIfIdle, SleepReads, SleepAsksRuns, SleepClaims,
     SleepCheckpoints, SleepRechecks, SleepStops, SleepRecords, Sleeps, Ignores, Rest
<1>2. /\ \A q \in Procs : ProcHolds(q)' = ProcHolds(q)
      /\ \A t \in Sleepers \ {s} : SleepHolds(t)' = SleepHolds(t)
      /\ \A k \in Stoppers : StopHolds(k)' = StopHolds(k)
  BY <1>1 DEF ProcHolds, SleepHolds, StopHolds
<1>3. ASSUME row'.state # "suspending" PROVE SuspendFits'
  <2>1. (\A q \in Procs : ~ProcHolds(q)') /\ (\A t \in Sleepers : ~SleepHolds(t)')
    BY <1>3 DEF LInv, HoldersSuspend
  <2> QED
    BY <1>1, <1>3, <2>1 DEF SuspendFits, ProcHolds
<1>4. ASSUME SleepHolds(s)', s \in current' PROVE SuspendFits'
  <2>1. (\A q \in Procs : ~ProcHolds(q)') /\ (\A t \in Sleepers \ {s} : ~SleepHolds(t)')
    BY <1>1, <1>4 DEF LInv, HolderIsAlone
  <2> QED
    BY <1>1, <1>4, <2>1 DEF SuspendFits, ProcHolds, Held
<1>5. ASSUME ~SleepHolds(s), ~SleepHolds(s)', UNCHANGED row, current \subseteq current' \cup {s}
      PROVE  SuspendFits'
  <2>1. Held => Held'
    BY <1>1, <1>2, <1>5 DEF Held
  <2> QED
    BY <1>1, <1>2, <1>5, <2>1 DEF SuspendFits
<1>6. ASSUME NEW pc \in {"idle", "claim", "checkpoint", "recheck", "stop", "record"}, Sleeps(s, pc)
      PROVE  sleeper'[s].pc = pc
  BY <1>1, <1>6, SleepsFacts DEF LInv
<1>7. SleepHolds(s) => StillMine(s)
  BY <1>1 DEF SuspendFits, LInv, HoldersSuspend, StillMine
<1>8. CASE SleepReads(s)
  BY <1>1, <1>5, <1>8 DEF SleepReads, SleepHolds, LInv, TypeOK
<1>9. ASSUME Ignores(s), ~SleepHolds(s) PROVE SuspendFits'
  <2>1. sleeper'[s].pc = "idle"
    BY <1>6, <1>9 DEF Ignores
  <2> QED
    BY <1>5, <1>9, <2>1 DEF Ignores, Forget, SleepHolds
<1>10. CASE SleepAsksRuns(s)
  <2>1. ~SleepHolds(s)
    BY <1>10 DEF SleepAsksRuns, SleepHolds
  <2>2. ASSUME KeepRow, Sleeps(s, "claim") PROVE SuspendFits'
    <3>1. sleeper'[s].pc = "claim"
      BY <1>6, <2>2
    <3> QED
      BY <1>5, <2>1, <2>2, <3>1 DEF KeepRow, SleepHolds
  <2> QED
    BY <1>9, <1>10, <2>1, <2>2 DEF SleepAsksRuns
<1>11. CASE SleepClaims(s)
  <2>1. ~SleepHolds(s)
    BY <1>11 DEF SleepClaims, SleepHolds
  <2>2. ASSUME Write("suspending", row.ref, {s}), Sleeps(s, "checkpoint") PROVE SuspendFits'
    <3>1. sleeper'[s].pc = "checkpoint"
      BY <1>6, <2>2
    <3> QED
      BY <1>4, <2>2, <3>1 DEF Write, SleepHolds
  <2> QED
    BY <1>9, <1>11, <2>1, <2>2 DEF SleepClaims
<1>12. ASSUME SleepHolds(s), Wakes(s) PROVE SuspendFits'
  BY <1>3, <1>7, <1>12 DEF Wakes, Write
<1>13. ASSUME SleepHolds(s), KeepRow, NEW pc \in {"recheck", "stop", "record"}, Sleeps(s, pc)
       PROVE  SuspendFits'
  <2>1. sleeper'[s].pc = pc
    BY <1>6, <1>13
  <2> QED
    BY <1>1, <1>4, <1>13, <2>1 DEF KeepRow, SleepHolds, SuspendFits
<1>14. CASE SleepCheckpoints(s)
  BY <1>12, <1>13, <1>14 DEF SleepCheckpoints, SleepHolds
<1>15. CASE SleepRechecks(s)
  BY <1>12, <1>13, <1>15 DEF SleepRechecks, SleepHolds
<1>16. CASE SleepStops(s)
  BY <1>12, <1>13, <1>16 DEF SleepStops, SleepHolds
<1>17. CASE SleepRecords(s)
  <2>1. SleepHolds(s)
    BY <1>17 DEF SleepRecords, SleepHolds
  <2> QED
    BY <1>3, <1>7, <1>17, <2>1 DEF SleepRecords, Write
<1> QED
  BY <1>8, <1>10, <1>11, <1>14, <1>15, <1>16, <1>17 DEF sleepComputerIfIdle

(* A stop request that is alone has read a row that is not suspending.     *)
LEMMA StopSuspends ==
  ASSUME LInv, LInv', Local, StopsByItself, SuspendFits, NEW k \in env.stoppers, stop(k)
  PROVE  SuspendFits'
<1>1. /\ k \in Stoppers /\ UNCHANGED <<env, proc, sleeper>>
  BY EnvFacts DEF LInv, stop, StopReads, StopClaims, StopRechecks, StopDeletesLeases, StopStops,
     StopRecords, Still
<1>2. /\ \A l \in Stoppers \ {k} : stopper[l].pc = "idle"
      /\ \A s \in Sleepers : ~SleepHolds(s) /\ ~SleepHolds(s)'
      /\ \A p \in Procs : ~ProcHolds(p) /\ ~ProcHolds(p)'
  <2>1. \A l \in Stoppers \ {k} : stopper[l].pc = "idle"
    BY DEF StopsByItself, Local, AskedFor
  <2>2. \A s \in Sleepers : sleeper[s].pc = "idle"
    BY DEF StopsByItself, Local, AskedFor
  <2>3. \A p \in Procs : proc[p].pc \notin {"checkpoint", "recheck", "destroy", "clear"}
    BY DEF StopsByItself, NoReplace, ClaimedCheckpoints, LInv, KindsFit, KindFits
  <2> QED
    BY <1>1, <2>1, <2>2, <2>3 DEF SleepHolds, ProcHolds
<1>3. stopper[k].pc = "idle" => row.state # "suspending"
  BY <1>1, <1>2 DEF SuspendFits, Held, StopHolds
<1>4. stopper[k].pc \in {"claim", "recheck"} => stopper[k].seen # "suspending"
  BY <1>1 DEF SuspendFits
<1>5. StopHolds(k) => row.state = "suspending"
  BY <1>1 DEF LInv, HoldersSuspend
<1>6. ASSUME NEW pc, Ends(k, pc)
      PROVE  /\ stopper'[k].pc = pc /\ stopper'[k].seen = stopper[k].seen
             /\ \A l \in Stoppers \ {k} : stopper'[l] = stopper[l]
  <2>1. stopper[k] \in StopRequest
    BY <1>1 DEF LInv, TypeOK
  <2>2. [stopper[k] EXCEPT !.pc = pc].pc = pc /\ [stopper[k] EXCEPT !.pc = pc].seen = stopper[k].seen
    BY ONLY <2>1 DEF StopRequest
  <2> QED
    BY <1>1, <1>6, <2>2 DEF Ends, LInv, TypeOK
<1>7. ASSUME \A l \in Stoppers \ {k} : stopper'[l] = stopper[l],
             stopper'[k].pc \in {"claim", "recheck"} => stopper'[k].seen # "suspending",
             row'.state = "suspending" => StopHolds(k)'
      PROVE  SuspendFits'
  <2>1. \A l \in Stoppers : stopper'[l].pc \in {"claim", "recheck"} => stopper'[l].seen # "suspending"
    BY <1>1, <1>2, <1>7
  <2> QED
    BY <1>1, <1>2, <1>7, <2>1 DEF SuspendFits, Held, ProcHolds
<1>8. CASE StopReads(k)
  <2>1. /\ \A l \in Stoppers \ {k} : stopper'[l] = stopper[l]
        /\ stopper'[k].seen = row.state /\ UNCHANGED row
    BY <1>1, <1>8 DEF StopReads, KeepRow, LInv, TypeOK
  <2> QED
    BY <1>3, <1>7, <1>8, <2>1 DEF StopReads
<1>9. CASE StopClaims(k)
  <2>1. CASE Write("suspending", row.ref, {}) /\ Ends(k, "recheck")
    BY <1>4, <1>6, <1>7, <1>9, <2>1 DEF StopClaims, StopHolds
  <2>2. CASE KeepRow /\ Ends(k, "idle")
    <3>1. row.state # "suspending"
      BY <1>1, <1>2, <1>9 DEF SuspendFits, Held, StopHolds, StopClaims
    <3> QED
      BY <1>6, <1>7, <2>2, <3>1 DEF KeepRow
  <2> QED
    BY <1>9, <2>1, <2>2 DEF StopClaims
<1>10. CASE StopRechecks(k)
  <2>1. row.state = "suspending"
    BY <1>5, <1>10 DEF StopRechecks, StopHolds
  <2>2. CASE Write(stopper[k].seen, row.ref, {}) /\ Ends(k, "idle")
    BY <1>4, <1>6, <1>7, <1>10, <2>2 DEF StopRechecks, Write
  <2>3. CASE KeepRow /\ Ends(k, "delete")
    BY <1>6, <1>7, <2>3 DEF StopHolds
  <2> QED
    BY <1>10, <2>1, <2>2, <2>3 DEF StopRechecks
<1>11. CASE StopDeletesLeases(k) \/ StopStops(k)
  <2>1. PICK pc \in {"record", "stop", "fail"} : Ends(k, pc)
    BY <1>11 DEF StopDeletesLeases, StopStops
  <2> QED
    BY <1>6, <1>7, <2>1 DEF StopHolds
<1>12. CASE StopRecords(k)
  <2>1. row.state = "suspending" /\ Ends(k, "idle")
    BY <1>5, <1>12 DEF StopRecords, StopHolds
  <2>2. row'.state # "suspending"
    BY <1>12, <2>1 DEF StopRecords, Write
  <2> QED
    BY <1>6, <1>7, <2>1, <2>2
<1> QED
  BY <1>8, <1>9, <1>10, <1>11, <1>12 DEF stop

-----------------------------------------------------------------------------
(* Booting rows *)

(* A step after which the same executions boot, and know what they knew.   *)
LEMMA BootingKept ==
  ASSUME BootingFits, row'.ref = row.ref, row'.state = "booting" => row.state = "booting",
         \A r \in Refs : box'[r] = "up" => box[r] = "up",
         \A q \in Procs : /\ Booting(q)' <=> Booting(q)
                          /\ Booting(q) => proc'[q] = proc[q] /\ (q \in current => q \in current'),
         TypeOK
  PROVE  BootingFits'
<1>1. ASSUME NEW q \in Procs PROVE KnowsBoot(q)' /\ AttemptFits(q)'
  <2>1. proc[q].ref \in MaybeRef /\ proc[q].got \in MaybeRef
    BY DEF TypeOK, Execution
  <2>2. \A ref \in MaybeRef : IsUp(ref)' => IsUp(ref)
    BY DEF IsUp, MaybeRef
  <2>3. KnowsBoot(q) /\ AttemptFits(q)
    BY DEF BootingFits
  <2>4. CASE Booting(q)
    <3>1. proc'[q] = proc[q] /\ Booting(q)' /\ q \in current'
      BY <2>3, <2>4 DEF KnowsBoot
    <3> QED
      BY <2>1, <2>2, <2>3, <2>4, <3>1 DEF KnowsBoot, AttemptFits
  <2>5. CASE ~Booting(q)
    BY <2>5 DEF KnowsBoot, AttemptFits
  <2> QED
    BY <2>4, <2>5
<1>2. UpFits'
  <2>1. ASSUME NEW r \in Refs, box'[r] = "up", row.ref # r
        PROVE  \E q \in Procs : Booting(q)' /\ proc'[q].got = r
    BY <2>1 DEF BootingFits, UpFits
  <2> QED
    BY <2>1 DEF UpFits
<1> QED
  BY <1>1, <1>2 DEF BootingFits

LEMMA QuietBoots ==
  ASSUME LInv, BootingFits, NEW p \in Procs, Quiet(p)
  PROVE  BootingFits'
<1>1. Quietly(p)
  BY QuietSteps
<1>2. ~Booting(p) /\ ~Booting(p)'
  BY <1>1 DEF Quietly, Moves, Elsewhere, Booting, Provisioning
<1> QED
  BY <1>1, <1>2, BootingKept DEF Quietly, Moves, Steps, Booting, LInv

(* Nobody boots while a checkpoint comes to the row of a computer that is  *)
(* by itself: the row is claimed, or the one run is at its turn.           *)
LEMMA TurnBoots ==
  ASSUME LInv, SInv, Local, ByItself, BootingFits, NEW p \in Procs,
         Checkpoint(p) \/ CheckpointEnds(p)
  PROVE  BootingFits'
<1>1. Around /\ UNCHANGED box /\ row'.ref = row.ref
  BY TurnDoes
<1>2. \A q \in Procs : ~Booting(q)
  <2>1. CASE proc[p].pc = "using" /\ ~ClaimedCheckpoints
    <3> SUFFICES ASSUME NEW q \in Procs, Booting(q) PROVE FALSE
      OBVIOUS
    <3>1. env.kind[p] = "run" /\ env.kind[q] # "none"
      BY <2>1 DEF Booting, Provisioning, LInv, KindsFit, KindFits
    <3>2. env.run[p] = env.run[q] /\ p # q
      BY <2>1, <3>1 DEF ByItself, OneRunAlone, Booting, Provisioning
    <3>3. env.kind[q] = "run"
      BY <3>1, <3>2, SameRun DEF LInv
    <3> QED
      BY <2>1, <3>1, <3>2, <3>3 DEF Local, RunsAlone, Begun, Booting, Provisioning
  <2>2. CASE row.state = "running" \/ row.state = "suspending"
    BY <2>2 DEF SInv, Fits, BootFits
  <2>3. proc[p].pc = "checkpoint" => row.state = "suspending"
    BY DEF LInv, HoldersSuspend, ProcHolds
  <2> QED
    BY <2>1, <2>2, <2>3, TurnDoes
<1>3. Steps(p) /\ proc'[p].pc \in {"using", "checkpoint"}
  BY TurnDoes DEF Same, Steps, LInv, TypeOK
<1>4. \A q \in Procs : ~Booting(q)'
  BY <1>2, <1>3 DEF Steps, Booting, Provisioning
<1>5. row'.state = "booting" => row.state = "booting"
  BY TurnDoes
<1> QED
  BY <1>1, <1>2, <1>4, <1>5, BootingKept DEF LInv

LEMMA OutsideBoots ==
  ASSUME LInv, SInv, BootingFits, UNCHANGED <<env, proc>>, row'.ref = row.ref,
         row'.state = "booting" => row.state = "booting",
         \A r \in Refs : box'[r] = "up" => box[r] = "up",
         row.state = "booting" => current \cap Procs \subseteq current'
  PROVE  BootingFits'
<1>1. \A q \in Procs : Booting(q) => row.state = "booting"
  BY DEF SInv, Fits, BootFits
<1> QED
  BY <1>1, BootingKept DEF Booting, LInv

LEMMA SleepBoots ==
  ASSUME LInv, SInv, BootingFits, NEW s \in env.sleepers, sleepComputerIfIdle(s)
  PROVE  BootingFits'
<1>1. s \in Sleepers /\ s \notin Procs /\ UNCHANGED <<env, proc>>
  BY EnvFacts DEF LInv, sleepComputerIfIdle, SleepReads, SleepAsksRuns, SleepClaims,
     SleepCheckpoints, SleepRechecks, SleepStops, SleepRecords, Rest
<1>2. \A r \in Refs : box'[r] = "up" => box[r] = "up"
  BY DEF sleepComputerIfIdle, SleepReads, SleepAsksRuns, SleepClaims, SleepCheckpoints,
     SleepRechecks, SleepStops, SleepRecords, Rest, LInv, TypeOK
<1>3. \/ UNCHANGED row /\ current \subseteq current' \cup {s}
      \/ /\ row'.ref = row.ref /\ row'.state # "booting"
         /\ row.state \in {"running", "suspending"}
  <2>1. Ignores(s) => UNCHANGED row /\ current \subseteq current' \cup {s}
    BY DEF Ignores, Forget
  <2>2. Wakes(s) => \/ UNCHANGED row /\ current \subseteq current' \cup {s}
                    \/ /\ row'.ref = row.ref /\ row'.state # "booting"
                       /\ row.state = "suspending"
    BY DEF Wakes, Forget, Write, StillMine
  <2>3. KeepRow => UNCHANGED row /\ current \subseteq current' \cup {s}
    BY DEF KeepRow
  <2>4. SleepReads(s) => UNCHANGED row /\ current \subseteq current' \cup {s}
    BY DEF SleepReads
  <2>5. SleepAsksRuns(s) => KeepRow \/ Ignores(s)
    BY DEF SleepAsksRuns
  <2>6. SleepClaims(s) => \/ Ignores(s)
                          \/ /\ row'.ref = row.ref /\ row'.state # "booting"
                             /\ row.state = "running"
    BY DEF SleepClaims, SleepMatches, Write
  <2>7. SleepCheckpoints(s) \/ SleepRechecks(s) \/ SleepStops(s) => KeepRow \/ Wakes(s)
    BY DEF SleepCheckpoints, SleepRechecks, SleepStops
  <2>8. SleepRecords(s) => \/ UNCHANGED row /\ current \subseteq current' \cup {s}
                           \/ /\ row'.ref = row.ref /\ row'.state # "booting"
                              /\ row.state = "suspending"
    BY DEF SleepRecords, Forget, Write, StillMine
  <2> QED
    BY <2>1, <2>2, <2>3, <2>4, <2>5, <2>6, <2>7, <2>8 DEF sleepComputerIfIdle
<1> QED
  BY <1>1, <1>2, <1>3, OutsideBoots

(* The steps of a boot: p boots alone, and knows its claim.                *)
LEMMA BooterBoots ==
  ASSUME BootingFits, NEW p \in Procs, Steps(p),
         \A q \in Procs \ {p} : ~Booting(q),
         \/ /\ Booting(p)' /\ p \in current' /\ AttemptFits(p)'
            /\ \A r \in Refs : box'[r] = "up" => row'.ref = r \/ proc'[p].got = r
         \/ /\ ~Booting(p)' /\ row'.state # "booting"
            /\ \A r \in Refs : box'[r] = "up" => row'.ref = r
  PROVE  BootingFits'
<1>1. \A q \in Procs \ {p} : ~Booting(q)' /\ KnowsBoot(q)' /\ AttemptFits(q)'
  BY DEF Steps, Booting, KnowsBoot, AttemptFits
<1>2. CASE /\ Booting(p)' /\ p \in current' /\ AttemptFits(p)'
           /\ \A r \in Refs : box'[r] = "up" => row'.ref = r \/ proc'[p].got = r
  BY <1>1, <1>2 DEF BootingFits, UpFits, KnowsBoot
<1>3. CASE /\ ~Booting(p)' /\ row'.state # "booting"
           /\ \A r \in Refs : box'[r] = "up" => row'.ref = r
  <2>1. KnowsBoot(p)' /\ AttemptFits(p)'
    BY <1>3 DEF KnowsBoot, AttemptFits
  <2> QED
    BY <1>1, <1>3, <2>1 DEF BootingFits, UpFits
<1> QED
  BY <1>2, <1>3

LEMMA ClaimBoots ==
  ASSUME LInv, SInv, SInv', Local, BootingFits, NEW p \in Procs, ProvisionClaims(p)
  PROVE  BootingFits'
<1>1. CASE Quiet(p)
  BY <1>1, QuietBoots
<1>2. CASE ~Quiet(p)
  <2>1. /\ Around /\ UNCHANGED box /\ proc[p].pc = "claim" /\ Same(p, "provision")
        /\ row'.state = "booting" /\ row'.ref = row.ref /\ current' = {p}
    BY <1>2, ClaimDoes
  <2>2. Booting(p)' /\ ~Booting(p)
    BY <2>1 DEF Same, Booting, Provisioning
  <2>3. \A q \in Procs \ {p} : ~Booting(q)
    BY <2>1, <2>2 DEF SInv, BootIsAlone, Same, Steps, Booting
  <2>4. AttemptFits(p)'
    <3>1. proc'[p].got = NoRef /\ ~proc'[p].fresh /\ ~proc'[p].stuck
      BY <2>1, NotFresh DEF Same, Local, LocalFits
    <3> QED
      BY <2>1, <3>1 DEF AttemptFits, Same
  <2>5. \A r \in Refs : box[r] = "up" => row.ref = r
    BY <2>2, <2>3 DEF BootingFits, UpFits
  <2> QED
    BY <2>1, <2>2, <2>3, <2>4, <2>5, BooterBoots DEF Around, Same
<1> QED
  BY <1>1, <1>2

LEMMA BootFacts ==
  ASSUME LInv, SInv, Local, BootingFits, NEW p \in Procs, proc[p].pc \in Provisioning
  PROVE  /\ Booting(p) /\ p \in current /\ AttemptFits(p) /\ \A q \in Procs \ {p} : ~Booting(q)
         /\ row.state = "booting" /\ row.ref = proc[p].ref /\ Claimed(p)
         /\ \A r \in Refs : box[r] = "up" => row.ref = r \/ proc[p].got = r
         /\ proc[p].fresh => ~Reconnecting(p)
         /\ LocalFits(p)
         /\ proc[p].got \in MaybeRef /\ proc[p].ref \in MaybeRef /\ NoRef \notin Refs
         /\ box \in [Refs -> {"none", "up", "stopped", "gone"}]
<1>1. Booting(p)
  BY DEF Booting
<1>2. p \in current /\ AttemptFits(p)
  BY <1>1 DEF BootingFits, KnowsBoot
<1>3. \A q \in Procs \ {p} : ~Booting(q)
  BY <1>1 DEF SInv, BootIsAlone
<1>4. row.state = "booting" /\ row.ref = proc[p].ref
  BY <1>1 DEF SInv, Fits, BootFits
<1>5. proc[p].fresh => ~Reconnecting(p)
  BY <1>1 DEF SInv, Fits, BootFits, Reconnecting
<1>6. \A r \in Refs : box[r] = "up" => row.ref = r \/ proc[p].got = r
  BY <1>3 DEF BootingFits, UpFits
<1> QED
  BY <1>1, <1>2, <1>3, <1>4, <1>5, <1>6, EnvFacts DEF Claimed, Local, LInv, TypeOK, Execution

LEMMA ProvisionBoots ==
  ASSUME LInv, SInv, Local, BootingFits, NEW p \in Procs, Provision(p)
  PROVE  BootingFits'
<1>1. Around /\ UNCHANGED <<row, current>> /\ proc[p].pc = "provision"
  BY ProvisionDoes
<1>2. proc[p].pc \in Provisioning /\ proc[p].got = NoRef /\ ~proc[p].stuck /\ ~proc[p].fresh
  BY <1>1, NotFresh DEF Provisioning, Local, LocalFits
<1>3. CASE Same(p, "record") /\ UNCHANGED box
  <2>1. Booting(p)' /\ AttemptFits(p)'
    BY <1>2, <1>3 DEF Same, Booting, Provisioning, AttemptFits
  <2> QED
    BY <1>1, <1>2, <1>3, <2>1, BootFacts, BooterBoots DEF Around, Same
<1>4. CASE /\ Steps(p) /\ proc'[p].pc = "activate" /\ proc'[p].seen = proc[p].seen
           /\ proc'[p].ref = proc[p].ref /\ proc'[p].stuck = proc[p].stuck
           /\ proc'[p].got \in Refs /\ box' = [box EXCEPT ![proc'[p].got] = "up"]
           /\ \/ proc'[p].got = proc[p].ref /\ proc'[p].fresh = proc[p].fresh
              \/ box[proc'[p].got] = "none" /\ proc'[p].fresh /\ ~Exists(proc[p].ref)
  <2>1. Booting(p)'
    BY <1>4 DEF Booting, Provisioning
  <2>2. AttemptFits(p)'
    <3>1. CASE proc'[p].got = proc[p].ref /\ proc'[p].fresh = proc[p].fresh
      BY <1>2, <1>4, <3>1 DEF AttemptFits
    <3>2. CASE proc'[p].fresh /\ box[proc'[p].got] = "none" /\ ~Exists(proc[p].ref)
      <4>1. proc'[p].got = proc[p].ref \/ ~IsUp(proc[p].ref)'
        BY <1>4, <3>2 DEF IsUp, Exists
      <4> QED
        BY <1>2, <1>4, <3>2, <4>1 DEF AttemptFits
    <3> QED
      BY <1>4, <3>1, <3>2
  <2>3. \A r \in Refs : box'[r] = "up" => row'.ref = r \/ proc'[p].got = r
    BY <1>1, <1>2, <1>4, BootFacts
  <2> QED
    BY <1>1, <1>2, <1>4, <2>1, <2>2, <2>3, BootFacts, BooterBoots DEF Around
<1> QED
  BY <1>3, <1>4, ProvisionDoes

LEMMA ActivateBoots ==
  ASSUME LInv, SInv, Local, BootingFits, NEW p \in Procs, Activate(p) \/ PrepareFails(p)
  PROVE  BootingFits'
<1>1. Around /\ UNCHANGED box /\ proc[p].pc = "activate"
  BY ActivateDoes
<1>2. proc[p].pc \in Provisioning
  BY <1>1 DEF Provisioning
<1>3. CASE /\ row'.state = "running" /\ row'.ref = proc[p].got
           /\ Steps(p) /\ proc'[p].pc \in {"using", "release"}
  <2>1. ~Booting(p)'
    BY <1>3 DEF Booting, Provisioning
  <2>2. \A r \in Refs : box[r] = "up" => proc[p].got = r
    <3> SUFFICES ASSUME NEW r \in Refs, box[r] = "up", r # proc[p].got PROVE FALSE
      OBVIOUS
    <3>1. r = proc[p].ref /\ IsUp(r)
      BY <1>2, BootFacts DEF IsUp
    <3>2. proc[p].fresh
      BY <1>1, <3>1 DEF SInv, Fits, BoxFits
    <3> QED
      BY <1>2, <3>1, <3>2, BootFacts DEF AttemptFits
  <2> QED
    BY <1>1, <1>2, <1>3, <2>1, <2>2, BootFacts, BooterBoots DEF Around, AttemptFits
<1>4. CASE UNCHANGED <<row, current>> /\ Same(p, "rollback")
  <2>1. Booting(p)'
    BY <1>4 DEF Same, Booting, Provisioning
  <2>2. AttemptFits(p)'
    <3>1. IsUp(proc[p].got)
      BY <1>1 DEF SInv, Fits, BoxFits
    <3> QED
      BY <1>1, <1>2, <1>4, <3>1, BootFacts DEF Same, AttemptFits, IsUp
  <2> QED
    BY <1>1, <1>2, <1>4, <2>1, <2>2, BootFacts, BooterBoots DEF Around, Same
<1> QED
  BY <1>3, <1>4, ActivateDoes

LEMMA RollbackBoots ==
  ASSUME LInv, SInv, Local, BootingFits, NEW p \in Procs, rollbackProvisionedComputer(p)
  PROVE  BootingFits'
<1>1. /\ Around /\ UNCHANGED <<row, current>> /\ proc[p].pc = "rollback"
      /\ Steps(p) /\ proc'[p].pc = "record" /\ proc'[p].seen = proc[p].seen
      /\ proc'[p].ref = proc[p].ref /\ proc'[p].got = proc[p].got
      /\ proc'[p].fresh = proc[p].fresh
  BY RollbackDoes
<1>2. proc[p].pc \in Provisioning /\ Booting(p)' /\ ~proc[p].stuck
  BY <1>1 DEF Provisioning, Booting, Local, LocalFits
<1>3. /\ \A r \in Refs : box'[r] = "up" => box[r] = "up"
      /\ proc[p].fresh /\ IsUp(proc[p].got)' => proc'[p].stuck
  <2>0. proc[p].got \in MaybeRef /\ box \in [Refs -> {"none", "up", "stopped", "gone"}]
    BY <1>2, BootFacts
  <2>1. CASE /\ RollsBack(p) /\ proc'[p].stuck = proc[p].stuck
             /\ \E to \in {"gone", "stopped"} : box' = [box EXCEPT ![proc[p].got] = to]
    BY <1>1, <1>2, <2>0, <2>1 DEF IsUp, MaybeRef
  <2>2. CASE RollsBack(p) /\ UNCHANGED box /\ (Exists(proc[p].got) => proc'[p].stuck)
    BY <1>1, <2>0, <2>2 DEF IsUp, Exists, MaybeRef
  <2>3. CASE ~RollsBack(p) /\ UNCHANGED box /\ proc'[p].stuck = proc[p].stuck
    BY <1>1, <1>2, <2>3 DEF RollsBack
  <2> QED
    BY <2>1, <2>2, <2>3, RollbackDoes
<1>4. \A ref \in MaybeRef : IsUp(ref)' => IsUp(ref)
  BY <1>3 DEF IsUp, MaybeRef
<1>5. AttemptFits(p)
  BY <1>2, BootFacts
<1>6. AttemptFits(p)'
  <2>1. proc[p].ref \in MaybeRef
    BY <1>2, BootFacts
  <2>2. /\ proc[p].got \in {NoRef, proc[p].ref} \/ proc[p].fresh
        /\ proc[p].fresh => proc[p].got = proc[p].ref \/ ~IsUp(proc[p].ref)
        /\ proc[p].got # NoRef
    BY <1>1, <1>2, <1>5, BootFacts DEF AttemptFits
  <2>3. proc'[p].fresh => proc'[p].got = proc'[p].ref \/ ~IsUp(proc[p].ref)'
    BY <1>1, <1>4, <2>1, <2>2 DEF IsUp
  <2> QED
    BY <1>1, <1>3, <2>2, <2>3 DEF AttemptFits
<1> QED
  BY <1>1, <1>2, <1>3, <1>6, BootFacts, BooterBoots DEF Around

LEMMA RecordBoots ==
  ASSUME LInv, SInv, Local, BootingFits, NEW p \in Procs, RecordFailure(p)
  PROVE  BootingFits'
<1>1. /\ Around /\ UNCHANGED box /\ proc[p].pc = "record" /\ Leaves(p)
  BY RecordDoes
<1>2. proc[p].pc \in Provisioning /\ ~Booting(p)'
  BY <1>1 DEF Provisioning, Booting, Leaves
<1>3. /\ row'.state # "booting"
      /\ row'.ref = IF ~Reconnecting(p) /\ proc[p].stuck THEN proc[p].got ELSE row.ref
  BY <1>2, RecordDoes, BootFacts
<1>4. ASSUME NEW r \in Refs, box[r] = "up" PROVE row'.ref = r
  <2>1. IsUp(r)
    BY <1>2, <1>4, BootFacts DEF IsUp
  <2>2. CASE row.ref = r
    BY <1>2, <1>3, <2>1, <2>2, BootFacts DEF AttemptFits
  <2>3. CASE proc[p].got = r /\ row.ref # r
    <3>1. proc[p].fresh
      BY <1>2, <2>1, <2>3, BootFacts DEF AttemptFits
    <3> QED
      BY <1>1, <1>2, <1>3, <2>1, <2>3, <3>1, BootFacts DEF AttemptFits
  <2> QED
    BY <1>2, <1>4, <2>2, <2>3, BootFacts
<1> QED
  BY <1>1, <1>2, <1>3, <1>4, BootFacts, BooterBoots DEF Around, Leaves, AttemptFits

-----------------------------------------------------------------------------
(* All steps *)

LEMMA ProcBoots ==
  ASSUME LInv, SInv, SInv', Local, ByItself, BootingFits, NEW p \in Procs, Quiet(p) \/ Bold(p)
  PROVE  BootingFits'
<1>1. ~(ReplaceClaims(p) \/ ReplaceRechecks(p) \/ ReplaceDestroys(p) \/ ReplaceClears(p))
  BY DEF ReplaceClaims, ReplaceRechecks, ReplaceDestroys, ReplaceClears, ByItself, NoReplace,
     LInv, KindsFit, KindFits
<1> QED
  BY <1>1, QuietBoots, ClaimBoots, ProvisionBoots, ActivateBoots, RollbackBoots, RecordBoots,
     TurnBoots DEF Bold

(* The steps of the runs, the leases and the clock change no process.      *)
LEMMA WorldFacts ==
  ASSUME TypeOK,
         \/ \E i \in Ids : \/ Create(i) \/ Cancel(i) \/ expireComputerExecutionLeases(i)
                           \/ RunLeaseLapses(i)
         \/ \E b \in Bots : ComputerLeaseLapses(b)
         \/ Age \/ UNCHANGED vars
  PROVE  UNCHANGED <<env, row.state, row.ref, current, box, proc, sleeper, stopper, crashes>>
<1>1. Age => row'.state = row.state /\ row'.ref = row.ref
  BY DEF Age, TypeOK, Row
<1> QED
  BY <1>1 DEF Create, Cancel, expireComputerExecutionLeases, RunLeaseLapses, ComputerLeaseLapses,
     Age, vars, KeepRow, Others

LEMMA WorldKept ==
  ASSUME LInv,
         UNCHANGED <<env, row.state, row.ref, current, box, proc, sleeper, stopper, crashes>>
  PROVE  /\ Local => Local'
         /\ SuspendFits => SuspendFits'
         /\ SInv /\ BootingFits => BootingFits'
<1>1. Local => Local'
  BY DEF Local, LocalFits, RunsAlone, Begun, AskedFor
<1>2. SuspendFits => SuspendFits'
  BY DEF SuspendFits, Held, SleepHolds, ProcHolds, StopHolds
<1>3. SInv /\ BootingFits => BootingFits'
  BY OutsideBoots
<1> QED
  BY <1>1, <1>2, <1>3

(* A sleep or a stop comes from its own process and leaves the others'     *)
(* local state.                                                            *)
LEMMA ClaimantLocal ==
  ASSUME LInv, Local,
         \/ \E s \in env.sleepers : sleepComputerIfIdle(s) \/ SleepCrash(s)
         \/ \E k \in env.stoppers : stop(k)
  PROVE  Local'
<1>1. CASE \E s \in env.sleepers : sleepComputerIfIdle(s) \/ SleepCrash(s)
  <2>1. PICK s \in env.sleepers : sleepComputerIfIdle(s) \/ SleepCrash(s)
    BY <1>1
  <2>2. /\ UNCHANGED <<env, proc, stopper>>
        /\ \A t \in Sleepers \ {s} : sleeper'[t] = sleeper[t]
    BY <2>1 DEF LInv, TypeOK, sleepComputerIfIdle, SleepReads, SleepAsksRuns, SleepClaims,
       SleepCheckpoints, SleepRechecks, SleepStops, SleepRecords, SleepCrash, Sleeps, Ignores, Rest
  <2> QED
    BY <2>1, <2>2 DEF Local, LocalFits, RunsAlone, Begun, AskedFor
<1>2. CASE \E k \in env.stoppers : stop(k)
  <2>1. PICK k \in env.stoppers : stop(k)
    BY <1>2
  <2>2. /\ UNCHANGED <<env, proc, sleeper>>
        /\ \A l \in Stoppers \ {k} : stopper'[l] = stopper[l]
    BY <2>1 DEF LInv, TypeOK, stop, StopReads, StopClaims, StopRechecks, StopDeletesLeases,
       StopStops, StopRecords, Ends, Still
  <2> QED
    BY <2>1, <2>2 DEF Local, LocalFits, RunsAlone, Begun, AskedFor
<1> QED
  BY <1>1, <1>2

LEMMA InitTInv == Init => TInv
<1> SUFFICES ASSUME Init PROVE TInv
  OBVIOUS
<1>1. KInv
  BY InitKInv
<1>2. \A p \in Procs : proc[p].pc = "idle" /\ proc[p].got = NoRef /\ ~proc[p].stuck
  BY DEF Init, Idle
<1>3. Local
  BY <1>2 DEF Init, Local, LocalFits, RunsAlone, Begun, AskedFor
<1>4. SuspendFits
  BY <1>2 DEF Init, SuspendFits, SleepHolds
<1>5. BootingFits
  BY <1>2 DEF Init, BootingFits, KnowsBoot, AttemptFits, UpFits, Booting, Provisioning
<1> QED
  BY <1>1, <1>3, <1>4, <1>5 DEF TInv

LEMMA StepTInv == TInv /\ [Next]_vars => TInv'
<1> SUFFICES ASSUME TInv, [Next]_vars PROVE TInv'
  OBVIOUS
<1>1. KInv' /\ LInv /\ LInv' /\ (NoStop => SInv) /\ (NoStop' => SInv') /\ Local
  BY StepKInv DEF TInv, KInv
<1> DEFINE World ==
      \/ \E i \in Ids : \/ Create(i) \/ Cancel(i) \/ expireComputerExecutionLeases(i)
                        \/ RunLeaseLapses(i)
      \/ \E b \in Bots : ComputerLeaseLapses(b)
      \/ Age \/ UNCHANGED vars
<1>2. \/ \E p \in Procs : Quiet(p) \/ Bold(p) \/ Crash(p)
      \/ \E s \in env.sleepers : sleepComputerIfIdle(s) \/ SleepCrash(s)
      \/ \E k \in env.stoppers : stop(k)
      \/ World
  BY SplitSteps DEF Next
<1>3. Local'
  <2>1. World => Local'
    BY <1>1, WorldFacts, WorldKept DEF LInv
  <2> QED
    BY <1>1, <1>2, <2>1, QuietLocal, BoldLocal, CrashLocal, ClaimantLocal
<1>4. UNCHANGED env
  <2>1. \A p \in Procs : Quiet(p) \/ Bold(p) \/ Crash(p) => UNCHANGED env
    <3> SUFFICES ASSUME NEW p \in Procs, Quiet(p) \/ Bold(p) \/ Crash(p) PROVE UNCHANGED env
      OBVIOUS
    <3>1. Quiet(p) => UNCHANGED env
      BY <1>1, QuietSteps DEF Quietly
    <3>2. Bold(p) => UNCHANGED env
      BY DEF Bold, Provision, Activate, PrepareFails, rollbackProvisionedComputer, RecordFailure,
         ReplaceRechecks, ReplaceDestroys, ReplaceClears, Checkpoint, CheckpointEnds,
         ProvisionClaims, ReplaceClaims, Others
    <3> QED
      BY <3>1, <3>2 DEF Crash
  <2>2. \A s \in env.sleepers : sleepComputerIfIdle(s) \/ SleepCrash(s) => UNCHANGED env
    BY DEF sleepComputerIfIdle, SleepReads, SleepAsksRuns, SleepClaims, SleepCheckpoints,
       SleepRechecks, SleepStops, SleepRecords, SleepCrash, Rest
  <2>3. \A k \in env.stoppers : stop(k) => UNCHANGED env
    BY DEF stop, StopReads, StopClaims, StopRechecks, StopDeletesLeases, StopStops, StopRecords,
       Still
  <2>4. World => UNCHANGED env
    BY <1>1, WorldFacts DEF LInv
  <2> QED
    BY <1>2, <2>1, <2>2, <2>3, <2>4
<1>5. /\ NoStop' <=> NoStop
      /\ ByItself' <=> ByItself
      /\ SleepsByItself' <=> SleepsByItself
      /\ StopsByItself' <=> StopsByItself
  BY <1>4 DEF NoStop, ByItself, SleepsByItself, StopsByItself, NoReplace, ClaimedCheckpoints,
     OneRunAlone
<1>6. ASSUME crashes' = 0
      PROVE  /\ crashes = 0
             /\ \A p \in Procs : ~Crash(p)
             /\ \A s \in env.sleepers : ~SleepCrash(s)
  <2>1. crashes \in Nat
    BY <1>1, EnvFacts DEF LInv, TypeOK
  <2>2. (\A p \in Procs : ~Crash(p)) /\ (\A s \in env.sleepers : ~SleepCrash(s))
    BY <1>6, <2>1 DEF Crash, SleepCrash
  <2>3. UNCHANGED crashes
    <3>1. \A p \in Procs : Quiet(p) \/ Bold(p) => UNCHANGED crashes
      <4> SUFFICES ASSUME NEW p \in Procs, Quiet(p) \/ Bold(p) PROVE UNCHANGED crashes
        OBVIOUS
      <4>1. Quiet(p) => UNCHANGED crashes
        BY <1>1, QuietSteps DEF Quietly
      <4>2. Bold(p) => UNCHANGED crashes
        BY DEF Bold, Provision, Activate, PrepareFails, rollbackProvisionedComputer, RecordFailure,
           ReplaceRechecks, ReplaceDestroys, ReplaceClears, Checkpoint, CheckpointEnds,
           ProvisionClaims, ReplaceClaims, Others
      <4> QED
        BY <4>1, <4>2
    <3>2. \A s \in env.sleepers : sleepComputerIfIdle(s) => UNCHANGED crashes
      BY DEF sleepComputerIfIdle, SleepReads, SleepAsksRuns, SleepClaims, SleepCheckpoints,
         SleepRechecks, SleepStops, SleepRecords, Rest
    <3>3. \A k \in env.stoppers : stop(k) => UNCHANGED crashes
      BY DEF stop, StopReads, StopClaims, StopRechecks, StopDeletesLeases, StopStops, StopRecords,
         Still
    <3>4. World => UNCHANGED crashes
      BY <1>1, WorldFacts DEF LInv
    <3> QED
      BY <1>2, <2>2, <3>1, <3>2, <3>3, <3>4
  <2> QED
    BY <1>6, <2>2, <2>3
<1>7. ASSUME crashes' = 0, Patient PROVE SuspendFits'
  <2>1. SuspendFits
    BY <1>6, <1>7 DEF TInv, Patient
  <2>2. \A p \in Procs : Quiet(p) \/ Bold(p) => SuspendFits'
    BY <1>1, <1>7, <2>1, ProcSuspends
  <2>3. \A s \in env.sleepers : sleepComputerIfIdle(s) => SuspendFits'
    BY <1>1, <2>1, SleepSuspends
  <2>4. \A k \in env.stoppers : stop(k) => SuspendFits'
    <3> SUFFICES ASSUME NEW k \in env.stoppers, stop(k) PROVE SuspendFits'
      OBVIOUS
    <3>1. StopsByItself
      BY <1>7 DEF Patient, SleepsByItself, NoStop
    <3> QED
      BY <1>1, <2>1, <3>1, StopSuspends
  <2>5. World => SuspendFits'
    BY <1>1, <2>1, WorldFacts, WorldKept DEF LInv
  <2> QED
    BY <1>2, <1>6, <1>7, <2>2, <2>3, <2>4, <2>5
<1>8. ASSUME crashes' = 0, ByItself PROVE BootingFits'
  <2>1. BootingFits /\ NoStop /\ SInv /\ SInv'
    BY <1>1, <1>5, <1>6, <1>8 DEF TInv, ByItself
  <2>2. \A p \in Procs : Quiet(p) \/ Bold(p) => BootingFits'
    BY <1>1, <1>8, <2>1, ProcBoots
  <2>3. \A s \in env.sleepers : sleepComputerIfIdle(s) => BootingFits'
    BY <1>1, <2>1, SleepBoots
  <2>4. World => BootingFits'
    BY <1>1, <2>1, WorldFacts, WorldKept DEF LInv
  <2> QED
    BY <1>2, <1>6, <1>8, <2>1, <2>2, <2>3, <2>4 DEF NoStop
<1> QED
  BY <1>1, <1>3, <1>5, <1>7, <1>8 DEF TInv, Patient

LEMMA TInvHolds == Spec => []TInv
BY InitTInv, StepTInv, PTL DEF Spec

(* While nobody dies, a row in transition has somebody who will end the    *)
(* transition, and one execution provisions at a time: for any executions, *)
(* runs and sandboxes, where no stop or replacement comes between.         *)
THEOREM TransitionHeld == Spec => []TransitionIsHeld
BY TransitionsFollow, TInvHolds, PTL

(* While nobody dies, every sandbox that is up is the row's or is in the   *)
(* hands of an execution that will activate it or roll it back.            *)
THEOREM OrphanFree == Spec => []NoOrphan
BY TransitionsFollow, TInvHolds, PTL
=============================================================================
