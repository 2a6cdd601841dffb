------------------------ MODULE ComputerLocksProofs -------------------------
(***************************************************************************)
(* The locks of a computer, for any executions, runs, bots, sandboxes,     *)
(* requests and deaths: a suspending row has at most one holder, who knows *)
(* the stamp knows the row, a run is in its owner's hands, and everything  *)
(* has its type. The invariant is inductive whatever the settings.         *)
(***************************************************************************)
EXTENDS ComputerLifecycle, TLAPS

-----------------------------------------------------------------------------
(* The inductive invariant *)

(* What an execution does says what it is. *)
KindFits(p) ==
  /\ proc[p].pc # "idle" => env.kind[p] # "none"
  /\ proc[p].pc \in {"using", "checkpoint"} => env.kind[p] = "run"
  /\ proc[p].pc \in {"survey", "seize", "recheck", "destroy", "clear"} => env.kind[p] = "replace"
  /\ proc[p].pc = "checkpoint" => env.team /\ env.remote
KindsFit == \A p \in Procs : KindFits(p)

(* An execution that has begun its run holds its run lease, or the run has *)
(* been cancelled under it.                                                *)
Begun(p) == env.kind[p] = "run" /\ proc[p].pc \notin {"idle", "release"}
HasRun(p) ==
  \/ runs[env.run[p]].by = p /\ runs[env.run[p]].status = "live"
  \/ runs[env.run[p]].by = NoProc /\ runs[env.run[p]].status \in {"cancelled", "done"}
OwnersFit ==
  /\ \A i \in Ids, p \in Procs : runs[i].by = p => env.kind[p] = "run" /\ env.run[p] = i
  /\ \A p \in Procs : Begun(p) => HasRun(p)

(* Only a boot whose run is alive grows old. *)
AgedFits ==
  row.aged => /\ row.state = "booting"
              /\ \A p \in Procs : Booting(p) => runs[env.run[p]].by = p

(* Who knows the stamp knows the row, and an old boot that may be claimed  *)
(* has nobody at it and nobody working on it.                              *)
Waits(p) == proc[p].pc \in {"wait", "askAgain", "claim"}
NobodyBoots == \A q \in Procs : ~Booting(q)
NobodyWorks == \A q \in Procs : ~Works(q)
StampFits(p) ==
  p \in current =>
    /\ Booting(p) \/ Waits(p) \/ proc[p].pc \in {"ask", "seize", "requeue"}
    /\ Waits(p) \/ proc[p].pc = "ask" =>
         row.state = "booting" /\ row.aged /\ row.ref = proc[p].ref
    /\ Waits(p) => NobodyBoots /\ NobodyWorks
    /\ proc[p].pc = "seize" /\ row.state = "booting" => NobodyBoots
StampsFit == \A p \in Procs : StampFits(p)

(* Suspending is a lock: its holders. *)
ProcHolds(p) == proc[p].pc \in {"checkpoint", "recheck", "destroy", "clear"}
SleepHolds(s) == sleeper[s].pc \in {"checkpoint", "recheck", "stop", "record"}
StopHolds(k) == stopper[k].pc \in {"recheck", "delete", "stop", "record", "fail"}
HoldersSuspend ==
  /\ \A p \in Procs : ProcHolds(p) => row.state = "suspending"
  /\ \A s \in Sleepers : SleepHolds(s) => row.state = "suspending" /\ row.ref = sleeper[s].ref
  /\ \A k \in Stoppers : StopHolds(k) => row.state = "suspending"
HolderIsAlone ==
  /\ \A p, q \in Procs : ProcHolds(p) /\ ProcHolds(q) => p = q
  /\ \A s, t \in Sleepers : SleepHolds(s) /\ SleepHolds(t) => s = t
  /\ \A k, l \in Stoppers : StopHolds(k) /\ StopHolds(l) => k = l
  /\ \A p \in Procs, s \in Sleepers : ~(ProcHolds(p) /\ SleepHolds(s))
  /\ \A p \in Procs, k \in Stoppers : ~(ProcHolds(p) /\ StopHolds(k))
  /\ \A s \in Sleepers, k \in Stoppers : ~(SleepHolds(s) /\ StopHolds(k))

(* What a claim is about to match is no suspending row. *)
SeenFits(p) == proc[p].pc \in {"askAgain", "claim", "seize", "recheck"} => proc[p].seen # "suspending"
SeensFit == \A p \in Procs : SeenFits(p)

LInv ==
  /\ TypeOK /\ KindsFit /\ OwnersFit /\ AgedFits /\ StampsFit
  /\ HoldersSuspend /\ HolderIsAlone /\ SeensFit

-----------------------------------------------------------------------------
(* Facts about single values *)

LEMMA EnvFacts ==
  ASSUME TypeOK
  PROVE /\ env.fences \in Nat /\ env.crashes \in Nat /\ env.refs \subseteq Refs
        /\ env.kind \in [Procs -> {"run", "boot", "replace", "none"}]
        /\ env.run \in [Procs -> Ids] /\ env.bot \in [Procs -> Bots]
        /\ env.sleepers \subseteq Sleepers /\ env.stoppers \subseteq Stoppers
        /\ env.team \in BOOLEAN /\ env.remote \in BOOLEAN /\ env.recover \in BOOLEAN
        /\ NoRef \notin Refs /\ NoProc \notin Procs /\ NoProc \notin Ids
        /\ Procs \cap Sleepers = {}
BY ComputerAssumption DEF ComputerAssumption, TypeOK

LEMMA SameRun ==
  ASSUME TypeOK, NEW p \in Procs, NEW q \in Procs, env.kind[p] # "none", env.kind[q] # "none",
         env.run[p] = env.run[q], p # q
  PROVE env.kind[p] = "run" /\ env.kind[q] = "run"
BY ComputerAssumption DEF ComputerAssumption, TypeOK

LEMMA IdleFacts ==
  ASSUME TypeOK
  PROVE /\ Idle \in Execution /\ Idle.pc = "idle" /\ Idle.seen = "stopped" /\ Idle.ref = NoRef
        /\ Idle.got = NoRef /\ ~Idle.fresh /\ ~Idle.stuck
BY EnvFacts DEF Idle, Execution, Pcs, States, MaybeRef

(* A local record is kept but for the program counter, and begins anew. *)
LEMMA AtFacts ==
  ASSUME TypeOK, NEW p \in Procs, NEW pc \in Pcs
  PROVE /\ At(p, pc) \in Execution /\ At(p, pc).pc = pc
        /\ At(p, pc).seen = "stopped" /\ At(p, pc).ref = NoRef /\ At(p, pc).got = NoRef
        /\ ~At(p, pc).fresh /\ ~At(p, pc).stuck
        /\ LET v == [Idle EXCEPT !.pc = pc] IN
           v \in Execution /\ v.pc = pc /\ ~v.fresh /\ v.got = NoRef /\ ~v.stuck
        /\ LET v == [proc[p] EXCEPT !.pc = pc] IN
           /\ v \in Execution /\ v.pc = pc /\ v.seen = proc[p].seen /\ v.ref = proc[p].ref
           /\ v.got = proc[p].got /\ v.fresh = proc[p].fresh /\ v.stuck = proc[p].stuck
<1>1. ASSUME NEW v \in Execution, NEW f \in 0 .. env.fences
      PROVE  LET w == [v EXCEPT !.pc = pc, !.fence = f] IN
             w \in Execution /\ w.pc = pc /\ w.seen = v.seen /\ w.ref = v.ref
             /\ w.got = v.got /\ w.fresh = v.fresh /\ w.stuck = v.stuck
  BY DEF Execution
<1>2. ASSUME NEW v \in Execution
      PROVE  LET w == [v EXCEPT !.pc = pc] IN
             w \in Execution /\ w.pc = pc /\ w.seen = v.seen /\ w.ref = v.ref
             /\ w.got = v.got /\ w.fresh = v.fresh /\ w.stuck = v.stuck
  BY DEF Execution
<1>3. proc[p] \in Execution /\ proc[p].fence \in 0 .. env.fences
  BY DEF TypeOK, Execution
<1> QED
  BY <1>1, <1>2, <1>3, IdleFacts DEF At

LEMMA BecomesFacts ==
  ASSUME TypeOK, NEW p \in Procs, NEW v \in Execution, Becomes(p, v)
  PROVE  /\ proc' \in [Procs -> Execution]
         /\ \A q \in Procs \ {p} : proc'[q] = proc[q]
         /\ proc'[p] = v
BY DEF TypeOK, Becomes

LEMMA GoFacts ==
  ASSUME TypeOK, NEW p \in Procs, NEW pc \in Pcs, Go(p, pc)
  PROVE  /\ proc' \in [Procs -> Execution]
         /\ \A q \in Procs \ {p} : proc'[q] = proc[q]
         /\ proc'[p].pc = pc
         /\ pc \notin {"requeue", "release"} =>
              /\ proc'[p].seen = proc[p].seen /\ proc'[p].ref = proc[p].ref
              /\ proc'[p].got = proc[p].got /\ proc'[p].fresh = proc[p].fresh
              /\ proc'[p].stuck = proc[p].stuck
         /\ pc \in {"requeue", "release"} =>
              proc'[p].got = NoRef /\ ~proc'[p].fresh /\ ~proc'[p].stuck
<1> DEFINE v == IF pc \in {"requeue", "release"} THEN At(p, pc) ELSE [proc[p] EXCEPT !.pc = pc]
<1>1. /\ v \in Execution /\ v.pc = pc
      /\ pc \notin {"requeue", "release"} =>
           /\ v.seen = proc[p].seen /\ v.ref = proc[p].ref /\ v.got = proc[p].got
           /\ v.fresh = proc[p].fresh /\ v.stuck = proc[p].stuck
      /\ pc \in {"requeue", "release"} => v.got = NoRef /\ ~v.fresh /\ ~v.stuck
  <2>1. CASE pc \in {"requeue", "release"}
    BY <2>1, AtFacts
  <2>2. CASE pc \notin {"requeue", "release"}
    BY <2>2, AtFacts
  <2> QED
    BY <2>1, <2>2
<1>2. Becomes(p, v)
  BY DEF Go
<1> HIDE DEF v
<1> QED
  BY <1>1, <1>2, BecomesFacts

-----------------------------------------------------------------------------
(* The steps of one execution that write no row *)

Boxes == [Refs -> {"none", "up", "stopped", "gone"}]
Leases == [Bots -> Lease]
Steps(p) ==
  /\ proc' \in [Procs -> Execution]
  /\ \A q \in Procs \ {p} : proc'[q] = proc[q]

LEMMA MoveKept ==
  ASSUME LInv, NEW p \in Procs, Steps(p), UNCHANGED <<env, row, runs, sleeper, stopper>>,
         current' \subseteq current \cup {p}, box' \in Boxes, lease' \in Leases,
         crashes' \in 0 .. env.crashes,
         KindFits(p)', StampFits(p)', SeenFits(p)', Begun(p)' => Begun(p),
         Booting(p)' => Booting(p), ProcHolds(p)' => ProcHolds(p), Works(p)' => Works(p)
  PROVE  LInv'
<1> USE DEF Steps
<1>1. \A q \in Procs : /\ Booting(q)' => Booting(q)
                       /\ ProcHolds(q)' => ProcHolds(q)
                       /\ Works(q)' => Works(q)
                       /\ Begun(q)' => Begun(q)
  BY DEF Booting, ProcHolds, Works, Begun
<1>2. KindsFit' /\ SeensFit'
  BY DEF LInv, KindsFit, KindFits, SeensFit, SeenFits
<1>3. OwnersFit'
  BY <1>1 DEF LInv, OwnersFit, HasRun
<1>4. AgedFits'
  BY <1>1 DEF LInv, AgedFits
<1>5. StampsFit'
  BY <1>1 DEF LInv, StampsFit, StampFits, NobodyBoots, NobodyWorks, Booting, Waits
<1>6. HoldersSuspend' /\ HolderIsAlone'
  BY <1>1 DEF LInv, HoldersSuspend, HolderIsAlone, SleepHolds, StopHolds
<1>7. TypeOK'
  BY DEF LInv, TypeOK, Boxes, Leases, Lease, Row, RunRow, Execution, Sleep, StopRequest
<1> QED
  BY <1>2, <1>3, <1>4, <1>5, <1>6, <1>7 DEF LInv

(* Only an execution that boots, or waits to, knows the stamp. *)
LEMMA KnowsStamp ==
  ASSUME LInv, NEW p \in Procs, p \in current
  PROVE  proc[p].pc \in Provisioning \cup {"ask", "wait", "askAgain", "claim", "seize", "requeue"}
BY DEF LInv, StampsFit, StampFits, Booting, Waits

LEMMA Acquires ==
  ASSUME LInv, NEW p \in Procs,
         AcquireReads(p) \/ AcquireTakes(p) \/ AcquireValidates(p)
  PROVE  LInv'
<1> USE EnvFacts DEF LInv, Others, KeepRow
<1>1. PICK pc \in {"survey", "read", "requeue", "take", "validate", "undo"} :
        /\ Steps(p) /\ proc'[p].pc = pc
        /\ pc = "survey" => env.kind[p] = "replace"
        /\ lease' \in Leases
  <2>1. CASE AcquireReads(p)
    <3>1. PICK pc \in {"survey", "read", "requeue", "take"} : Go(p, pc) /\ (pc = "survey" => env.kind[p] = "replace")
      BY <2>1 DEF AcquireReads, ReplaceAt
    <3> QED
      BY <2>1, <3>1, GoFacts DEF Pcs, Steps, AcquireReads, TypeOK, Leases
  <2>2. CASE AcquireValidates(p)
    <3>1. PICK pc \in {"survey", "read", "undo"} : Go(p, pc) /\ (pc = "survey" => env.kind[p] = "replace")
      BY <2>2 DEF AcquireValidates, ReplaceAt
    <3> QED
      BY <2>2, <3>1, GoFacts DEF Pcs, Steps, AcquireValidates, TypeOK, Leases
  <2>3. CASE AcquireTakes(p)
    <3>1. CASE Go(p, "requeue") /\ UNCHANGED lease
      BY <2>3, <3>1, GoFacts DEF Pcs, Steps, TypeOK, Leases
    <3>2. CASE ~(Go(p, "requeue") /\ UNCHANGED lease)
      <4> DEFINE f == nextFence(lease[env.bot[p]].fence)
                 v == [proc[p] EXCEPT !.pc = "validate", !.fence = f]
      <4>1. f \in 0 .. env.fences /\ Becomes(p, v)
            /\ lease' = [lease EXCEPT ![env.bot[p]] = [run |-> env.run[p], fence |-> f, live |-> TRUE]]
        BY <2>3, <3>2 DEF AcquireTakes, nextFence, TypeOK, Lease
      <4>2. v \in Execution /\ v.pc = "validate"
        <5> HIDE DEF f
        <5>1. proc[p] \in Execution
          BY DEF TypeOK
        <5> QED
          BY <4>1, <5>1 DEF Execution, Pcs
      <4>3. lease' \in Leases
        BY <4>1 DEF TypeOK, Leases, Lease
      <4> HIDE DEF v, f
      <4> QED
        BY <4>1, <4>2, <4>3, BecomesFacts DEF Steps
    <3> QED
      BY <3>1, <3>2
  <2> QED
    BY <2>1, <2>2, <2>3
<1>2. /\ UNCHANGED <<env, row, current, runs, box, sleeper, stopper, crashes>>
      /\ proc[p].pc \in {"enter", "take", "validate"}
  BY DEF AcquireReads, AcquireTakes, AcquireValidates
<1>3. p \notin current
  BY <1>2, KnowsStamp DEF Provisioning
<1>4. KindFits(p)' /\ StampFits(p)' /\ SeenFits(p)'
  BY <1>1, <1>2, <1>3 DEF KindFits, StampFits, SeenFits, KindsFit
<1>5. /\ Begun(p)' => Begun(p)
      /\ Booting(p)' => Booting(p)
      /\ ProcHolds(p)' => ProcHolds(p)
      /\ Works(p)' => Works(p)
  BY <1>1, <1>2 DEF Begun, Booting, Provisioning, ProcHolds, Works
<1> QED
  BY <1>1, <1>2, <1>4, <1>5, MoveKept DEF TypeOK, Boxes

LEMMA Releases ==
  ASSUME LInv, NEW p \in Procs, releaseComputerExecutionLease(p)
  PROVE  LInv'
<1> USE EnvFacts DEF LInv, Others, KeepRow, releaseComputerExecutionLease
<1>1. PICK pc \in {"requeue", "idle"} :
        Steps(p) /\ proc'[p].pc = pc /\ (pc = "requeue" => proc[p].pc = "undo")
  <2> DEFINE u == [Idle EXCEPT !.pc = "requeue"]
  <2>1. u \in Execution /\ u.pc = "requeue"
    BY AtFacts DEF Pcs
  <2>2. CASE proc[p].pc = "undo"
    <3>1. Becomes(p, u)
      BY <2>2
    <3> HIDE DEF u
    <3> QED
      BY <2>1, <2>2, <3>1, BecomesFacts DEF Steps
  <2>3. CASE proc[p].pc # "undo"
    BY <2>3, IdleFacts, BecomesFacts DEF Steps
  <2> QED
    BY <2>2, <2>3
<1>2. lease' \in Leases
  <2>1. env.bot[p] \in Bots /\ lease[env.bot[p]] \in Lease
    BY DEF TypeOK
  <2>2. [lease[env.bot[p]] EXCEPT !.live = FALSE] \in Lease
    BY <2>1 DEF Lease
  <2> QED
    BY <2>1, <2>2 DEF TypeOK, Leases
<1>3. p \notin current
  BY KnowsStamp DEF Provisioning
<1>4. KindFits(p)' /\ StampFits(p)' /\ SeenFits(p)'
  BY <1>1, <1>3 DEF KindFits, StampFits, SeenFits, KindsFit
<1>5. /\ Begun(p)' => Begun(p)
      /\ Booting(p)' => Booting(p)
      /\ ProcHolds(p)' => ProcHolds(p)
      /\ Works(p)' => Works(p)
  BY <1>1 DEF Begun, Booting, Provisioning, ProcHolds, Works
<1> QED
  BY <1>1, <1>2, <1>4, <1>5, MoveKept DEF TypeOK, Boxes

-----------------------------------------------------------------------------
(* The steps of provisionComputer before the claim *)

(* Where the first read and the wait lead to. *)
LEMMA ReadLeads ==
  /\ row.state = "booting" => AfterRead = IF row.aged THEN "ask" ELSE "requeue"
  /\ row.state # "booting" => AfterRead = IF row.state = "suspending" THEN "wait" ELSE "claim"
<1>1. CASE row.state = "booting"
  BY <1>1, Zenon DEF AfterRead
<1>2. CASE row.state = "suspending"
  BY <1>2, Zenon DEF AfterRead
<1>3. CASE row.state \notin {"booting", "suspending"}
  <2>1. row.state # "booting" /\ row.state # "suspending"
    BY <1>3
  <2>2. AfterRead = "claim"
    BY <2>1, Zenon DEF AfterRead
  <2> QED
    BY <2>1, <2>2
<1> QED
  BY <1>1, <1>2, <1>3

LEMMA WaitLeads ==
  ASSUME NEW reclaim \in BOOLEAN
  PROVE  /\ AfterWait(reclaim) \in {"requeue", "askAgain", "claim"}
         /\ AfterWait(reclaim) # "requeue" => row.state # "suspending"
<1>1. CASE row.state = "booting"
  BY <1>1, Zenon DEF AfterWait
<1>2. CASE row.state = "suspending"
  BY <1>2, Zenon DEF AfterWait
<1>3. CASE row.state = "running"
  BY <1>3, Zenon DEF AfterWait
<1>4. CASE row.state \notin {"booting", "suspending", "running"}
  <2>1. row.state # "booting" /\ row.state # "suspending" /\ row.state # "running"
    BY <1>4
  <2>2. AfterWait(reclaim) = "claim"
    BY <2>1, Zenon DEF AfterWait
  <2> QED
    BY <2>1, <2>2
<1> QED
  BY <1>1, <1>2, <1>3, <1>4

LEMMA Reads ==
  ASSUME LInv, NEW p \in Procs, ProvisionReads(p)
  PROVE  LInv'
<1> USE EnvFacts DEF LInv, Others, KeepRow, ProvisionReads
<1> DEFINE v == [proc[p] EXCEPT !.seen = row.state, !.ref = row.ref,
                                !.reclaim = row.state = "booting", !.pc = AfterRead]
<1>1. /\ v \in Execution /\ v.pc = AfterRead /\ v.seen = row.state /\ v.ref = row.ref
      /\ AfterRead \in {"ask", "requeue", "wait", "claim"}
  <2>1. proc[p] \in Execution /\ row \in Row
    BY DEF TypeOK
  <2>2. AfterRead \in {"ask", "requeue", "wait", "claim"}
    BY <2>1, ReadLeads DEF Row
  <2> QED
    BY <2>1, <2>2 DEF Execution, Pcs, Row
<1>2. Becomes(p, v)
  OBVIOUS
<1> HIDE DEF v
<1>3. Steps(p) /\ proc'[p] = v
  BY <1>1, <1>2, BecomesFacts DEF Steps
<1>4. StampFits(p)'
  BY <1>1, <1>3, ReadLeads DEF StampFits, Waits, Booting, Provisioning
<1>5. KindFits(p)' /\ SeenFits(p)'
  BY <1>1, <1>3, ReadLeads DEF KindFits, SeenFits, KindsFit
<1>6. /\ Begun(p)' => Begun(p)
      /\ Booting(p)' => Booting(p)
      /\ ProcHolds(p)' => ProcHolds(p)
      /\ Works(p)' => Works(p)
  BY <1>1, <1>3 DEF Begun, Booting, Provisioning, ProcHolds, Works
<1> QED
  BY <1>3, <1>4, <1>5, <1>6, MoveKept DEF TypeOK, Boxes, Leases

(* Nobody boots or works under a boot that has grown old, if the only run  *)
(* alive is the one that asks.                                             *)
LEMMA OldBootIsLeft ==
  ASSUME LInv, NEW p \in Procs, row.aged, ~LiveForeignRun(p), Begun(p) \/ env.kind[p] # "run",
         env.kind[p] # "none", ~Booting(p), ~Works(p)
  PROVE  NobodyBoots /\ NobodyWorks
<1> SUFFICES ASSUME NEW q \in Procs, Booting(q) \/ Works(q) PROVE FALSE
  BY DEF NobodyBoots, NobodyWorks
<1>1. runs[env.run[q]].by = q
  BY DEF LInv, AgedFits, Works
<1>2. env.kind[q] = "run" /\ Begun(q) /\ env.run[q] \in Ids
  BY <1>1, EnvFacts DEF LInv, OwnersFit, Begun, Booting, Provisioning, Works
<1>3. runs[env.run[q]].status = "live"
  BY <1>1, <1>2, EnvFacts DEF LInv, OwnersFit, HasRun
<1>4. env.run[q] = env.run[p]
  BY <1>2, <1>3 DEF LiveForeignRun
<1>5. q # p
  OBVIOUS
<1>6. env.kind[p] = "run" /\ Begun(p)
  BY <1>2, <1>4, <1>5, SameRun DEF LInv
<1>7. runs[env.run[p]].by \in {p, NoProc}
  BY <1>6 DEF LInv, OwnersFit, HasRun
<1> QED
  BY <1>1, <1>4, <1>5, <1>7, EnvFacts DEF LInv

LEMMA AsksRuns ==
  ASSUME LInv, NEW p \in Procs, ProvisionAsksRuns(p)
  PROVE  LInv'
<1> USE EnvFacts DEF LInv, Others, KeepRow, ProvisionAsksRuns
<1>1. PICK pc \in {"requeue", "wait"} : Go(p, pc) /\ (pc = "wait" => ~LiveForeignRun(p))
  OBVIOUS
<1>2. /\ Steps(p) /\ proc'[p].pc = pc
      /\ pc = "wait" => proc'[p].ref = proc[p].ref
  BY <1>1, GoFacts DEF Steps, Pcs
<1>3. ~Booting(p) /\ ~Works(p) /\ env.kind[p] # "none" /\ (Begun(p) \/ env.kind[p] # "run")
  BY DEF Booting, Provisioning, Works, Begun, KindsFit, KindFits
<1>4. p \in current /\ pc = "wait" => NobodyBoots /\ NobodyWorks
  BY <1>1, <1>3, OldBootIsLeft DEF StampsFit, StampFits
<1>5. /\ Begun(p)' => Begun(p)
      /\ Booting(p)' => Booting(p)
      /\ ProcHolds(p)' => ProcHolds(p)
      /\ Works(p)' => Works(p)
  BY <1>1, <1>2 DEF Begun, Booting, Provisioning, ProcHolds, Works
<1>6. p \in current /\ pc = "wait" => NobodyBoots' /\ NobodyWorks'
  BY <1>2, <1>4, <1>5 DEF NobodyBoots, NobodyWorks, Steps, Booting, Works
<1>7. KindFits(p)' /\ StampFits(p)' /\ SeenFits(p)'
  BY <1>1, <1>2, <1>6 DEF KindFits, StampFits, SeenFits, KindsFit, StampsFit, Waits
<1> QED
  BY <1>1, <1>2, <1>5, <1>7, MoveKept DEF TypeOK, Boxes, Leases

LEMMA WaitsOn ==
  ASSUME LInv, NEW p \in Procs, ProvisionWaits(p) \/ ProvisionAsksRunsAgain(p)
  PROVE  LInv'
<1> USE EnvFacts DEF LInv, Others, KeepRow
<1>1. PICK pc \in {"requeue", "askAgain", "claim"} :
        /\ Steps(p) /\ proc'[p].pc = pc
        /\ p \in current /\ pc # "requeue" => proc'[p].ref = row.ref
        /\ pc # "requeue" => proc'[p].seen # "suspending"
  <2>1. CASE ProvisionWaits(p)
    <3> DEFINE pc == AfterWait(proc[p].reclaim)
               v == [proc[p] EXCEPT !.seen = row.state, !.ref = row.ref, !.pc = pc]
    <3>1. pc \in {"requeue", "askAgain", "claim"} /\ (pc # "requeue" => row.state # "suspending")
      BY WaitLeads DEF TypeOK, Execution
    <3>2. v \in Execution /\ v.pc = pc /\ v.seen = row.state /\ v.ref = row.ref
      <4> HIDE DEF pc
      <4>1. proc[p] \in Execution /\ row \in Row
        BY DEF TypeOK
      <4> QED
        BY <3>1, <4>1 DEF Execution, Pcs, Row
    <3>3. Becomes(p, v)
      BY <2>1 DEF ProvisionWaits
    <3> HIDE DEF v, pc
    <3> QED
      BY <3>1, <3>2, <3>3, BecomesFacts DEF Steps
  <2>2. CASE ProvisionAsksRunsAgain(p)
    <3>1. PICK pc \in {"requeue", "claim"} : Go(p, pc)
      BY <2>2 DEF ProvisionAsksRunsAgain
    <3>2. proc[p].seen # "suspending" /\ (p \in current => proc[p].ref = row.ref)
      BY <2>2 DEF ProvisionAsksRunsAgain, SeensFit, SeenFits, StampsFit, StampFits, Waits
    <3> QED
      BY <3>1, <3>2, GoFacts DEF Steps, Pcs
  <2> QED
    BY <2>1, <2>2
<1>2. /\ UNCHANGED <<env, row, current, runs, box, lease, sleeper, stopper, crashes>>
      /\ proc[p].pc \in {"wait", "askAgain"}
  BY DEF ProvisionWaits, ProvisionAsksRunsAgain
<1>3. /\ Begun(p)' => Begun(p)
      /\ Booting(p)' => Booting(p)
      /\ ProcHolds(p)' => ProcHolds(p)
      /\ Works(p)' => Works(p)
  BY <1>1, <1>2 DEF Begun, Booting, Provisioning, ProcHolds, Works
<1>4. KindFits(p)' /\ SeenFits(p)'
  BY <1>1, <1>2 DEF KindFits, SeenFits, KindsFit
<1>5. StampFits(p)'
  <2> SUFFICES ASSUME p \in current PROVE StampFits(p)'
    BY <1>2 DEF StampFits
  <2>1. NobodyBoots /\ NobodyWorks /\ row.state = "booting" /\ row.aged
    BY <1>2 DEF StampsFit, StampFits, Waits
  <2>2. NobodyBoots' /\ NobodyWorks'
    BY <1>1, <1>2, <1>3, <2>1 DEF NobodyBoots, NobodyWorks, Steps, Booting, Works
  <2> QED
    BY <1>1, <1>2, <2>1, <2>2 DEF StampFits, Waits
<1> QED
  BY <1>1, <1>2, <1>3, <1>4, <1>5, MoveKept DEF TypeOK, Boxes, Leases

-----------------------------------------------------------------------------
(* The steps of a boot that write no row, and those that give up *)

LEMMA BootKept ==
  ASSUME LInv, NEW p \in Procs, Steps(p),
         UNCHANGED <<env, row, current, runs, lease, sleeper, stopper, crashes>>, box' \in Boxes,
         proc[p].pc \notin {"idle", "release"}, proc'[p].pc \in Provisioning \cup {"requeue"},
         proc'[p].pc # "requeue" => Booting(p)
  PROVE  LInv'
<1>1. KindFits(p)' /\ SeenFits(p)'
  BY DEF LInv, KindsFit, KindFits, SeenFits, Provisioning
<1>2. StampFits(p)'
  BY DEF StampFits, Waits, Booting, Provisioning
<1>3. /\ Begun(p)' => Begun(p)
      /\ Booting(p)' => Booting(p)
      /\ ProcHolds(p)' => ProcHolds(p)
      /\ Works(p)' => Works(p)
  BY DEF Begun, Booting, Provisioning, ProcHolds, Works
<1> QED
  BY <1>1, <1>2, <1>3, MoveKept DEF LInv, TypeOK, Leases

(* An execution gives up its turn without a word. *)
LEMMA GivesUp ==
  ASSUME LInv, NEW p \in Procs, Go(p, "requeue"),
         UNCHANGED <<env, row, current, runs, box, lease, sleeper, stopper, crashes>>,
         proc[p].pc \notin {"idle", "release"}
  PROVE  LInv'
BY GoFacts, BootKept DEF LInv, TypeOK, Boxes, Steps, Pcs

LEMMA Provisions == ASSUME LInv, NEW p \in Procs, Provision(p) PROVE LInv'
<1> USE EnvFacts DEF LInv, Others, KeepRow, Provision
<1>1. Booting(p)
  BY DEF Booting, Provisioning
<1>2. CASE Go(p, "record") /\ UNCHANGED box
  BY <1>1, <1>2, GoFacts, BootKept DEF Steps, Pcs, Provisioning, TypeOK, Boxes
<1>3. CASE ~(Go(p, "record") /\ UNCHANGED box)
  <2>1. PICK ref \in Refs, fresh \in BOOLEAN :
          /\ box' = [box EXCEPT ![ref] = "up"]
          /\ Becomes(p, IF fresh THEN [proc[p] EXCEPT !.pc = "activate", !.got = ref, !.fresh = TRUE]
                        ELSE [proc[p] EXCEPT !.pc = "activate", !.got = ref])
    <3>1. CASE Exists(proc[p].ref)
      <4>1. proc[p].ref \in Refs
        BY <3>1 DEF Exists, TypeOK, Execution, MaybeRef
      <4> QED
        BY <1>3, <3>1, <4>1
    <3>2. CASE ~Exists(proc[p].ref)
      BY <1>3, <3>2
    <3> QED
      BY <3>1, <3>2
  <2> DEFINE v == IF fresh THEN [proc[p] EXCEPT !.pc = "activate", !.got = ref, !.fresh = TRUE]
                  ELSE [proc[p] EXCEPT !.pc = "activate", !.got = ref]
  <2>2. v \in Execution /\ v.pc = "activate"
    <3>1. proc[p] \in Execution
      BY DEF TypeOK
    <3> QED
      BY <3>1 DEF Execution, Pcs, Provisioning, MaybeRef
  <2>3. Becomes(p, v)
    BY <2>1
  <2>4. box' \in Boxes
    BY <2>1 DEF TypeOK, Boxes
  <2> HIDE DEF v
  <2>5. Steps(p) /\ proc'[p].pc = "activate"
    BY <2>2, <2>3, BecomesFacts DEF Steps
  <2> QED
    BY <1>1, <2>4, <2>5, BootKept DEF Provisioning
<1> QED
  BY <1>2, <1>3

LEMMA ActivateFails ==
  ASSUME LInv, NEW p \in Procs,
         \/ PrepareFails(p)
         \/ Activate(p) /\ ~ActivationMatches(p)
  PROVE  LInv'
<1> USE EnvFacts DEF LInv, Others, KeepRow
<1>1. /\ Booting(p) /\ UNCHANGED <<env, row, current, runs, box, lease, sleeper, stopper, crashes>>
      /\ proc[p].pc = "activate"
  BY DEF Booting, Provisioning, PrepareFails, Activate
<1>2. Steps(p) /\ proc'[p].pc = "rollback"
  <2>1. CASE PrepareFails(p)
    BY <2>1, GoFacts DEF Steps, Pcs, Provisioning, PrepareFails
  <2>2. CASE Activate(p) /\ ~ActivationMatches(p)
    <3> DEFINE v == [proc[p] EXCEPT !.pc = "rollback", !.busy = TRUE]
    <3>1. v \in Execution /\ v.pc = "rollback"
      <4>1. proc[p] \in Execution
        BY DEF TypeOK
      <4> QED
        BY ONLY <4>1 DEF Execution, Pcs, Provisioning
    <3>2. Becomes(p, v)
      BY <2>2 DEF Activate
    <3> HIDE DEF v
    <3> QED
      BY <3>1, <3>2, BecomesFacts DEF Steps
  <2> QED
    BY <2>1, <2>2
<1> QED
  BY <1>1, <1>2, BootKept DEF Provisioning, TypeOK, Boxes

LEMMA RollsBackKept ==
  ASSUME LInv, NEW p \in Procs, rollbackProvisionedComputer(p) PROVE LInv'
<1> USE EnvFacts DEF LInv, Others, KeepRow
<1>1. /\ Booting(p) /\ UNCHANGED <<env, row, current, runs, lease, sleeper, stopper, crashes>>
      /\ proc[p].pc = "rollback"
  BY DEF Booting, Provisioning, rollbackProvisionedComputer
<1>2. Steps(p) /\ proc'[p].pc = "record"
  <2>1. CASE Go(p, "record")
    BY <2>1, GoFacts DEF Steps, Pcs, Provisioning
  <2>2. CASE ~Go(p, "record")
    <3>1. PICK stuck \in BOOLEAN : Becomes(p, [proc[p] EXCEPT !.pc = "record", !.stuck = stuck])
      BY <2>2 DEF rollbackProvisionedComputer
    <3> DEFINE v == [proc[p] EXCEPT !.pc = "record", !.stuck = stuck]
    <3>2. v \in Execution /\ v.pc = "record"
      <4>1. proc[p] \in Execution
        BY DEF TypeOK
      <4> QED
        BY ONLY <4>1, stuck \in BOOLEAN DEF Execution, Pcs, Provisioning
    <3> HIDE DEF v
    <3>3. Becomes(p, v)
      BY <3>1 DEF v
    <3> QED
      BY <3>2, <3>3, BecomesFacts DEF Steps
  <2> QED
    BY <2>1, <2>2
<1>3. box' \in Boxes
  <2>1. Exists(proc[p].got) => proc[p].got \in Refs
    BY DEF Exists, TypeOK, Execution, MaybeRef
  <2> QED
    BY <2>1 DEF TypeOK, Boxes, rollbackProvisionedComputer
<1> QED
  BY <1>1, <1>2, <1>3, BootKept DEF Provisioning

-----------------------------------------------------------------------------
(* The steps of an execution that write the row *)

LEMMA WriteKept ==
  ASSUME LInv, NEW p \in Procs, Steps(p), UNCHANGED <<env, runs, lease, sleeper, stopper, crashes>>,
         box' \in Boxes, NEW state \in States, NEW ref \in MaybeRef, NEW knows \in SUBSET {p},
         Write(state, ref, knows),
         KindFits(p)', StampFits(p)', SeenFits(p)', Begun(p)' => Begun(p),
         row.state = "suspending" => (state = "suspending" /\ ref = row.ref) \/ ProcHolds(p),
         ProcHolds(p)' => state = "suspending" /\ (ProcHolds(p) \/ row.state # "suspending")
  PROVE  LInv'
<1>1. row' \in Row /\ row'.state = state /\ row'.ref = ref /\ ~row'.aged /\ current' = knows
  BY DEF Write, Row
<1>2. KindsFit' /\ SeensFit'
  BY DEF LInv, KindsFit, KindFits, SeensFit, SeenFits, Steps
<1>3. OwnersFit'
  BY DEF LInv, OwnersFit, HasRun, Begun, Steps
<1>4. AgedFits' /\ StampsFit'
  BY <1>1 DEF AgedFits, StampsFit, StampFits
<1>5. \A q \in Procs \ {p} : ProcHolds(q)' = ProcHolds(q)
  BY DEF Steps, ProcHolds
<1>6. HoldersSuspend'
  BY <1>1, <1>5 DEF LInv, HoldersSuspend, HolderIsAlone, SleepHolds, StopHolds
<1>7. HolderIsAlone'
  BY <1>1, <1>5 DEF LInv, HoldersSuspend, HolderIsAlone, SleepHolds, StopHolds
<1>8. TypeOK'
  BY <1>1, EnvFacts DEF LInv, TypeOK, Steps, Boxes, Lease, RunRow, Execution, Sleep, StopRequest
<1> QED
  BY <1>2, <1>3, <1>4, <1>6, <1>7, <1>8 DEF LInv

LEMMA RowFacts ==
  ASSUME TypeOK, NEW p \in Procs
  PROVE  /\ row.state \in States /\ row.ref \in MaybeRef /\ proc[p].seen \in States
         /\ proc[p].ref \in MaybeRef /\ proc[p].got \in MaybeRef /\ box \in Boxes
         /\ {"booting", "running", "suspending", "error", "stopped"} \subseteq States
         /\ NoRef \in MaybeRef
BY DEF TypeOK, Row, Execution, States, MaybeRef, Boxes

LEMMA Claims == ASSUME LInv, NEW p \in Procs, ProvisionClaims(p) PROVE LInv'
<1> USE EnvFacts, RowFacts DEF LInv, Others, ProvisionClaims
<1>1. CASE ~ClaimMatches(p)
  BY <1>1, GivesUp DEF KeepRow
<1>2. CASE ClaimMatches(p)
  <2>1. /\ Write("booting", row.ref, {p}) /\ Go(p, "provision")
        /\ row.state # "suspending"
    BY <1>2 DEF ClaimMatches, SeensFit, SeenFits
  <2>2. Steps(p) /\ proc'[p].pc = "provision"
    BY <2>1, GoFacts DEF Steps, Pcs, Provisioning
  <2>3. KindFits(p)' /\ SeenFits(p)' /\ StampFits(p)' /\ (Begun(p)' => Begun(p)) /\ ~ProcHolds(p)'
    BY <2>2 DEF KindFits, KindsFit, SeenFits, StampFits, Begun, Waits, Booting, Provisioning, ProcHolds
  <2> QED
    BY <2>1, <2>2, <2>3, WriteKept
<1> QED
  BY <1>1, <1>2

LEMMA Activates == ASSUME LInv, NEW p \in Procs, Activate(p) PROVE LInv'
<1> USE EnvFacts, RowFacts DEF LInv, Others, Activate
<1>1. CASE ~ActivationMatches(p)
  BY <1>1, ActivateFails
<1>2. CASE ActivationMatches(p)
  <2>1. Write("running", proc[p].got, {}) /\ row.state = "booting"
    BY <1>2 DEF ActivationMatches, Claimed
  <2>2. /\ Steps(p) /\ proc'[p].pc \in {"using", "release"}
        /\ proc'[p].pc = "using" => env.kind[p] = "run"
    <3>1. CASE env.kind[p] = "run"
      <4> DEFINE v == [At(p, "using") EXCEPT !.got = proc[p].got]
      <4>1. v \in Execution /\ v.pc = "using"
        <5>1. At(p, "using") \in Execution /\ At(p, "using").pc = "using" /\ proc[p].got \in MaybeRef
          <6>1. "using" \in Pcs
            BY DEF Pcs
          <6> QED
            BY ONLY <6>1, p \in Procs, TypeOK, AtFacts, RowFacts
        <5> QED
          BY ONLY <5>1 DEF Execution
      <4>2. Becomes(p, v)
        BY <1>2, <3>1
      <4> HIDE DEF v
      <4> QED
        BY <3>1, <4>1, <4>2, BecomesFacts DEF Steps
    <3>2. CASE env.kind[p] # "run"
      BY <1>2, <3>2, GoFacts DEF Steps, Pcs
    <3> QED
      BY <3>1, <3>2
  <2>3. KindFits(p)' /\ SeenFits(p)' /\ StampFits(p)' /\ (Begun(p)' => Begun(p)) /\ ~ProcHolds(p)'
    BY <2>1, <2>2 DEF KindFits, KindsFit, SeenFits, StampFits, Begun, ProcHolds, Write
  <2> QED
    BY <2>1, <2>2, <2>3, WriteKept
<1> QED
  BY <1>1, <1>2

LEMMA RecordsFailure == ASSUME LInv, NEW p \in Procs, RecordFailure(p) PROVE LInv'
<1> USE EnvFacts, RowFacts DEF LInv, Others, RecordFailure
<1>1. CASE ~Claimed(p)
  BY <1>1, GivesUp DEF KeepRow
<1>2. CASE Claimed(p)
  <2>1. PICK state \in States, ref \in MaybeRef : Write(state, ref, {})
    BY <1>2
  <2>2. row.state = "booting"
    BY <1>2 DEF Claimed
  <2>3. Steps(p) /\ proc'[p].pc = "requeue"
    BY GoFacts DEF Steps, Pcs
  <2>4. KindFits(p)' /\ SeenFits(p)' /\ StampFits(p)' /\ (Begun(p)' => Begun(p)) /\ ~ProcHolds(p)'
    BY <2>1, <2>3 DEF KindFits, KindsFit, SeenFits, StampFits, Begun, ProcHolds, Write
  <2> QED
    BY <2>1, <2>2, <2>3, <2>4, WriteKept
<1> QED
  BY <1>1, <1>2

LEMMA Checkpoints == ASSUME LInv, NEW p \in Procs, Checkpoint(p) PROVE LInv'
<1> USE EnvFacts, RowFacts DEF LInv, Others, Checkpoint
<1>1. CASE Recorded /\ UNCHANGED proc
  <2>1. Steps(p) /\ Write(row.state, row.ref, {})
    BY <1>1 DEF Steps, TypeOK, Recorded
  <2>2. KindFits(p)' /\ SeenFits(p)' /\ StampFits(p)' /\ (Begun(p)' => Begun(p)) /\ ~ProcHolds(p)'
    BY <1>1, <2>1 DEF KindFits, KindsFit, SeenFits, StampFits, Begun, ProcHolds, Write
  <2> QED
    BY <2>1, <2>2, WriteKept
<1>2. CASE ~(Recorded /\ UNCHANGED proc)
  <2>1. /\ Write("suspending", row.ref, {}) /\ Go(p, "checkpoint") /\ row.state = "running"
        /\ env.team /\ env.remote
    BY <1>2
  <2>2. Steps(p) /\ proc'[p].pc = "checkpoint"
    BY <2>1, GoFacts DEF Steps, Pcs
  <2>3. KindFits(p)' /\ SeenFits(p)' /\ StampFits(p)' /\ (Begun(p)' => Begun(p))
    BY <2>1, <2>2 DEF KindFits, KindsFit, SeenFits, StampFits, Begun, Write
  <2> QED
    BY <2>1, <2>2, <2>3, WriteKept
<1> QED
  BY <1>1, <1>2

LEMMA CheckpointsEnd == ASSUME LInv, NEW p \in Procs, CheckpointEnds(p) PROVE LInv'
<1> USE EnvFacts, RowFacts DEF LInv, Others, CheckpointEnds
<1>1. PICK state \in States : Write(state, row.ref, {})
  BY DEF Recorded
<1>2. Steps(p) /\ proc'[p].pc = "using"
  BY GoFacts DEF Steps, Pcs
<1>3. KindFits(p)' /\ SeenFits(p)' /\ StampFits(p)' /\ (Begun(p)' => Begun(p)) /\ ~ProcHolds(p)'
  BY <1>1, <1>2 DEF KindFits, KindsFit, SeenFits, StampFits, Begun, Write, ProcHolds
<1>4. ProcHolds(p)
  BY DEF ProcHolds
<1> QED
  BY <1>1, <1>2, <1>3, <1>4, WriteKept

-----------------------------------------------------------------------------
(* The runs *)

LEMMA RunsKept ==
  ASSUME LInv, UNCHANGED <<env, row, box, sleeper, stopper, crashes>>, current' \subseteq current,
         lease' \in Leases, runs' \in [Ids -> RunRow], proc' \in [Procs -> Execution],
         \A q \in Procs : \/ proc'[q] = proc[q]
                          \/ /\ q \notin current' /\ env.kind[q] # "none"
                             /\ proc'[q].pc \in {"enter", "release"},
         \A q \in Procs : Works(q)' => Works(q),
         OwnersFit', AgedFits'
  PROVE  LInv'
<1>1. \A q \in Procs : /\ Booting(q)' => Booting(q)
                       /\ ProcHolds(q)' => ProcHolds(q)
  BY DEF Booting, Provisioning, ProcHolds
<1>2. KindsFit' /\ SeensFit'
  BY DEF LInv, KindsFit, KindFits, SeensFit, SeenFits
<1>3. StampsFit'
  BY <1>1 DEF LInv, StampsFit, StampFits, NobodyBoots, NobodyWorks, Booting, Waits
<1>4. HoldersSuspend' /\ HolderIsAlone'
  BY <1>1 DEF LInv, HoldersSuspend, HolderIsAlone, SleepHolds, StopHolds
<1>5. TypeOK'
  BY DEF LInv, TypeOK, Leases, Lease, Row, Execution, Sleep, StopRequest
<1> QED
  BY <1>2, <1>3, <1>4, <1>5 DEF LInv

(* Two executions of one run, and one of them has it.                      *)
LEMMA OwnerIsAlone ==
  ASSUME LInv, NEW p \in Procs, runs[env.run[p]].by = p, NEW q \in Procs, Begun(q),
         env.run[q] = env.run[p]
  PROVE  q = p
BY EnvFacts DEF LInv, OwnersFit, HasRun

LEMMA Begins == ASSUME LInv, NEW p \in Procs, Begin(p) PROVE LInv'
<1> USE EnvFacts DEF LInv, Others, KeepRow
<1>1. /\ UNCHANGED <<env, row, current, box, lease, sleeper, stopper, crashes>>
      /\ proc[p].pc = "idle" /\ env.kind[p] # "none"
      /\ Becomes(p, [Idle EXCEPT !.pc = "enter"])
  BY DEF Begin
<1>2. Steps(p) /\ proc'[p].pc = "enter"
  <2> DEFINE v == [Idle EXCEPT !.pc = "enter"]
  <2>1. v \in Execution /\ v.pc = "enter"
    BY AtFacts DEF Pcs
  <2>2. Becomes(p, v)
    BY <1>1
  <2> HIDE DEF v
  <2> QED
    BY <2>1, <2>2, BecomesFacts DEF Steps
<1>3. p \notin current
  BY <1>1, KnowsStamp DEF Provisioning
<1>4. CASE env.kind[p] = "run"
  <2>1. /\ runs[env.run[p]].status \in {"queued", "lapsed"}
        /\ runs' = [runs EXCEPT ![env.run[p]] = [status |-> "live", by |-> p]]
    BY <1>4, Zenon DEF Begin
  <2>2. runs' \in [Ids -> RunRow]
    BY <2>1 DEF TypeOK, RunRow
  <2>3. \A q \in Procs : Begun(q) => env.run[q] # env.run[p]
    BY <2>1 DEF OwnersFit, HasRun
  <2>4. \A q \in Procs : /\ Booting(q)' => Booting(q) /\ q # p
                         /\ Works(q)' => Works(q)
    BY <1>1, <1>2, <2>1 DEF Steps, Booting, Provisioning, Works, TypeOK
  <2>5. OwnersFit'
    <3>1. \A i \in Ids, q \in Procs : runs'[i].by = q => env.kind[q] = "run" /\ env.run[q] = i
      BY <1>4, <2>1 DEF OwnersFit, TypeOK
    <3>2. ASSUME NEW q \in Procs, Begun(q)' PROVE HasRun(q)'
      <4>1. CASE q = p
        BY <1>1, <2>1, <4>1 DEF HasRun, TypeOK
      <4>2. CASE q # p
        <5>1. Begun(q)
          BY <1>1, <1>2, <3>2, <4>2 DEF Begun, Steps
        <5> QED
          BY <1>1, <2>1, <2>3, <5>1 DEF OwnersFit, HasRun, TypeOK
      <4> QED
        BY <4>1, <4>2
    <3> QED
      BY <1>1, <3>1, <3>2 DEF OwnersFit
  <2>6. AgedFits'
    <3>1. ASSUME row.aged, NEW q \in Procs, Booting(q)' PROVE runs'[env.run[q]].by = q
      <4>1. runs[env.run[q]].by = q /\ Booting(q)
        BY <2>4, <3>1 DEF AgedFits
      <4>2. Begun(q)
        BY <4>1 DEF OwnersFit, Begun, Booting, Provisioning
      <4> QED
        BY <2>1, <2>3, <4>1, <4>2 DEF TypeOK
    <3> QED
      BY <1>1, <3>1 DEF AgedFits
  <2> QED
    BY <1>1, <1>2, <1>3, <2>2, <2>4, <2>5, <2>6, RunsKept DEF Steps, TypeOK, Leases
<1>5. CASE env.kind[p] # "run"
  <2>1. UNCHANGED runs
    <3>1. CASE env.kind[p] = "boot"
      BY <1>5, <3>1, Zenon DEF Begin
    <3>2. CASE env.kind[p] # "boot"
      BY <1>5, <3>2, Zenon DEF Begin
    <3> QED
      BY <3>1, <3>2
  <2>2. /\ Begun(p)' => Begun(p)
        /\ Booting(p)' => Booting(p)
        /\ ProcHolds(p)' => ProcHolds(p)
        /\ Works(p)' => Works(p)
    BY <1>1, <1>2, <1>5 DEF Begun, Booting, Provisioning, ProcHolds, Works
  <2>3. KindFits(p)' /\ StampFits(p)' /\ SeenFits(p)'
    BY <1>1, <1>2, <1>3 DEF KindFits, StampFits, SeenFits
  <2> QED
    BY <1>1, <1>2, <2>1, <2>2, <2>3, MoveKept DEF TypeOK, Boxes, Leases
<1> QED
  BY <1>4, <1>5

(* An execution leaves its run, if it still has it, and the run's row.     *)
LEMMA RunIsLeft ==
  ASSUME LInv, NEW p \in Procs, Steps(p), proc'[p].pc = "release", env.kind[p] # "none",
         UNCHANGED <<env, row, box, lease, sleeper, stopper, crashes>>,
         current' \subseteq current, p \notin current',
         NEW status \in {"done", "queued"},
         runs' = IF runs[env.run[p]].by = p
                 THEN [runs EXCEPT ![env.run[p]] = [status |-> status, by |-> NoProc]]
                 ELSE runs
  PROVE  LInv'
<1> USE EnvFacts DEF LInv
<1>1. runs' \in [Ids -> RunRow]
  BY DEF TypeOK, RunRow
<1>2. \A q \in Procs : /\ Booting(q)' => Booting(q) /\ q # p
                       /\ Works(q)' => Works(q) /\ q # p
                       /\ Begun(q)' => Begun(q) /\ q # p
  BY DEF Steps, Booting, Provisioning, Works, TypeOK, Begun
<1>3. \A q \in Procs : Begun(q)' => runs'[env.run[q]] = runs[env.run[q]]
  BY <1>2, OwnerIsAlone DEF TypeOK
<1>4. OwnersFit'
  <2>1. \A i \in Ids, q \in Procs : runs'[i].by = q => env.kind[q] = "run" /\ env.run[q] = i
    BY DEF OwnersFit, TypeOK
  <2>2. \A q \in Procs : Begun(q)' => HasRun(q)'
    BY <1>2, <1>3 DEF OwnersFit, HasRun
  <2> QED
    BY <2>1, <2>2 DEF OwnersFit
<1>5. AgedFits'
  <2>1. ASSUME row.aged, NEW q \in Procs, Booting(q)' PROVE runs'[env.run[q]].by = q
    <3>1. runs[env.run[q]].by = q /\ Booting(q) /\ q # p
      BY <1>2, <2>1 DEF AgedFits
    <3>2. Begun(q)'
      BY <3>1 DEF OwnersFit, Begun, Booting, Provisioning, Steps
    <3> QED
      BY <1>3, <3>1, <3>2
  <2> QED
    BY <2>1 DEF AgedFits
<1> QED
  BY <1>1, <1>2, <1>4, <1>5, RunsKept DEF Steps, TypeOK, Leases

LEMMA Requeues == ASSUME LInv, NEW p \in Procs, Requeue(p) PROVE LInv'
<1> USE EnvFacts DEF LInv, Others, Requeue
<1>1. Steps(p) /\ proc'[p].pc = "release" /\ env.kind[p] # "none"
  BY GoFacts DEF Steps, Pcs, KindsFit, KindFits
<1>2. UNCHANGED <<env, row, box, lease, sleeper, stopper, crashes>> /\ current' = current \ {p}
  BY DEF Forget
<1> QED
  BY <1>1, <1>2, RunIsLeft

LEMMA Finishes == ASSUME LInv, NEW p \in Procs, Finish(p) PROVE LInv'
<1> USE EnvFacts DEF LInv, Others, KeepRow, Finish
<1>1. Steps(p) /\ proc'[p].pc = "release" /\ env.kind[p] # "none"
  BY GoFacts DEF Steps, Pcs, KindsFit, KindFits
<1>2. p \notin current
  BY KnowsStamp DEF Provisioning
<1>3. UNCHANGED <<env, row, current, box, lease, sleeper, stopper, crashes>>
  OBVIOUS
<1>4. PICK status \in {"done", "queued"} :
        runs' = IF runs[env.run[p]].by = p
                THEN [runs EXCEPT ![env.run[p]] = [status |-> status, by |-> NoProc]]
                ELSE runs
  BY Zenon
<1> QED
  BY <1>1, <1>2, <1>3, <1>4, RunIsLeft

(* The rows of the runs and of the leases change without their executions. *)
LEMMA RowsOfRuns ==
  ASSUME LInv, NEW i \in Ids,
         Create(i) \/ Cancel(i) \/ expireComputerExecutionLeases(i) \/ RunLeaseLapses(i)
  PROVE  LInv'
<1> USE EnvFacts DEF LInv, Others, KeepRow
<1>1. UNCHANGED <<env, row, current, box, proc, sleeper, stopper, crashes>>
  BY DEF Create, Cancel, expireComputerExecutionLeases, RunLeaseLapses
<1>2. /\ runs' \in [Ids -> RunRow]
      /\ \A j \in Ids \ {i} : runs'[j] = runs[j]
      /\ runs'[i].by \in {runs[i].by, NoProc}
  <2>1. PICK status \in {"queued", "cancelled", "done", "lapsed"} :
          \/ runs' = [runs EXCEPT ![i].status = status]
          \/ runs' = [runs EXCEPT ![i] = [status |-> status, by |-> NoProc]]
    BY DEF Create, Cancel, expireComputerExecutionLeases, RunLeaseLapses
  <2>2. runs \in [Ids -> RunRow]
    BY DEF TypeOK
  <2> QED
    BY ONLY <2>1, <2>2, i \in Ids DEF RunRow
<1>3. \A q \in Procs : Works(q)' => Works(q)
  BY <1>1, <1>2 DEF Works
<1>4. lease' \in Leases
  <2>1. CASE expireComputerExecutionLeases(i)
    <3>1. \A b \in Bots : [lease[b] EXCEPT !.live = lease[b].live /\ lease[b].run # i] \in Lease
      <4> TAKE b \in Bots
      <4>1. lease[b] \in Lease
        BY DEF TypeOK
      <4> QED
        BY ONLY <4>1 DEF Lease
    <3> QED
      BY <2>1, <3>1 DEF expireComputerExecutionLeases, Leases
  <2>2. CASE UNCHANGED lease
    BY <2>2 DEF TypeOK, Leases
  <2> QED
    BY <2>1, <2>2 DEF Create, Cancel, RunLeaseLapses
<1>5. OwnersFit'
  <2>1. \A j \in Ids, q \in Procs : runs'[j].by = q => env.kind[q] = "run" /\ env.run[q] = j
    BY <1>2 DEF OwnersFit
  <2>2. ASSUME NEW q \in Procs, Begun(q)' PROVE HasRun(q)'
    <3>1. Begun(q) /\ HasRun(q)
      BY <1>1, <2>2 DEF OwnersFit, Begun
    <3>2. CASE env.run[q] # i
      BY <1>1, <1>2, <3>1, <3>2 DEF HasRun
    <3>3. CASE env.run[q] = i
      <4>1. CASE Create(i)
        BY <3>1, <3>3, <4>1 DEF HasRun, Create
      <4>2. CASE Cancel(i)
        BY <1>1, <3>3, <4>2 DEF HasRun, Cancel, TypeOK
      <4>3. CASE expireComputerExecutionLeases(i)
        <5>1. runs'[i].status = "done" /\ runs'[i].by = runs[i].by
          BY <4>3 DEF expireComputerExecutionLeases, TypeOK, RunRow
        <5> QED
          BY <1>1, <3>1, <3>3, <4>3, <5>1 DEF HasRun, expireComputerExecutionLeases
      <4>4. CASE RunLeaseLapses(i)
        BY <3>1, <3>3, <4>4 DEF HasRun, RunLeaseLapses, Alive, Begun
      <4> QED
        BY <4>1, <4>2, <4>3, <4>4
    <3> QED
      BY <3>2, <3>3
  <2> QED
    BY <1>1, <2>1, <2>2 DEF OwnersFit
<1>6. AgedFits'
  <2>1. ASSUME row.aged, NEW q \in Procs, Booting(q)' PROVE runs'[env.run[q]].by = q
    <3>1. Booting(q) /\ runs[env.run[q]].by = q
      BY <1>1, <2>1 DEF AgedFits, Booting
    <3>2. CASE env.run[q] # i
      BY <1>2, <3>1, <3>2
    <3>3. CASE env.run[q] = i
      <4>1. ~Cancel(i)
        BY <2>1, <3>1, <3>3 DEF Cancel
      <4>2. runs'[i].by = runs[i].by
        BY <4>1 DEF Create, expireComputerExecutionLeases, RunLeaseLapses, TypeOK, RunRow
      <4> QED
        BY <3>1, <3>3, <4>2
    <3> QED
      BY <3>2, <3>3
  <2> QED
    BY <1>1, <2>1 DEF AgedFits
<1> QED
  BY <1>1, <1>2, <1>3, <1>4, <1>5, <1>6, RunsKept DEF TypeOK

LEMMA Crashes == ASSUME LInv, NEW p \in Procs, Crash(p) PROVE LInv'
<1> USE EnvFacts DEF LInv, Crash, Forget
<1>1. Steps(p) /\ proc'[p] = Idle
  BY IdleFacts, BecomesFacts DEF Steps
<1>2. /\ Begun(p)' => Begun(p)
      /\ Booting(p)' => Booting(p)
      /\ ProcHolds(p)' => ProcHolds(p)
      /\ Works(p)' => Works(p)
  BY <1>1, IdleFacts DEF Begun, Booting, Provisioning, ProcHolds, Works
<1>3. KindFits(p)' /\ StampFits(p)' /\ SeenFits(p)'
  BY <1>1, IdleFacts DEF KindFits, StampFits, SeenFits
<1>4. crashes' \in 0 .. env.crashes
  BY DEF TypeOK
<1> QED
  BY <1>1, <1>2, <1>3, <1>4, MoveKept DEF TypeOK, Boxes, Leases

LEMMA Lapses == ASSUME LInv, NEW b \in Bots, ComputerLeaseLapses(b) PROVE LInv'
<1> USE EnvFacts DEF LInv, ComputerLeaseLapses, Others, KeepRow
<1>1. lease' \in Leases
  <2>1. [lease[b] EXCEPT !.live = FALSE] \in Lease
    BY DEF TypeOK, Lease
  <2> QED
    BY <2>1 DEF TypeOK, Leases
<1>2. UNCHANGED <<env, row, current, box, runs, proc, sleeper, stopper, crashes>>
  OBVIOUS
<1>3. OwnersFit' /\ AgedFits' /\ \A q \in Procs : Works(q)' = Works(q)
  BY <1>2 DEF OwnersFit, HasRun, Begun, AgedFits, Booting, Works
<1> QED
  BY <1>1, <1>2, <1>3, RunsKept DEF TypeOK

LEMMA Ages == ASSUME LInv, Age PROVE LInv'
<1> USE EnvFacts DEF LInv, Age, Others
<1>1. /\ UNCHANGED <<env, current, box, lease, runs, proc, sleeper, stopper, crashes>>
      /\ row' \in Row /\ row'.state = row.state /\ row'.ref = row.ref /\ row.state = "booting"
  BY DEF TypeOK, Row
<1>2. AgedFits'
  BY <1>1 DEF AgedFits, Booting
<1>3. StampsFit'
  BY <1>1 DEF StampsFit, StampFits, Booting, Waits, NobodyBoots, NobodyWorks, Works
<1>4. KindsFit' /\ OwnersFit' /\ SeensFit' /\ HoldersSuspend' /\ HolderIsAlone'
  BY <1>1 DEF KindsFit, KindFits, OwnersFit, HasRun, Begun, SeensFit, SeenFits, HoldersSuspend,
              HolderIsAlone, ProcHolds, SleepHolds, StopHolds
<1>5. TypeOK'
  BY <1>1 DEF TypeOK, Lease, RunRow, Execution, Sleep, StopRequest
<1> QED
  BY <1>2, <1>3, <1>4, <1>5

-----------------------------------------------------------------------------
(* The steps of replaceComputer *)

LEMMA Surveys == ASSUME LInv, NEW p \in Procs, ReplaceSurveys(p) PROVE LInv'
<1> USE EnvFacts DEF LInv, Others, KeepRow, ReplaceSurveys
<1>1. CASE Go(p, "requeue") /\ UNCHANGED current
  BY <1>1, GivesUp
<1>2. CASE ~(Go(p, "requeue") /\ UNCHANGED current)
  <2> DEFINE v == [proc[p] EXCEPT !.pc = "seize", !.seen = row.state, !.ref = row.ref]
  <2>1. /\ Becomes(p, v) /\ current' = current \cup {p} /\ row.state # "suspending"
        /\ row.state = "booting" => row.aged /\ ~\E i \in Ids : Active(i)
    BY <1>2
  <2>2. v \in Execution /\ v.pc = "seize" /\ v.seen = row.state
    <3>1. proc[p] \in Execution /\ row \in Row
      BY DEF TypeOK
    <3> QED
      BY ONLY <3>1 DEF Execution, Pcs, Row
  <2> HIDE DEF v
  <2>3. Steps(p) /\ proc'[p] = v
    BY <2>1, <2>2, BecomesFacts DEF Steps
  <2>4. row.state = "booting" => NobodyBoots
    <3> SUFFICES ASSUME row.state = "booting", NEW q \in Procs, Booting(q) PROVE FALSE
      BY DEF NobodyBoots
    <3>1. runs[env.run[q]].by = q
      BY <2>1 DEF AgedFits
    <3>2. Begun(q) /\ env.run[q] \in Ids
      BY <3>1 DEF OwnersFit, Begun, Booting, Provisioning
    <3>3. runs[env.run[q]].status = "live"
      BY <3>1, <3>2 DEF OwnersFit, HasRun
    <3> QED
      BY <2>1, <3>2, <3>3 DEF Active
  <2>5. /\ Begun(p)' => Begun(p)
        /\ ~Booting(p)' /\ ~ProcHolds(p)' /\ ~Works(p)'
    BY <2>2, <2>3 DEF Begun, Booting, Provisioning, ProcHolds, Works
  <2>6. StampFits(p)'
    <3>1. row.state = "booting" => NobodyBoots'
      BY <2>3, <2>4, <2>5 DEF NobodyBoots, Steps, Booting
    <3> QED
      BY <2>2, <2>3, <3>1 DEF StampFits, Waits
  <2>7. KindFits(p)' /\ SeenFits(p)'
    BY <2>1, <2>2, <2>3 DEF KindFits, SeenFits, KindsFit
  <2> QED
    BY <2>1, <2>3, <2>5, <2>6, <2>7, MoveKept DEF TypeOK, Boxes, Leases
<1> QED
  BY <1>1, <1>2

LEMMA Seizes == ASSUME LInv, NEW p \in Procs, ReplaceClaims(p) PROVE LInv'
<1> USE EnvFacts, RowFacts DEF LInv, Others, ReplaceClaims
<1>1. CASE Write("suspending", row.ref, {}) /\ Go(p, "recheck") /\ row.state = proc[p].seen
  <2>1. row.state # "suspending"
    BY <1>1 DEF SeensFit, SeenFits
  <2>2. Steps(p) /\ proc'[p].pc = "recheck" /\ proc'[p].seen = proc[p].seen
    BY <1>1, GoFacts DEF Steps, Pcs
  <2>3. KindFits(p)' /\ SeenFits(p)' /\ StampFits(p)' /\ (Begun(p)' => Begun(p))
    BY <1>1, <2>1, <2>2 DEF KindFits, KindsFit, SeenFits, StampFits, Begun, Write
  <2> QED
    BY <1>1, <2>1, <2>2, <2>3, WriteKept
<1>2. CASE KeepRow /\ Go(p, "requeue")
  BY <1>2, GivesUp DEF KeepRow
<1> QED
  BY <1>1, <1>2

LEMMA SeizedKept ==
  ASSUME LInv, NEW p \in Procs, Steps(p), ProcHolds(p), env.kind[p] = "replace",
         UNCHANGED <<env, row, current, runs, lease, sleeper, stopper, crashes>>, box' \in Boxes,
         proc'[p].pc \in {"destroy", "clear"}
  PROVE  LInv'
<1>1. p \notin current
  BY KnowsStamp DEF ProcHolds, Provisioning
<1>2. /\ ~Begun(p)' /\ ~Booting(p)' /\ ~Works(p)'
      /\ KindFits(p)' /\ StampFits(p)' /\ SeenFits(p)'
  BY <1>1 DEF Begun, Booting, Provisioning, Works, KindFits, StampFits, SeenFits
<1> QED
  BY <1>2, MoveKept DEF LInv, TypeOK, Leases

LEMMA SeizedWriteKept ==
  ASSUME LInv, NEW p \in Procs, Steps(p), ProcHolds(p), env.kind[p] = "replace",
         UNCHANGED <<env, runs, lease, sleeper, stopper, crashes>>, box' \in Boxes,
         NEW state \in States, NEW ref \in MaybeRef, Write(state, ref, {}),
         \/ proc'[p].pc \in {"requeue", "read"}
         \/ proc'[p].pc = "clear" /\ state = "suspending"
  PROVE  LInv'
<1>1. /\ ~Begun(p)' /\ KindFits(p)' /\ StampFits(p)' /\ SeenFits(p)'
      /\ ProcHolds(p)' => state = "suspending"
  BY DEF Begun, KindFits, StampFits, SeenFits, ProcHolds, Write
<1> QED
  BY <1>1, WriteKept

LEMMA Rechecks == ASSUME LInv, NEW p \in Procs, ReplaceRechecks(p) PROVE LInv'
<1> USE EnvFacts, RowFacts DEF LInv, Others, ReplaceRechecks
<1>1. ProcHolds(p) /\ env.kind[p] = "replace" /\ proc[p].pc = "recheck" /\ row.state = "suspending"
  BY DEF ProcHolds, KindsFit, KindFits, HoldersSuspend
<1>2. CASE Go(p, "requeue")
  BY <1>1, <1>2, GoFacts, SeizedWriteKept DEF Steps, Pcs
<1>3. CASE Go(p, "destroy") /\ KeepRow
  BY <1>1, <1>3, GoFacts, SeizedKept DEF Steps, Pcs, KeepRow
<1> QED
  BY <1>1, <1>2, <1>3

LEMMA Destroys == ASSUME LInv, NEW p \in Procs, ReplaceDestroys(p) PROVE LInv'
<1> USE EnvFacts, RowFacts DEF LInv, Others, ReplaceDestroys
<1>1. ProcHolds(p) /\ env.kind[p] = "replace" /\ row.state = "suspending"
  BY DEF ProcHolds, KindsFit, KindFits, HoldersSuspend
<1>2. box' \in Boxes
  BY DEF Exists, Boxes
<1>3. UNCHANGED <<env, runs, lease, sleeper, stopper, crashes>>
  OBVIOUS
<1>4. CASE Go(p, "clear") /\ (KeepRow \/ Recorded)
  <2>1. Steps(p) /\ proc'[p].pc = "clear"
    BY <1>4, GoFacts DEF Steps, Pcs
  <2>2. CASE KeepRow
    BY <1>1, <1>2, <1>3, <2>1, <2>2, SeizedKept DEF KeepRow
  <2>3. CASE Recorded
    BY <1>1, <1>2, <1>3, <2>1, <2>3, SeizedWriteKept DEF Recorded
  <2> QED
    BY <1>4, <2>2, <2>3
<1>5. CASE Write("error", row.ref, {}) /\ Go(p, "requeue")
  BY <1>1, <1>2, <1>3, <1>5, GoFacts, SeizedWriteKept DEF Steps, Pcs
<1> QED
  BY <1>4, <1>5

LEMMA Clears == ASSUME LInv, NEW p \in Procs, ReplaceClears(p) PROVE LInv'
<1> USE EnvFacts, RowFacts DEF LInv, Others, ReplaceClears
<1>1. ProcHolds(p) /\ env.kind[p] = "replace"
  BY DEF ProcHolds, KindsFit, KindFits
<1>2. Steps(p) /\ proc'[p].pc = "read"
  <2>1. At(p, "read") \in Execution /\ At(p, "read").pc = "read"
    <3>1. "read" \in Pcs
      BY DEF Pcs
    <3> QED
      BY ONLY <3>1, p \in Procs, TypeOK, AtFacts
  <2> QED
    BY <2>1, BecomesFacts DEF Steps
<1> QED
  BY <1>1, <1>2, SeizedWriteKept

-----------------------------------------------------------------------------
(* sleepComputerIfIdle and the stop request *)

(* The holders of the row after a step of an execution that sleeps the     *)
(* computer or stops it.                                                   *)
LEMMA SleepsAlone ==
  ASSUME LInv, NEW s \in Sleepers, UNCHANGED <<proc, stopper>>,
         \A t \in Sleepers \ {s} : sleeper'[t] = sleeper[t],
         \/ row' = row
         \/ SleepHolds(s) \/ row.state # "suspending",
         SleepHolds(s)' => /\ row'.state = "suspending" /\ row'.ref = sleeper'[s].ref
                           /\ SleepHolds(s) \/ row.state # "suspending"
  PROVE  HoldersSuspend' /\ HolderIsAlone'
<1>1. \A t \in Sleepers \ {s} : SleepHolds(t)' = SleepHolds(t)
  BY DEF SleepHolds
<1>2. /\ \A p \in Procs : ProcHolds(p)' = ProcHolds(p)
      /\ \A k \in Stoppers : StopHolds(k)' = StopHolds(k)
  BY DEF ProcHolds, StopHolds
<1>3. HolderIsAlone'
  BY <1>1, <1>2 DEF LInv, HolderIsAlone, HoldersSuspend
<1>4. HoldersSuspend'
  BY <1>1, <1>2 DEF LInv, HolderIsAlone, HoldersSuspend
<1> QED
  BY <1>3, <1>4

LEMMA StopsAlone ==
  ASSUME LInv, NEW k \in Stoppers, UNCHANGED <<proc, sleeper>>,
         \A l \in Stoppers \ {k} : stopper'[l] = stopper[l],
         \/ row' = row
         \/ StopHolds(k) \/ row.state # "suspending",
         StopHolds(k)' => /\ row'.state = "suspending"
                          /\ StopHolds(k) \/ row.state # "suspending"
  PROVE  HoldersSuspend' /\ HolderIsAlone'
<1>1. \A l \in Stoppers \ {k} : StopHolds(l)' = StopHolds(l)
  BY DEF StopHolds
<1>2. /\ \A p \in Procs : ProcHolds(p)' = ProcHolds(p)
      /\ \A s \in Sleepers : SleepHolds(s)' = SleepHolds(s)
  BY DEF ProcHolds, SleepHolds
<1>3. HolderIsAlone'
  BY <1>1, <1>2 DEF LInv, HolderIsAlone, HoldersSuspend
<1>4. HoldersSuspend'
  BY <1>1, <1>2 DEF LInv, HolderIsAlone, HoldersSuspend
<1> QED
  BY <1>3, <1>4

(* What is left of the invariant where no execution of continueRun, no     *)
(* boot by hand and no replacement takes part.                             *)
LEMMA OutsideKept ==
  ASSUME LInv, UNCHANGED <<env, runs, proc>>,
         sleeper' \in [Sleepers -> Sleep], stopper' \in [Stoppers -> StopRequest],
         box' \in Boxes, lease' \in Leases, crashes' \in 0 .. env.crashes,
         \/ row' = row /\ current' \subseteq current \cup Sleepers
         \/ row' \in Row /\ ~row'.aged /\ current' \subseteq Sleepers,
         HoldersSuspend', HolderIsAlone'
  PROVE  LInv'
<1> USE EnvFacts DEF LInv
<1>1. KindsFit' /\ OwnersFit' /\ SeensFit'
  BY DEF KindsFit, KindFits, OwnersFit, HasRun, Begun, SeensFit, SeenFits
<1>2. AgedFits'
  BY DEF AgedFits, Booting
<1>3. StampsFit'
  BY DEF StampsFit, StampFits, Booting, Waits, NobodyBoots, NobodyWorks, Works
<1>4. TypeOK'
  BY DEF TypeOK, Boxes, Leases, Lease, Row, RunRow, Execution, Sleep, StopRequest
<1> QED
  BY <1>1, <1>2, <1>3, <1>4

LEMMA SleepsFacts ==
  ASSUME TypeOK, NEW s \in Sleepers,
         NEW pc \in {"idle", "runs", "claim", "checkpoint", "recheck", "stop", "record"},
         Sleeps(s, pc)
  PROVE  /\ sleeper' \in [Sleepers -> Sleep]
         /\ \A t \in Sleepers \ {s} : sleeper'[t] = sleeper[t]
         /\ sleeper'[s].pc = pc
         /\ pc # "idle" => sleeper'[s].ref = sleeper[s].ref
BY DEF TypeOK, Sleeps, Sleep, MaybeRef

LEMMA SleepSteps ==
  ASSUME LInv, NEW s \in env.sleepers, sleepComputerIfIdle(s) \/ SleepCrash(s)
  PROVE  LInv'
<1> USE EnvFacts DEF LInv
<1> DEFINE Kept == /\ sleeper' \in [Sleepers -> Sleep]
                   /\ \A t \in Sleepers \ {s} : sleeper'[t] = sleeper[t]
           Written(state, knows) ==
             row' = [state |-> state, ref |-> row.ref, aged |-> FALSE] /\ current' = knows
           Left == UNCHANGED row /\ current' \subseteq current
<1>1. s \in Sleepers /\ UNCHANGED <<env, runs, proc, stopper, lease>>
      /\ lease' \in Leases /\ stopper' \in [Stoppers -> StopRequest]
      /\ crashes' \in 0 .. env.crashes
  <2>1. UNCHANGED <<env, runs, proc, stopper, lease>> /\ crashes' \in {crashes, crashes + 1}
        /\ (crashes' # crashes => crashes < env.crashes)
    BY DEF sleepComputerIfIdle, SleepReads, SleepAsksRuns, SleepClaims, SleepCheckpoints,
           SleepRechecks, SleepStops, SleepRecords, Rest, SleepCrash
  <2> QED
    BY <2>1 DEF TypeOK, Leases
<1>2. box' \in Boxes /\ row \in Row /\ row.ref \in MaybeRef
  BY DEF sleepComputerIfIdle, SleepReads, SleepAsksRuns, SleepClaims, SleepCheckpoints,
         SleepRechecks, SleepStops, SleepRecords, SleepCrash, TypeOK, Boxes, Row, Exists
<1>3. /\ Ignores(s) => Left /\ Sleeps(s, "idle")
      /\ Wakes(s) => Left \/ Written("running", {})
  <2>1. Forget(s) => Left
    BY DEF Forget
  <2>2. Write("running", row.ref, {}) => Written("running", {})
    BY DEF Write
  <2> QED
    BY <2>1, <2>2, Zenon DEF Ignores, Wakes
<1>4. CASE Left /\ Sleeps(s, "idle")
  <2>1. Kept /\ ~SleepHolds(s)'
    BY <1>1, <1>4, SleepsFacts DEF SleepHolds
  <2>2. HoldersSuspend' /\ HolderIsAlone'
    BY <1>1, <1>4, <2>1, SleepsAlone
  <2> QED
    BY <1>1, <1>2, <1>4, <2>1, <2>2, OutsideKept
<1>5. ASSUME NEW state \in {"running", "suspended"}, Written(state, {}), SleepHolds(s),
             Sleeps(s, "idle")
      PROVE  LInv'
  <2>1. Kept /\ ~SleepHolds(s)'
    BY <1>1, <1>5, SleepsFacts DEF SleepHolds
  <2>2. row' \in Row /\ ~row'.aged
    BY <1>2, <1>5 DEF Row, States
  <2>3. HoldersSuspend' /\ HolderIsAlone'
    BY <1>1, <1>5, <2>1, SleepsAlone
  <2> QED
    BY <1>1, <1>2, <1>5, <2>1, <2>2, <2>3, OutsideKept
<1>6. ASSUME NEW pc \in {"claim", "recheck", "stop", "record"}, UNCHANGED <<row, current>>,
             Sleeps(s, pc), pc # "claim" => SleepHolds(s)
      PROVE  LInv'
  <2>1. Kept /\ (SleepHolds(s)' => SleepHolds(s) /\ sleeper'[s].ref = sleeper[s].ref)
    BY <1>1, <1>6, SleepsFacts DEF SleepHolds
  <2>2. HoldersSuspend' /\ HolderIsAlone'
    BY <1>1, <1>6, <2>1, SleepsAlone DEF HoldersSuspend
  <2> QED
    BY <1>1, <1>2, <1>6, <2>1, <2>2, OutsideKept
<1>7. CASE SleepReads(s)
  <2>1. Kept /\ ~SleepHolds(s)'
    BY <1>1, <1>2, <1>7 DEF SleepReads, TypeOK, Sleep, SleepHolds
  <2>2. UNCHANGED row /\ current' = current \cup {s}
    BY <1>7 DEF SleepReads
  <2>3. HoldersSuspend' /\ HolderIsAlone'
    BY <1>1, <2>1, <2>2, SleepsAlone
  <2> QED
    BY <1>1, <1>2, <2>1, <2>2, <2>3, OutsideKept
<1>8. CASE SleepAsksRuns(s)
  BY <1>3, <1>4, <1>6, <1>8 DEF SleepAsksRuns, KeepRow
<1>9. CASE SleepClaims(s)
  <2>1. CASE Ignores(s)
    BY <1>3, <1>4, <2>1
  <2>2. CASE SleepMatches(s) /\ Write("suspending", row.ref, {s}) /\ Sleeps(s, "checkpoint")
    <3>1. /\ Written("suspending", {s}) /\ row.state = "running" /\ row.ref = sleeper[s].ref
      BY <2>2 DEF Write, SleepMatches
    <3>2. Kept /\ sleeper'[s].ref = sleeper[s].ref
      BY <1>1, <2>2, SleepsFacts
    <3>3. row' \in Row /\ ~row'.aged /\ row'.state = "suspending" /\ row'.ref = row.ref
      BY <1>2, <3>1 DEF Row, States
    <3>4. HoldersSuspend' /\ HolderIsAlone'
      BY <1>1, <3>1, <3>2, <3>3, SleepsAlone
    <3> QED
      BY <1>1, <1>2, <3>1, <3>2, <3>3, <3>4, OutsideKept
  <2> QED
    BY <1>9, <2>1, <2>2 DEF SleepClaims
<1>10. CASE SleepCheckpoints(s)
  <2>1. SleepHolds(s)
    BY <1>10 DEF SleepCheckpoints, SleepHolds
  <2> QED
    BY <1>3, <1>4, <1>5, <1>6, <1>10, <2>1 DEF SleepCheckpoints, KeepRow
<1>11. CASE SleepRechecks(s)
  <2>1. SleepHolds(s)
    BY <1>11 DEF SleepRechecks, SleepHolds
  <2> QED
    BY <1>3, <1>4, <1>5, <1>6, <1>11, <2>1 DEF SleepRechecks, KeepRow
<1>12. CASE SleepStops(s)
  <2>1. SleepHolds(s)
    BY <1>12 DEF SleepStops, SleepHolds
  <2> QED
    BY <1>3, <1>4, <1>5, <1>6, <1>12, <2>1 DEF SleepStops, KeepRow
<1>13. CASE SleepRecords(s)
  <2>1. SleepHolds(s)
    BY <1>13 DEF SleepRecords, SleepHolds
  <2>2. Left \/ Written("suspended", {})
    BY <1>13 DEF SleepRecords, Forget, Write
  <2> QED
    BY <1>4, <1>5, <1>13, <2>1, <2>2 DEF SleepRecords
<1>14. CASE SleepCrash(s)
  BY <1>3, <1>4, <1>14 DEF SleepCrash
<1> QED
  BY <1>7, <1>8, <1>9, <1>10, <1>11, <1>12, <1>13, <1>14 DEF sleepComputerIfIdle

LEMMA StopSteps == ASSUME LInv, NEW k \in env.stoppers, stop(k) PROVE LInv'
<1> USE EnvFacts DEF LInv
<1> DEFINE Kept(pc) == /\ stopper' \in [Stoppers -> StopRequest]
                       /\ \A l \in Stoppers \ {k} : stopper'[l] = stopper[l]
                       /\ stopper'[k].pc = pc
           Written(state) ==
             row' = [state |-> state, ref |-> row.ref, aged |-> FALSE] /\ current' = {}
<1>1. k \in Stoppers /\ UNCHANGED <<env, runs, proc, sleeper, crashes>>
      /\ sleeper' \in [Sleepers -> Sleep] /\ crashes' \in 0 .. env.crashes
  <2>1. UNCHANGED <<env, runs, proc, sleeper, crashes>>
    BY DEF stop, StopReads, StopClaims, StopRechecks, StopDeletesLeases, StopStops, StopRecords,
           Still
  <2> QED
    BY <2>1 DEF TypeOK
<1>2. box' \in Boxes /\ row \in Row /\ row.ref \in MaybeRef /\ stopper[k] \in StopRequest
  BY DEF stop, StopReads, StopClaims, StopRechecks, StopDeletesLeases, StopStops, StopRecords,
         TypeOK, Boxes, Row, Exists
<1>3. lease' \in Leases
  <2>1. NoLease \in Lease
    BY DEF NoLease, Lease
  <2>2. UNCHANGED lease \/ lease' = [lease EXCEPT ![StopBot] = NoLease]
    BY DEF stop, StopReads, StopClaims, StopRechecks, StopDeletesLeases, StopStops, StopRecords
  <2> QED
    BY <2>1, <2>2 DEF TypeOK, Leases
<1>4. ASSUME NEW pc \in {"idle", "recheck", "delete", "stop", "record", "fail"}, Ends(k, pc)
      PROVE  Kept(pc)
  <2>1. [stopper[k] EXCEPT !.pc = pc] \in StopRequest /\ [stopper[k] EXCEPT !.pc = pc].pc = pc
    BY ONLY <1>2, <1>4 DEF StopRequest
  <2> QED
    BY <1>1, <1>4, <2>1 DEF Ends, TypeOK
<1>5. ASSUME NEW pc, Kept(pc), StopHolds(k) \/ pc \in {"idle", "claim"}, UNCHANGED <<row, current>>
      PROVE  LInv'
  <2>1. StopHolds(k)' => StopHolds(k) /\ row.state = "suspending"
    BY <1>1, <1>5 DEF StopHolds, HoldersSuspend
  <2>2. HoldersSuspend' /\ HolderIsAlone'
    BY <1>1, <1>5, <2>1, StopsAlone
  <2> QED
    BY <1>1, <1>2, <1>3, <1>5, <2>2, OutsideKept
<1>6. ASSUME NEW pc, Kept(pc), NEW state \in States, Written(state),
             StopHolds(k) \/ row.state # "suspending", pc # "idle" => state = "suspending"
      PROVE  LInv'
  <2>1. row' \in Row /\ ~row'.aged /\ row'.state = state
    BY <1>2, <1>6 DEF Row
  <2>2. StopHolds(k)' => state = "suspending"
    BY <1>6 DEF StopHolds
  <2>3. HoldersSuspend' /\ HolderIsAlone'
    BY <1>1, <1>6, <2>1, <2>2, StopsAlone
  <2> QED
    BY <1>1, <1>2, <1>3, <1>6, <2>1, <2>3, OutsideKept
<1>7. /\ \A state \in States : Write(state, row.ref, {}) => Written(state)
      /\ Recorded => Written(row.state)
      /\ KeepRow => UNCHANGED <<row, current>>
  BY DEF Write, Recorded, KeepRow
<1>8. stopper[k].seen \in States /\ row.state \in States /\ {"suspending", "stopped", "error"} \subseteq States
  BY <1>2 DEF StopRequest, Row, States
<1> HIDE DEF Written, Kept
<1>9. CASE StopReads(k)
  <2>1. Kept("claim")
    BY <1>1, <1>2, <1>9 DEF StopReads, Kept, TypeOK, StopRequest, Row
  <2> QED
    BY <1>5, <1>7, <1>9, <2>1 DEF StopReads
<1>10. CASE StopClaims(k)
  BY <1>4, <1>5, <1>6, <1>7, <1>8, <1>10 DEF StopClaims
<1>11. ASSUME stopper[k].pc \in {"recheck", "delete", "stop", "record", "fail"}
       PROVE  StopHolds(k) /\ row.state = "suspending"
  BY <1>1, <1>11 DEF StopHolds, HoldersSuspend
<1>12. CASE StopRechecks(k)
  <2>1. CASE Ends(k, "idle")
    <3>1. Kept("idle")
      BY <1>4, <2>1
    <3> QED
      BY <1>5, <1>6, <1>7, <1>8, <1>11, <1>12, <3>1 DEF StopRechecks
  <2>2. CASE Ends(k, "delete") /\ KeepRow
    BY <1>4, <1>5, <1>7, <1>11, <1>12, <2>2 DEF StopRechecks
  <2> QED
    BY <1>12, <2>1, <2>2 DEF StopRechecks
<1>13. CASE StopDeletesLeases(k)
  BY <1>4, <1>5, <1>7, <1>11, <1>13 DEF StopDeletesLeases
<1>14. CASE StopStops(k)
  <2>1. PICK pc \in {"record", "fail"} : Ends(k, pc) /\ (KeepRow \/ Recorded)
    BY <1>14 DEF StopStops
  <2>2. Kept(pc) /\ StopHolds(k) /\ row.state = "suspending"
    BY <1>4, <1>11, <1>14, <2>1 DEF StopStops
  <2> QED
    BY <1>5, <1>6, <1>7, <1>8, <2>1, <2>2
<1>15. CASE StopRecords(k)
  <2>1. Kept("idle") /\ StopHolds(k)
    BY <1>4, <1>11, <1>15 DEF StopRecords
  <2> QED
    BY <1>5, <1>6, <1>7, <1>8, <1>15, <2>1 DEF StopRecords
<1> QED
  BY <1>9, <1>10, <1>12, <1>13, <1>14, <1>15 DEF stop

-----------------------------------------------------------------------------
LEMMA InitLInv == Init => LInv
<1> SUFFICES ASSUME Init PROVE LInv
  OBVIOUS
<1>1. TypeOK
  BY ComputerAssumption DEF ComputerAssumption, Init, TypeOK, Row, Lease, RunRow, Execution, Sleep,
     StopRequest, Pcs, MaybeRef, States, Idle, NoLease, Provisioning
<1>2. \A p \in Procs : proc[p].pc = "idle"
  BY DEF Init, Idle
<1>3. KindsFit /\ StampsFit /\ SeensFit
  BY <1>2 DEF Init, KindsFit, KindFits, StampsFit, StampFits, SeensFit, SeenFits
<1>4. OwnersFit
  BY <1>1, <1>2, EnvFacts DEF Init, OwnersFit, Begun
<1>5. AgedFits
  BY DEF Init, AgedFits
<1>6. HoldersSuspend /\ HolderIsAlone
  BY <1>2 DEF Init, HoldersSuspend, HolderIsAlone, ProcHolds, SleepHolds, StopHolds
<1> QED
  BY <1>1, <1>3, <1>4, <1>5, <1>6 DEF LInv

LEMMA StutterLInv == LInv /\ UNCHANGED vars => LInv'
<1> SUFFICES ASSUME LInv, UNCHANGED vars PROVE LInv'
  OBVIOUS
<1>1. UNCHANGED <<env, row, current, box, lease, runs, proc, sleeper, stopper, crashes>>
  BY DEF vars
<1>2. OwnersFit' /\ AgedFits' /\ \A q \in Procs : Works(q)' = Works(q)
  BY <1>1 DEF LInv, OwnersFit, HasRun, Begun, AgedFits, Booting, Works
<1> QED
  BY <1>1, <1>2, RunsKept DEF LInv, TypeOK, Leases

(* One execution's steps, and all of them. *)
LEMMA ExecutionKept ==
  ASSUME LInv, NEW p \in Procs,
         \/ Begin(p) \/ Enter(p) \/ provisionComputer(p) \/ replaceComputer(p)
         \/ Turn(p) \/ Checkpoint(p) \/ Crash(p)
  PROVE  LInv'
<1>1. CASE Begin(p)
  BY <1>1, Begins
<1>2. CASE Enter(p)
  BY <1>2, Acquires, Requeues, Releases DEF Enter
<1>3. CASE provisionComputer(p)
  <2>1. ProvisionReads(p) \/ ProvisionAsksRuns(p) \/ ProvisionClaims(p) => LInv'
    BY Reads, AsksRuns, Claims
  <2>2. ProvisionWaits(p) \/ ProvisionAsksRunsAgain(p) => LInv'
    BY WaitsOn
  <2>3. Provision(p) \/ Activate(p) => LInv'
    BY Provisions, Activates
  <2>4. PrepareFails(p) => LInv'
    BY ActivateFails
  <2>5. rollbackProvisionedComputer(p) \/ RecordFailure(p) => LInv'
    BY RollsBackKept, RecordsFailure
  <2> QED
    BY <1>3, <2>1, <2>2, <2>3, <2>4, <2>5 DEF provisionComputer
<1>4. CASE replaceComputer(p)
  BY <1>4, Surveys, Seizes, Rechecks, Destroys, Clears DEF replaceComputer
<1>5. CASE Turn(p) \/ Checkpoint(p) \/ Crash(p)
  BY <1>5, Finishes, CheckpointsEnd, Checkpoints, Crashes DEF Turn
<1> QED
  BY <1>1, <1>2, <1>3, <1>4, <1>5

LEMMA StepLInv == LInv /\ [Next]_vars => LInv'
<1> SUFFICES ASSUME LInv, [Next]_vars PROVE LInv'
  OBVIOUS
<1>1. CASE Next
  BY <1>1, ExecutionKept, SleepSteps, StopSteps, RowsOfRuns, Lapses, Ages DEF Next
<1> QED
  BY <1>1, StutterLInv

LEMMA LocksHold == Spec => []LInv
BY InitLInv, StepLInv, PTL DEF Spec

(* The state of the computer, its leases, its runs and everybody at work   *)
(* on it has its type, whatever the settings, the requests and the deaths. *)
THEOREM TypeCorrect == Spec => []TypeOK
<1>1. LInv => TypeOK
  BY DEF LInv
<1> QED
  BY <1>1, LocksHold, PTL
=============================================================================
