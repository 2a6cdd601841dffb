---------------------------- MODULE ControlProofs ---------------------------
(***************************************************************************)
(* Control of the computer's screen and the teaching sessions that take    *)
(* it, for any number of bots, requests, jobs, leases and sessions: their  *)
(* types, that a control lease is ended by its own, and that a session     *)
(* ends once and ends only the lease it took. The invariant says what a    *)
(* request or a job may still rely on when it writes: whatever the others  *)
(* do, a lease leaves the row for none or for a later one, a time that is  *)
(* over stays over where nobody teaches, and a session keeps its lease.    *)
(***************************************************************************)
EXTENDS TeachingSession, TLAPS
-----------------------------------------------------------------------------
(* The inductive invariant *)

Kinds == {"takeover", "release", "screen", "status", "teach"}
EnvState ==
  [asks : SUBSET Kinds, workers : SUBSET Bots, procs : SUBSET Procs,
   leases : Nat, faults : Nat, crashes : Nat]

RowsTyped ==
  /\ computer \in Row /\ issued \in 0 .. MaxLeases /\ screen \in [Bots -> 0 .. MaxLeases]
  /\ run \in [Bots -> {"none", "running", "waiting", "queued"}] /\ job \in BOOLEAN
  /\ env \in EnvState /\ skill \in [Skills -> Session] /\ expiry \subseteq Skills
ProcsTyped == proc \in [Procs -> ProcState] /\ local \in [Procs -> Local]

Taught == "teach" \in env.asks
LeaseIsWhole ==
  /\ computer.holder = "user" => computer.lease # NoLease
  /\ computer.lease # NoLease <=> computer.bot # NoBot
  /\ computer.lease <= issued
  /\ computer.due => computer.lease # NoLease
LeasesLast == issued + env.leases <= MaxLeases
NoTeaching == ~Taught => expiry = {} /\ \A s \in Skills : skill[s].status = "none"
NoRuns == env.workers = {} => computer.run = NoBot /\ \A b \in Bots : run[b] = "none"
OwnBinding == ~Taught => BindingIsOwn
SessionsEnd ==
  \A s \in Skills :
    /\ skill[s].status \in {"none", "recording"} => skill[s].stopped = 0
    /\ skill[s].stopped <= 1 /\ skill[s].posted <= 1
RowsSound == LeaseIsWhole /\ LeasesLast /\ NoTeaching /\ NoRuns /\ OwnBinding /\ SessionsEnd

(* What a request or a job knows. An expiry that goes on to deny has read  *)
(* a lease whose time is over, which without teaching stays over; a grant  *)
(* names a run of its own bot; and what is let go of for a session is the  *)
(* lease that its session has recorded.                                    *)
Fine(p) ==
  /\ proc[p].seen.lease <= issued
  /\ proc[p].pc \in TakeoverPcs => proc[p].op = "takeover"
  /\ proc[p].op = "takeover" => proc[p].bot \in Bots
  /\ proc[p].pc \in TeachPcs <=> proc[p].op \in TeachOps
  /\ proc[p].pc \in TeachPcs => local[p].skill \in Skills /\ Taught
  /\ proc[p].pc = "grant" =>
       /\ proc[p].seen.run \in {proc[p].bot, NoBot}
       /\ env.workers = {} => proc[p].seen.run = NoBot
  /\ proc[p].pc \in DenialPcs =>
       /\ proc[p].seen.lease # NoLease
       /\ ~Taught /\ proc[p].seen.lease = computer.lease => computer.due
  /\ proc[p].pc \in {"skillFinalize", "skillRelease", "removeCancel"} \cup LetGoPcs =>
       skill[local[p].skill].status # "none"
  /\ proc[p].pc \in {"skillRelease", "removeCancel"} \cup LetGoPcs =>
       local[p].lease = skill[local[p].skill].lease
  /\ proc[p].pc \in LetGoPcs => proc[p].seen.lease = local[p].lease

ControlInv == RowsTyped /\ ProcsTyped /\ RowsSound /\ \A p \in Procs : Fine(p)

-----------------------------------------------------------------------------
(* What the steps do, field by field *)

LEMMA ControlFacts ==
  /\ MaxLeases \in Nat /\ NoBot \notin Bots /\ NoLease = 0 /\ Teacher \in Bots /\ NoSkill \notin Skills
  /\ \A h \in {"none", "bot", "user"} :
       /\ Free(h) \in Row /\ Free(h).holder = h /\ Free(h).lease = NoLease /\ Free(h).bot = NoBot
       /\ Free(h).run = NoBot /\ Free(h).due = FALSE
BY ControlAssumption, TeachingAssumption DEF ControlAssumption, TeachingAssumption, Free, Row, NoLease

(* Process p goes from where it is, with what it then sees.                *)
Moved(p, pc, op, bot, seen) ==
  /\ proc' \in [Procs -> ProcState]
  /\ proc'[p].pc = pc /\ proc'[p].op = op /\ proc'[p].bot = bot /\ proc'[p].seen = seen
  /\ \A q \in Procs \ {p} : proc'[q] = proc[q]

LEMMA StateMoves ==
  ASSUME ProcsTyped, NEW p \in Procs, NEW o \in ProcState, proc' = [proc EXCEPT ![p] = o]
  PROVE  Moved(p, o.pc, o.op, o.bot, o.seen)
BY DEF ProcsTyped, Moved

LEMMA GoesMoves ==
  ASSUME ProcsTyped, NEW p \in Procs, NEW pc \in Pcs, Goes(p, pc)
  PROVE  Moved(p, pc, proc[p].op, proc[p].bot, proc[p].seen)
<1> DEFINE o == [proc[p] EXCEPT !.pc = pc]
<1>1. /\ o \in ProcState /\ o.pc = pc /\ o.op = proc[p].op /\ o.bot = proc[p].bot
      /\ o.seen = proc[p].seen
  BY DEF ProcsTyped, ProcState
<1>2. proc' = [proc EXCEPT ![p] = o]
  BY DEF Goes
<1> HIDE DEF o
<1> QED BY <1>1, <1>2, StateMoves

LEMMA SeeingMoves ==
  ASSUME ProcsTyped, NEW p \in Procs, NEW pc \in Pcs, NEW seen \in Row,
         proc' = [proc EXCEPT ![p].pc = pc, ![p].seen = seen]
  PROVE  Moved(p, pc, proc[p].op, proc[p].bot, seen)
<1> DEFINE o == [proc[p] EXCEPT !.pc = pc, !.seen = seen]
<1>1. /\ o \in ProcState /\ o.pc = pc /\ o.op = proc[p].op /\ o.bot = proc[p].bot
      /\ o.seen = seen
  BY DEF ProcsTyped, ProcState
<1>2. proc' = [proc EXCEPT ![p] = o]
  BY DEF ProcsTyped
<1> HIDE DEF o
<1> QED BY <1>1, <1>2, StateMoves

LEMMA GoesSeeingMoves ==
  ASSUME ProcsTyped, computer \in Row, NEW p \in Procs, NEW pc \in Pcs, GoesSeeing(p, pc)
  PROVE  Moved(p, pc, proc[p].op, proc[p].bot, computer)
BY SeeingMoves DEF GoesSeeing

LEMMA GoesOnMoves ==
  ASSUME ProcsTyped, NEW p \in Procs, GoesOn(p)
  PROVE  Moved(p, "check", proc[p].op, proc[p].bot, Free("none"))
BY SeeingMoves, ControlFacts DEF GoesOn, Pcs, TakeoverPcs

LEMMA EndsMoves ==
  ASSUME ProcsTyped, NEW p \in Procs, Ends(p)
  PROVE  Moved(p, "idle", "none", NoBot, Free("none"))
<1>1. Idle \in ProcState
  BY ControlFacts DEF Idle, ProcState, Pcs, Ops
<1>2. Idle.pc = "idle" /\ Idle.op = "none" /\ Idle.bot = NoBot /\ Idle.seen = Free("none")
  BY DEF Idle
<1> QED BY <1>1, <1>2, StateMoves DEF Ends

LEMMA StartsMoves ==
  ASSUME ProcsTyped, computer \in Row, NEW p \in Procs, NEW op \in Ops, NEW b \in Bots \cup {NoBot},
         NEW pc \in Pcs, Starts(p, op, b, pc)
  PROVE  Moved(p, pc, op, b, computer)
<1> DEFINE o == [pc |-> pc, op |-> op, bot |-> b, seen |-> computer]
<1>1. o \in ProcState /\ o.pc = pc /\ o.op = op /\ o.bot = b /\ o.seen = computer
  BY DEF ProcState
<1>2. proc' = [proc EXCEPT ![p] = o]
  BY DEF Starts
<1> HIDE DEF o
<1> QED BY <1>1, <1>2, StateMoves

(* A failing call, or none.                                                *)
SameEnv ==
  /\ env' \in EnvState /\ env'.asks = env.asks /\ env'.workers = env.workers
  /\ env'.leases = env.leases

LEMMA EnvDoes ==
  ASSUME RowsTyped
  PROVE  /\ Fault => SameEnv
         /\ NoFault => SameEnv
         /\ \A p \in Procs : Crash(p) => SameEnv
BY DEF RowsTyped, EnvState, Fault, NoFault, Crash, SameEnv

LEMMA GrantDoes ==
  ASSUME RowsTyped, LeasesLast, GrantsLease
  PROVE  /\ env' \in EnvState /\ env'.asks = env.asks /\ env'.workers = env.workers
         /\ issued' = issued + 1 /\ issued' \in 0 .. MaxLeases /\ issued' \in 1 .. MaxLeases
         /\ issued' + env'.leases <= MaxLeases
BY ControlFacts DEF RowsTyped, EnvState, GrantsLease, LeasesLast

LEMMA ScreenDoes ==
  ASSUME RowsTyped, NEW b, NEW l \in 0 .. MaxLeases,
         setScreenControl(b, l) \/ screen' = [screen EXCEPT ![b] = l] \/ UNCHANGED screen
  PROVE  screen' \in [Bots -> 0 .. MaxLeases]
BY ControlFacts DEF RowsTyped, setScreenControl

-----------------------------------------------------------------------------
(* What the others know stays true *)

(* A lease leaves the row for none or for a later one, its time that is    *)
(* over stays over where nobody teaches, and a session that has begun      *)
(* keeps its lease.                                                        *)
Onward ==
  /\ issued <= issued' /\ env'.asks = env.asks /\ env'.workers = env.workers
  /\ \/ computer'.lease = computer.lease /\ (~Taught /\ computer.due => computer'.due)
     \/ computer'.lease = NoLease
     \/ computer'.lease > issued
  /\ \A s \in Skills :
       skill[s].status # "none" => skill'[s].status # "none" /\ skill'[s].lease = skill[s].lease

LEMMA OthersFine ==
  ASSUME ControlInv, RowsTyped', Onward, NEW q \in Procs, proc'[q] = proc[q], local'[q] = local[q]
  PROVE  Fine(q)'
<1> DEFINE o == proc[q]
           l == local[q]
<1>1. o \in ProcState /\ o.seen \in Row /\ o.seen.lease \in Nat /\ Fine(q)
  BY ControlFacts DEF ControlInv, ProcsTyped, ProcState, Row
<1>2. issued \in Nat /\ issued' \in Nat /\ (Taught' <=> Taught) /\ (env'.workers = env.workers)
      /\ issued <= issued'
  BY ControlFacts DEF ControlInv, RowsTyped, Onward, Taught
<1>3. o.seen.lease <= issued'
  BY <1>1, <1>2 DEF Fine
<1>4. o.pc \in DenialPcs /\ ~Taught /\ o.seen.lease = computer'.lease => computer'.due
  <2> SUFFICES ASSUME o.pc \in DenialPcs, ~Taught, o.seen.lease = computer'.lease
               PROVE  computer'.due
    OBVIOUS
  <2>1. o.seen.lease # NoLease /\ o.seen.lease <= issued
    BY <1>1 DEF Fine
  <2>2. ~(computer'.lease > issued)
    BY <1>1, <1>2, <2>1
  <2>3. computer'.lease = computer.lease /\ (computer.due => computer'.due)
    BY <2>1, <2>2 DEF Onward
  <2> QED BY <1>1, <2>3 DEF Fine
<1>5. o.pc \in TeachPcs => l.skill \in Skills
  BY <1>1 DEF Fine
<1>6. o.pc \in {"skillFinalize", "skillRelease", "removeCancel"} \cup LetGoPcs =>
        o.pc \in TeachPcs /\ skill'[l.skill].status # "none"
        /\ skill'[l.skill].lease = skill[l.skill].lease
  <2>1. o.pc \in {"skillFinalize", "skillRelease", "removeCancel"} \cup LetGoPcs => o.pc \in TeachPcs
    BY DEF TeachPcs
  <2> QED BY <1>1, <1>5, <2>1 DEF Fine, Onward
<1> QED BY <1>1, <1>2, <1>3, <1>4, <1>5, <1>6 DEF Fine

(* A step of one process, or of none, keeps the invariant when what it     *)
(* writes to the rows and what it knows itself do.                         *)
LEMMA StepKeeps ==
  ASSUME ControlInv, NEW p \in Procs, RowsTyped', ProcsTyped', RowsSound', Onward, Fine(p)',
         \A q \in Procs \ {p} : proc'[q] = proc[q] /\ local'[q] = local[q]
  PROVE  ControlInv'
<1>1. \A q \in Procs \ {p} : Fine(q)'
  BY OthersFine
<1> QED BY <1>1 DEF ControlInv

LEMMA RowKeeps ==
  ASSUME ControlInv, RowsTyped', RowsSound', Onward, UNCHANGED <<proc, local>>
  PROVE  ControlInv'
<1>1. \A q \in Procs : Fine(q)'
  BY OthersFine
<1> QED BY <1>1 DEF ControlInv, ProcsTyped

(* What a step does to the rows is sound, and nobody's knowledge is lost.  *)
RowsKept == RowsTyped' /\ RowsSound' /\ Onward

(* A step that leaves the leases and the sessions.                         *)
Quiet ==
  /\ UNCHANGED <<computer, issued, skill>> /\ SameEnv
  /\ screen' \in [Bots -> 0 .. MaxLeases] /\ job' \in BOOLEAN /\ expiry' \subseteq Skills
  /\ run' \in [Bots -> {"none", "running", "waiting", "queued"}]
  /\ \A b \in Bots : run'[b] # "none" => run[b] # "none" \/ b \in env.workers
  /\ Taught \/ expiry' = expiry

LEMMA QuietRows ==
  ASSUME ControlInv, Quiet
  PROVE  RowsKept
<1> USE DEF ControlInv, Quiet, SameEnv
<1>1. RowsTyped'
  BY DEF RowsTyped
<1>2. LeaseIsWhole' /\ LeasesLast' /\ SessionsEnd'
  BY DEF RowsSound, LeaseIsWhole, LeasesLast, SessionsEnd
<1>3. NoTeaching' /\ OwnBinding'
  BY DEF RowsSound, NoTeaching, OwnBinding, BindingIsOwn, Taught
<1>4. NoRuns'
  BY DEF RowsSound, NoRuns
<1>5. Onward
  BY DEF RowsTyped, Onward
<1> QED BY <1>1, <1>2, <1>3, <1>4, <1>5 DEF RowsSound, RowsKept

(* Steps of ControlLease, which leave what is known of the sessions.       *)
LEMMA ControlMove ==
  ASSUME ControlInv, RowsKept, UNCHANGED local, NEW p \in Procs, NEW pc, NEW op, NEW bot, NEW seen,
         Moved(p, pc, op, bot, seen), Fine(p)'
  PROVE  ControlInv'
<1>1. ProcsTyped' /\ \A q \in Procs \ {p} : proc'[q] = proc[q] /\ local'[q] = local[q]
  BY DEF ControlInv, ProcsTyped, Moved
<1> QED BY <1>1, StepKeeps DEF RowsKept

-----------------------------------------------------------------------------
(* The requests and jobs that only read, call and schedule *)

LEMMA QuietOf ==
  ASSUME ControlInv, UNCHANGED <<computer, issued, run, skill, expiry>>,
         Fault \/ UNCHANGED env \/ (\E p \in Procs : Crash(p)),
         screen' \in [Bots -> 0 .. MaxLeases], job' \in BOOLEAN
  PROVE  Quiet /\ RowsKept
<1>1. SameEnv
  BY EnvDoes DEF ControlInv, NoFault
<1>2. Quiet
  BY <1>1 DEF Quiet, ControlInv, RowsTyped
<1> QED BY <1>2, QuietRows

LEMMA KeptLeases ==
  ASSUME ControlInv, RowsKept
  PROVE  /\ issued \in Nat /\ issued' \in Nat /\ issued <= issued'
         /\ \A l \in Nat : l <= issued => l <= issued'
BY ControlFacts DEF ControlInv, RowsKept, RowsTyped, Onward

LEMMA RowSets ==
  ASSUME ControlInv, NEW p \in Procs
  PROVE  /\ ProcsTyped /\ computer \in Row /\ screen \in [Bots -> 0 .. MaxLeases] /\ job \in BOOLEAN
         /\ proc[p] \in ProcState /\ Seen(p) \in Row /\ Seen(p) = proc[p].seen
         /\ Seen(p).lease \in 0 .. MaxLeases /\ computer.lease \in 0 .. MaxLeases
         /\ issued \in Nat /\ Fine(p) /\ Seen(p).lease <= issued /\ computer.lease <= issued
BY ControlFacts DEF ControlInv, RowsTyped, ProcsTyped, ProcState, Row, Seen, Fine, RowsSound,
   LeaseIsWhole

(* Where the process has gone there is little to know.                     *)
LEMMA PlainMove ==
  ASSUME ControlInv, RowsKept, UNCHANGED local, NEW p \in Procs,
         NEW pc \in Pcs \ (TeachPcs \cup DenialPcs \cup {"grant"}), NEW op \in Ops \ TeachOps,
         NEW bot, NEW seen, Moved(p, pc, op, bot, seen), seen.lease <= issued',
         pc \in TakeoverPcs => op = "takeover", op = "takeover" => bot \in Bots
  PROVE  ControlInv'
<1>1. Fine(p)'
  BY DEF Fine, Moved, LetGoPcs, TeachPcs
<1> QED BY <1>1, ControlMove

LEMMA EndsKeeps ==
  ASSUME ControlInv, RowsKept, UNCHANGED local, NEW p \in Procs, Ends(p)
  PROVE  ControlInv'
<1>1. Moved(p, "idle", "none", NoBot, Free("none"))
  BY EndsMoves, RowSets
<1>2. Free("none").lease <= issued'
  BY ControlFacts, RowSets, KeptLeases
<1>3. "idle" \in Pcs \ (TeachPcs \cup DenialPcs \cup {"grant"}) /\ "none" \in Ops \ TeachOps
      /\ "idle" \notin TakeoverPcs
  BY DEF Pcs, TeachPcs, LetGoPcs, DenialPcs, TakeoverPcs, Ops, TeachOps
<1> QED BY <1>1, <1>2, <1>3, PlainMove

LEMMA StartsKeeps ==
  ASSUME ControlInv, RowsKept, UNCHANGED local, NEW p \in Procs,
         NEW op \in {"takeover", "release", "screen", "status", "expire"},
         NEW b \in Bots \cup {NoBot},
         NEW pc \in {"bind", "evict", "expire", "check", "revoke", "connect"},
         Starts(p, op, b, pc),
         op = "takeover" => b \in Bots, pc \in {"bind", "evict", "check"} => op = "takeover"
  PROVE  ControlInv'
<1>1. pc \in Pcs \ (TeachPcs \cup DenialPcs \cup {"grant"}) /\ op \in Ops \ TeachOps
      /\ (pc \in TakeoverPcs => op = "takeover")
  BY DEF Pcs, TeachPcs, LetGoPcs, DenialPcs, TakeoverPcs, Ops, TeachOps
<1>2. Moved(p, pc, op, b, computer)
  BY <1>1, StartsMoves, RowSets
<1> QED BY <1>1, <1>2, PlainMove, RowSets, KeptLeases

(* A request that goes on as what it is.                                   *)
LEMMA OnKeeps ==
  ASSUME ControlInv, RowsKept, UNCHANGED local, NEW p \in Procs, NEW seen, seen.lease <= issued',
         proc[p].pc \notin TeachPcs,
         NEW pc \in Pcs \ (TeachPcs \cup DenialPcs \cup {"grant"}),
         pc \in TakeoverPcs => proc[p].op = "takeover",
         Moved(p, pc, proc[p].op, proc[p].bot, seen)
  PROVE  ControlInv'
<1>1. proc[p].op \in Ops \ TeachOps /\ (proc[p].op = "takeover" => proc[p].bot \in Bots)
  BY RowSets DEF ProcState, Fine
<1> QED BY <1>1, PlainMove

LEMMA PcNames ==
  /\ {"clear", "reread", "check", "schedule", "reschedule", "adopt", "bind", "undo", "expire",
      "finalize"} \subseteq Pcs \ (TeachPcs \cup DenialPcs \cup {"grant"})
  /\ {"evict", "clear", "reread", "check", "grant", "adopt", "bind", "schedule", "reschedule", "undo"}
       = TakeoverPcs
  /\ DenialPcs \subseteq Pcs \ (TeachPcs \cup TakeoverPcs)
  /\ "grant" \in Pcs \ (TeachPcs \cup DenialPcs)
  /\ {"revoke", "finalize", "connect", "expire", "idle"} \cap (TakeoverPcs \cup TeachPcs) = {}
  /\ TakeoverPcs \cap TeachPcs = {}
BY DEF Pcs, TakeoverPcs, TeachPcs, DenialPcs, LetGoPcs

LEMMA GoesKeeps ==
  ASSUME ControlInv, RowsKept, UNCHANGED local, NEW p \in Procs,
         NEW pc \in Pcs \ (TeachPcs \cup DenialPcs \cup {"grant"}), Goes(p, pc),
         proc[p].pc \notin TeachPcs, pc \in TakeoverPcs => proc[p].op = "takeover"
  PROVE  ControlInv'
<1>1. Moved(p, pc, proc[p].op, proc[p].bot, proc[p].seen)
  BY GoesMoves, RowSets
<1> QED BY <1>1, OnKeeps, RowSets, KeptLeases

(* A takeover goes on when the expiry is done, the others end.             *)
LEMMA ReturnsKeeps ==
  ASSUME ControlInv, RowsKept, UNCHANGED local, NEW p \in Procs, Returns(p), proc[p].pc \notin TeachPcs
  PROVE  ControlInv'
<1>1. CASE proc[p].op = "takeover"
  <2>1. Moved(p, "check", proc[p].op, proc[p].bot, Free("none"))
    BY <1>1, GoesOnMoves, RowSets DEF Returns
  <2>2. Free("none").lease <= issued'
    BY ControlFacts, RowSets, KeptLeases
  <2> QED BY <1>1, <2>1, <2>2, OnKeeps, PcNames
<1>2. CASE proc[p].op # "takeover"
  BY <1>2, EndsKeeps DEF Returns
<1> QED BY <1>1, <1>2

LEMMA RequestKeeps ==
  ASSUME ControlInv, UNCHANGED <<skill, expiry, local>>, NEW p \in Procs,
         Request(p) \/ controlExpireJob(p)
  PROVE  ControlInv'
<1>1. ASSUME NEW b \in Bots, takeoverReads(p, b) PROVE ControlInv'
  <2>1. Quiet /\ RowsKept
    BY <1>1, QuietOf, RowSets DEF takeoverReads
  <2>2. PICK pc \in {"bind", "evict", "expire", "check"} : Starts(p, "takeover", b, pc)
    BY <1>1 DEF takeoverReads
  <2> QED BY <2>1, <2>2, StartsKeeps
<1>2. ASSUME NEW b \in Bots, releaseReads(p, b) PROVE ControlInv'
  <2>1. Quiet /\ RowsKept
    BY <1>2, QuietOf, RowSets DEF releaseReads
  <2>2. PICK pc \in {"revoke", "expire"} : Starts(p, "release", b, pc)
    BY <1>2 DEF releaseReads
  <2> QED BY <2>1, <2>2, StartsKeeps
<1>3. ASSUME NEW b \in Bots, screenReads(p, b) PROVE ControlInv'
  <2>1. Quiet /\ RowsKept /\ Starts(p, "screen", b, "connect")
    BY <1>3, QuietOf, RowSets DEF screenReads
  <2> QED BY <2>1, StartsKeeps
<1>4. ASSUME statusReads(p) PROVE ControlInv'
  <2>1. Quiet /\ RowsKept /\ Starts(p, "status", NoBot, "expire")
    BY <1>4, QuietOf, RowSets DEF statusReads
  <2> QED BY <2>1, StartsKeeps
<1>5. ASSUME controlExpireJob(p) PROVE ControlInv'
  <2>1. Quiet /\ RowsKept /\ Starts(p, "expire", NoBot, "expire")
    BY <1>5, QuietOf, RowSets DEF controlExpireJob
  <2> QED BY <2>1, StartsKeeps
<1> QED BY <1>1, <1>2, <1>3, <1>4, <1>5 DEF Request

LEMMA CallKeeps ==
  ASSUME ControlInv, UNCHANGED <<skill, expiry, local>>, NEW p \in Procs,
         evictRevokes(p) \/ releaseRevokes(p) \/ connectScreen(p)
  PROVE  ControlInv'
<1> USE RowSets, PcNames
<1>1. CASE evictRevokes(p)
  <2>1. proc[p].pc \notin TeachPcs /\ proc[p].op = "takeover"
    BY <1>1 DEF evictRevokes, At, Fine
  <2>2. screen' \in [Bots -> 0 .. MaxLeases]
    BY <1>1, ScreenDoes DEF evictRevokes, ControlInv
  <2>3. Quiet /\ RowsKept /\ (Goes(p, "clear") \/ Ends(p))
    BY <1>1, <2>2, QuietOf DEF evictRevokes, NoFault
  <2> QED BY <2>1, <2>3, GoesKeeps, EndsKeeps
<1>2. CASE releaseRevokes(p)
  <2>1. proc[p].pc \notin TeachPcs
    BY <1>2 DEF releaseRevokes, At
  <2>2. screen' \in [Bots -> 0 .. MaxLeases]
    BY <1>2, ScreenDoes DEF releaseRevokes, ControlInv
  <2>3. Quiet /\ RowsKept /\ (Goes(p, "finalize") \/ Ends(p))
    BY <1>2, <2>2, QuietOf DEF releaseRevokes, NoFault
  <2> QED BY <2>1, <2>3, GoesKeeps, EndsKeeps
<1>3. CASE connectScreen(p)
  <2>1. screen' \in [Bots -> 0 .. MaxLeases]
    BY <1>3, ScreenDoes DEF connectScreen, ControlInv
  <2>2. Quiet /\ RowsKept /\ Ends(p)
    BY <1>3, <2>1, QuietOf DEF connectScreen
  <2> QED BY <2>2, EndsKeeps
<1> QED BY <1>1, <1>2, <1>3

LEMMA TakeoverReadsKeeps ==
  ASSUME ControlInv, UNCHANGED <<skill, expiry, local>>, NEW p \in Procs,
         takeoverRereads(p) \/ takeoverAdopts(p) \/ takeoverSchedules(p)
  PROVE  ControlInv'
<1> USE RowSets, PcNames
<1>1. CASE takeoverRereads(p)
  <2>1. proc[p].pc \notin TeachPcs /\ proc[p].op = "takeover" /\ Quiet /\ RowsKept
    BY <1>1, QuietOf DEF takeoverRereads, At, Fine
  <2>2. CASE GoesSeeing(p, "expire")
    <3>1. Moved(p, "expire", proc[p].op, proc[p].bot, computer)
      BY <2>2, GoesSeeingMoves
    <3> QED BY <2>1, <3>1, OnKeeps, KeptLeases
  <2>3. CASE GoesOn(p)
    BY <2>1, <2>3, ReturnsKeeps DEF Returns
  <2> QED BY <1>1, <2>2, <2>3 DEF takeoverRereads
<1>2. CASE takeoverAdopts(p)
  <2>1. proc[p].pc \notin TeachPcs /\ proc[p].op = "takeover" /\ Quiet /\ RowsKept
    BY <1>2, QuietOf DEF takeoverAdopts, At, Fine
  <2>2. CASE GoesSeeing(p, "bind")
    <3>1. Moved(p, "bind", proc[p].op, proc[p].bot, computer)
      BY <2>2, GoesSeeingMoves
    <3> QED BY <2>1, <3>1, OnKeeps, KeptLeases
  <2>3. CASE Ends(p)
    BY <2>1, <2>3, EndsKeeps
  <2> QED BY <1>2, <2>2, <2>3 DEF takeoverAdopts
<1>3. CASE takeoverSchedules(p)
  <2>1. proc[p].pc \notin TeachPcs /\ proc[p].op = "takeover"
    BY <1>3 DEF takeoverSchedules, Fine
  <2>2. job' \in BOOLEAN
    BY <1>3 DEF takeoverSchedules, scheduleComputerControlExpiry
  <2>3. Quiet /\ RowsKept /\ (Goes(p, "undo") \/ Ends(p))
    BY <1>3, <2>2, QuietOf DEF takeoverSchedules, NoFault
  <2> QED BY <2>1, <2>3, GoesKeeps, EndsKeeps
<1> QED BY <1>1, <1>2, <1>3

LEMMA TakeoverChecksKeeps ==
  ASSUME ControlInv, UNCHANGED <<skill, expiry, local>>, NEW p \in Procs, takeoverChecks(p)
  PROVE  ControlInv'
<1> USE RowSets, PcNames
<1> DEFINE b == proc[p].bot
           named == IF run[b] = "waiting" THEN b ELSE NoBot
<1>1. proc[p].pc \notin TeachPcs /\ proc[p].op = "takeover" /\ b \in Bots /\ Quiet /\ RowsKept
  BY QuietOf DEF takeoverChecks, At, Fine
<1>2. CASE executionBlocksUserTakeover(b)
  <2>1. Ends(p)
    BY <1>2 DEF takeoverChecks
  <2> QED BY <1>1, <2>1, EndsKeeps
<1>3. CASE ~executionBlocksUserTakeover(b)
  <2> DEFINE o == [proc[p] EXCEPT !.pc = "grant", !.seen = [proc[p].seen EXCEPT !.run = named]]
  <2>1. proc' = [proc EXCEPT ![p].pc = "grant", ![p].seen.run = named]
    BY <1>3 DEF takeoverChecks
  <2>2. proc' = [proc EXCEPT ![p] = o]
    <3>1. \A f \in [Procs -> ProcState], n \in Bots \cup {NoBot} :
            [f EXCEPT ![p].pc = "grant", ![p].seen.run = n]
              = [f EXCEPT ![p] = [f[p] EXCEPT !.pc = "grant", !.seen = [f[p].seen EXCEPT !.run = n]]]
      BY ONLY p \in Procs DEF ProcState, Row
    <3>2. named \in Bots \cup {NoBot} /\ proc \in [Procs -> ProcState]
      BY <1>1 DEF ProcsTyped
    <3> HIDE DEF named
    <3> QED BY <2>1, <3>1, <3>2, Zenon
  <2>3. named \in {b, NoBot} /\ (env.workers = {} => named = NoBot)
    BY <1>1 DEF ControlInv, RowsSound, NoRuns
  <2> HIDE DEF named
  <2>4. /\ o \in ProcState /\ o.pc = "grant" /\ o.op = "takeover" /\ o.bot = b
        /\ o.seen.run = named /\ o.seen.lease = proc[p].seen.lease
    BY <1>1, <2>3 DEF ProcState, Row
  <2> HIDE DEF o
  <2>5. Moved(p, "grant", "takeover", b, o.seen)
    BY <2>2, <2>4, StateMoves
  <2>6. Fine(p)'
    <3>1. "grant" \notin DenialPcs \cup TeachPcs \cup LetGoPcs /\ "takeover" \notin TeachOps
      BY DEF DenialPcs, TeachPcs, LetGoPcs, TeachOps
    <3> QED BY <1>1, <2>3, <2>4, <2>5, <3>1 DEF Fine, Moved, Quiet, SameEnv
  <2> QED BY <1>1, <2>5, <2>6, ControlMove
<1> QED BY <1>2, <1>3

(* An expiry reads, revokes or gives up.                                   *)
LEMMA ExpireReadsKeeps ==
  ASSUME ControlInv, UNCHANGED <<skill, expiry, local>>, NEW p \in Procs,
         expireReads(p) \/ expireRevokes(p)
  PROVE  ControlInv'
<1> USE RowSets, PcNames
<1>1. CASE expireReads(p)
  <2>1. proc[p].pc \notin TeachPcs
    BY <1>1 DEF expireReads, At
  <2>2. job' \in BOOLEAN
    BY <1>1 DEF expireReads, scheduleComputerControlExpiry
  <2>3. Quiet /\ RowsKept
    BY <1>1, <2>2, QuietOf DEF expireReads, NoFault
  <2>4. CASE GoesSeeing(p, "deny") /\ computer.due
    <3>0. "deny" \in Pcs
      BY DEF Pcs, DenialPcs
    <3>1. Moved(p, "deny", proc[p].op, proc[p].bot, computer)
      BY <2>4, <3>0, GoesSeeingMoves
    <3>2. computer.lease # NoLease
      BY <2>4 DEF ControlInv, RowsSound, LeaseIsWhole
    <3>3. "deny" \in DenialPcs /\ "deny" \notin TakeoverPcs \cup TeachPcs \cup LetGoPcs
      BY DEF DenialPcs, TeachPcs, LetGoPcs, TakeoverPcs
    <3>4. Fine(p)'
      BY <2>1, <2>3, <2>4, <3>1, <3>2, <3>3 DEF Fine, Moved, Quiet
    <3> QED BY <2>3, <3>1, <3>4, ControlMove
  <2>5. CASE Returns(p) \/ Ends(p)
    BY <2>1, <2>3, <2>5, ReturnsKeeps, EndsKeeps
  <2> QED BY <1>1, <2>4, <2>5 DEF expireReads
<1>2. CASE expireRevokes(p)
  <2>1. proc[p].pc = "expireRevoke"
    BY <1>2 DEF expireRevokes, At
  <2>2. screen' \in [Bots -> 0 .. MaxLeases] /\ job' \in BOOLEAN
    BY <1>2, ScreenDoes DEF expireRevokes, ControlInv
  <2>3. Quiet /\ RowsKept /\ (Goes(p, "expireFinalize") \/ Ends(p))
    BY <1>2, <2>2, QuietOf DEF expireRevokes
  <2>4. CASE Goes(p, "expireFinalize")
    <3>0. "expireFinalize" \in Pcs
      BY DEF Pcs, DenialPcs
    <3>1. Moved(p, "expireFinalize", proc[p].op, proc[p].bot, proc[p].seen)
      BY <2>4, <3>0, GoesMoves
    <3>2. {"expireFinalize", "expireRevoke"} \subseteq DenialPcs
          /\ {"expireFinalize", "expireRevoke"} \cap (TakeoverPcs \cup TeachPcs \cup LetGoPcs) = {}
      BY DEF DenialPcs, TeachPcs, LetGoPcs, TakeoverPcs
    <3>3. Fine(p)'
      BY <2>1, <2>3, <3>1, <3>2 DEF Fine, Moved, Quiet, SameEnv, Taught
    <3> QED BY <2>3, <3>1, <3>3, ControlMove
  <2>5. CASE Ends(p)
    BY <2>3, <2>5, EndsKeeps
  <2> QED BY <2>3, <2>4, <2>5
<1> QED BY <1>1, <1>2

-----------------------------------------------------------------------------
(* The steps that write the control columns *)

LEMMA RowsOf ==
  ASSUME ControlInv, UNCHANGED <<issued, skill, expiry>>, SameEnv,
         computer' \in Row, LeaseIsWhole', ~Taught => BindingIsOwn',
         env.workers = {} => computer'.run = NoBot,
         \/ computer'.lease = computer.lease /\ (~Taught /\ computer.due => computer'.due)
         \/ computer'.lease = NoLease,
         screen' \in [Bots -> 0 .. MaxLeases], job' \in BOOLEAN,
         run' \in [Bots -> {"none", "running", "waiting", "queued"}],
         \A b \in Bots : run'[b] # "none" => run[b] # "none" \/ b \in env.workers
  PROVE  RowsKept
<1> USE DEF ControlInv, SameEnv
<1>1. RowsTyped'
  BY DEF RowsTyped
<1>2. LeasesLast' /\ SessionsEnd' /\ NoTeaching' /\ OwnBinding' /\ NoRuns'
  BY DEF RowsSound, LeasesLast, SessionsEnd, NoTeaching, OwnBinding, NoRuns, Taught
<1>3. Onward
  BY DEF RowsTyped, Onward
<1> QED BY <1>1, <1>2, <1>3 DEF RowsSound, RowsKept

(* The lease leaves the row, and maybe the name of a run that waits stays. *)
LEMMA LeaseGoes ==
  ASSUME ControlInv, UNCHANGED <<issued, screen, skill, expiry, env>>,
         NEW h \in {"none", "bot"}, NEW r \in Bots \cup {NoBot}, env.workers = {} => r = NoBot,
         computer' \in {Free(h), [Free(h) EXCEPT !.run = r]}, job' \in BOOLEAN,
         run' \in [Bots -> {"none", "running", "waiting", "queued"}],
         \A b \in Bots : run'[b] # "none" => run[b] # "none" \/ b \in env.workers
  PROVE  RowsKept
<1>1. /\ computer' \in Row /\ computer'.holder = h /\ computer'.lease = NoLease
      /\ computer'.bot = NoBot /\ computer'.due = FALSE /\ computer'.run \in {r, NoBot}
  BY ControlFacts DEF Free, Row
<1>2. SameEnv /\ screen' \in [Bots -> 0 .. MaxLeases]
  BY DEF ControlInv, RowsTyped, SameEnv
<1>3. LeaseIsWhole' /\ BindingIsOwn'
  BY <1>1, ControlFacts DEF LeaseIsWhole, BindingIsOwn, ControlInv, RowsTyped
<1> QED BY <1>1, <1>2, <1>3, RowsOf

LEMMA RowsStay ==
  ASSUME ControlInv, UNCHANGED <<computer, issued, screen, run, skill, expiry, env>>, job' \in BOOLEAN
  PROVE  RowsKept
BY QuietOf DEF ControlInv, RowsTyped

LEMMA ClearDoes ==
  ASSUME ControlInv, UNCHANGED <<issued, screen, run, skill, expiry, env>>, NEW l, ClearLease(l)
  PROVE  RowsKept
<1>1. CASE computer.lease = l
  BY <1>1, LeaseGoes DEF ClearLease, ControlInv, RowsTyped
<1>2. CASE computer.lease # l
  BY <1>2, RowsStay DEF ClearLease, ControlInv, RowsTyped
<1> QED BY <1>1, <1>2

LEMMA ReleaseDoes ==
  ASSUME ControlInv, UNCHANGED <<issued, screen, skill, expiry, env>>, NEW seen,
         NEW h \in {"none", "bot"}, finalizeComputerControlRelease(seen, h)
  PROVE  RowsKept
<1>1. CASE Matches(seen)
  <2>1. /\ computer' = Free(h) /\ job' = FALSE
        /\ run' = [b \in Bots |-> IF b = seen.run /\ b = seen.bot /\ run[b] = "waiting"
                                  THEN "queued" ELSE run[b]]
    BY <1>1 DEF finalizeComputerControlRelease
  <2>2. /\ run' \in [Bots -> {"none", "running", "waiting", "queued"}]
        /\ \A b \in Bots : run'[b] # "none" => run[b] # "none" \/ b \in env.workers
    BY <2>1 DEF ControlInv, RowsTyped
  <2> QED BY <2>1, <2>2, LeaseGoes
<1>2. CASE ~Matches(seen)
  BY <1>2, RowsStay DEF finalizeComputerControlRelease, ControlInv, RowsTyped
<1> QED BY <1>1, <1>2

LEMMA ClearsKeeps ==
  ASSUME ControlInv, UNCHANGED <<skill, expiry, local>>, NEW p \in Procs,
         evictClears(p) \/ takeoverUndoes(p) \/ releaseFinalizes(p) \/ expireFinalizes(p)
  PROVE  ControlInv'
<1> USE RowSets, PcNames
<1>1. CASE evictClears(p)
  <2>1. proc[p].pc \notin TeachPcs /\ proc[p].op = "takeover" /\ RowsKept /\ Goes(p, "reread")
    BY <1>1, ClearDoes DEF evictClears, At, Fine
  <2> QED BY <2>1, GoesKeeps
<1>2. CASE takeoverUndoes(p)
  <2>1. RowsKept /\ Ends(p)
    BY <1>2, ClearDoes DEF takeoverUndoes
  <2> QED BY <2>1, EndsKeeps
<1>3. CASE releaseFinalizes(p)
  <2>1. RowsKept /\ Ends(p)
    BY <1>3, ReleaseDoes DEF releaseFinalizes
  <2> QED BY <2>1, EndsKeeps
<1>4. CASE expireFinalizes(p)
  <2>1. "expireFinalize" \notin TeachPcs
    BY DEF TeachPcs, LetGoPcs
  <2>2. proc[p].pc \notin TeachPcs /\ RowsKept /\ Returns(p)
    BY <1>4, <2>1, ReleaseDoes DEF expireFinalizes, At
  <2> QED BY <2>2, ReturnsKeeps
<1> QED BY <1>1, <1>2, <1>3, <1>4

LEMMA TakeoverGrantsKeeps ==
  ASSUME ControlInv, UNCHANGED <<skill, expiry, local>>, NEW p \in Procs, takeoverGrants(p)
  PROVE  ControlInv'
<1> USE RowSets, PcNames
<1>1. /\ proc[p].pc = "grant" /\ proc[p].pc \notin TeachPcs /\ proc[p].op = "takeover"
      /\ proc[p].bot \in Bots /\ UNCHANGED <<screen, run, job>>
      /\ Seen(p).run \in {proc[p].bot, NoBot} /\ (env.workers = {} => Seen(p).run = NoBot)
  BY DEF takeoverGrants, At, Fine
<1>2. CASE /\ Grantable /\ GrantsLease
           /\ computer' = [holder |-> "user", lease |-> issued + 1, bot |-> proc[p].bot,
                           run |-> Seen(p).run, due |-> FALSE]
           /\ proc' = [proc EXCEPT ![p].pc = "schedule", ![p].seen = computer']
  <2>1. /\ env' \in EnvState /\ env'.asks = env.asks /\ env'.workers = env.workers
        /\ issued' = issued + 1 /\ issued' \in 0 .. MaxLeases /\ issued' + env'.leases <= MaxLeases
    BY <1>2, GrantDoes DEF ControlInv, RowsSound
  <2>2. /\ computer' \in Row /\ computer'.holder = "user" /\ computer'.lease = issued'
        /\ computer'.bot = proc[p].bot /\ computer'.run = Seen(p).run /\ computer'.due = FALSE
    BY <1>1, <1>2, <2>1 DEF Row
  <2>3. RowsTyped'
    BY <1>1, <2>1, <2>2 DEF ControlInv, RowsTyped
  <2>4. LeaseIsWhole' /\ LeasesLast'
    BY <1>1, <2>1, <2>2, ControlFacts DEF LeaseIsWhole, LeasesLast
  <2>5. NoTeaching' /\ NoRuns' /\ OwnBinding' /\ SessionsEnd'
    BY <1>1, <2>1, <2>2, ControlFacts
       DEF ControlInv, RowsSound, NoTeaching, NoRuns, OwnBinding, BindingIsOwn, SessionsEnd, Taught
  <2>6. Onward
    BY <2>1, <2>2 DEF Onward
  <2>7. RowsKept
    BY <2>3, <2>4, <2>5, <2>6 DEF RowsKept, RowsSound
  <2>8. Moved(p, "schedule", proc[p].op, proc[p].bot, computer')
    BY <1>2, <2>2, SeeingMoves
  <2>9. computer'.lease <= issued'
    BY <2>1, <2>2
  <2> QED BY <1>1, <2>7, <2>8, <2>9, OnKeeps
<1>3. CASE Ends(p) /\ UNCHANGED <<computer, issued, env>>
  <2>1. RowsKept
    BY <1>1, <1>3, RowsStay
  <2> QED BY <1>3, <2>1, EndsKeeps
<1>4. CASE Goes(p, "adopt") /\ UNCHANGED <<computer, issued, env>>
  <2>1. RowsKept
    BY <1>1, <1>4, RowsStay
  <2> QED BY <1>1, <1>4, <2>1, GoesKeeps
<1> QED BY <1>2, <1>3, <1>4 DEF takeoverGrants

LEMMA BindKeeps ==
  ASSUME ControlInv, UNCHANGED <<skill, expiry, local>>, NEW p \in Procs,
         bindWaitingTakeoverToControl(p)
  PROVE  ControlInv'
<1> USE RowSets, PcNames
<1> DEFINE b == proc[p].bot
<1>1. /\ proc[p].pc \notin TeachPcs /\ proc[p].op = "takeover" /\ b \in Bots
      /\ UNCHANGED <<issued, screen, run, job, env>> /\ Goes(p, "reschedule")
  BY DEF bindWaitingTakeoverToControl, At, Fine
<1>2. CASE UNCHANGED computer
  <2>1. RowsKept
    BY <1>1, <1>2, RowsStay
  <2> QED BY <1>1, <2>1, GoesKeeps
<1>3. CASE run[b] = "waiting" /\ computer.bot = b /\ computer' = [computer EXCEPT !.run = b]
  <2>1. /\ computer' \in Row /\ computer'.run = b /\ computer'.bot = b
        /\ computer'.lease = computer.lease /\ computer'.holder = computer.holder
        /\ computer'.due = computer.due
    BY <1>1, <1>3 DEF Row
  <2>2. LeaseIsWhole' /\ BindingIsOwn' /\ env.workers # {}
    BY <1>1, <1>3, <2>1 DEF ControlInv, RowsSound, LeaseIsWhole, BindingIsOwn, NoRuns
  <2>3. SameEnv /\ run' \in [Bots -> {"none", "running", "waiting", "queued"}]
    BY <1>1 DEF ControlInv, RowsTyped, SameEnv
  <2>4. RowsKept
    BY <1>1, <2>1, <2>2, <2>3, RowsOf
  <2> QED BY <1>1, <2>4, GoesKeeps
<1> QED BY <1>2, <1>3 DEF bindWaitingTakeoverToControl

LEMMA ExpireDeniesKeeps ==
  ASSUME ControlInv, UNCHANGED <<skill, expiry, local>>, NEW p \in Procs, expireDenies(p)
  PROVE  ControlInv'
<1> USE RowSets, PcNames
<1>1. /\ proc[p].pc = "deny" /\ UNCHANGED <<issued, screen, run, job, env>>
  BY DEF expireDenies, At
<1>2. {"expireRevoke", "deny"} \subseteq DenialPcs /\ "expireRevoke" \in Pcs
      /\ {"expireRevoke", "deny"} \cap (TakeoverPcs \cup TeachPcs \cup LetGoPcs) = {}
  BY DEF DenialPcs, TeachPcs, LetGoPcs, TakeoverPcs, Pcs
<1>3. CASE computer.lease = Seen(p).lease
  <2>1. computer' = [computer EXCEPT !.holder = "none"] /\ Goes(p, "expireRevoke")
    BY <1>3 DEF expireDenies, Denied
  <2>2. /\ computer' \in Row /\ computer'.holder = "none" /\ computer'.lease = computer.lease
        /\ computer'.run = computer.run /\ computer'.bot = computer.bot
        /\ computer'.due = computer.due
    BY <2>1 DEF Row
  <2>3. LeaseIsWhole' /\ (~Taught => BindingIsOwn') /\ (env.workers = {} => computer'.run = NoBot)
    BY <1>1, <2>2 DEF ControlInv, RowsSound, LeaseIsWhole, OwnBinding, BindingIsOwn, NoRuns
  <2>4. SameEnv /\ run' \in [Bots -> {"none", "running", "waiting", "queued"}]
    BY <1>1 DEF ControlInv, RowsTyped, SameEnv
  <2>5. RowsKept
    BY <1>1, <2>2, <2>3, <2>4, RowsOf
  <2>6. Moved(p, "expireRevoke", proc[p].op, proc[p].bot, proc[p].seen)
    BY <1>2, <2>1, GoesMoves
  <2>7. Fine(p)'
    BY <1>1, <1>2, <2>2, <2>6 DEF Fine, Moved, Taught
  <2> QED BY <2>5, <2>6, <2>7, ControlMove
<1>4. CASE computer.lease # Seen(p).lease
  <2>1. RowsKept /\ Returns(p)
    BY <1>1, <1>4, RowsStay DEF expireDenies
  <2> QED BY <1>1, <1>2, <2>1, ReturnsKeeps
<1> QED BY <1>3, <1>4

(* The clock, the reconciler and the runs.                                 *)
LEMMA LapsesKeeps ==
  ASSUME ControlInv, UNCHANGED <<skill, expiry, local>>, leaseLapses \/ reconcileOnce
  PROVE  ControlInv'
<1>1. CASE reconcileOnce
  <2>1. RowsKept /\ UNCHANGED proc
    BY <1>1, RowsStay DEF reconcileOnce, scheduleComputerControlExpiry
  <2> QED BY <2>1, RowKeeps DEF RowsKept
<1>2. CASE leaseLapses
  <2>1. /\ UNCHANGED <<issued, screen, run, job, proc, env>> /\ computer.lease # NoLease
        /\ computer' = [computer EXCEPT !.due = TRUE] /\ computer \in Row
    BY <1>2 DEF leaseLapses, ControlInv, RowsTyped
  <2>2. /\ computer' \in Row /\ computer'.holder = computer.holder /\ computer'.lease = computer.lease
        /\ computer'.run = computer.run /\ computer'.bot = computer.bot
        /\ computer'.due = TRUE
    BY <2>1 DEF Row
  <2>3. LeaseIsWhole' /\ (~Taught => BindingIsOwn') /\ (env.workers = {} => computer'.run = NoBot)
    BY <2>1, <2>2 DEF ControlInv, RowsSound, LeaseIsWhole, OwnBinding, BindingIsOwn, NoRuns
  <2>4. /\ SameEnv /\ run' \in [Bots -> {"none", "running", "waiting", "queued"}]
        /\ screen' \in [Bots -> 0 .. MaxLeases] /\ job' \in BOOLEAN
    BY <2>1 DEF ControlInv, RowsTyped, SameEnv
  <2>5. RowsKept
    BY <2>1, <2>2, <2>3, <2>4, RowsOf
  <2> QED BY <2>1, <2>5, RowKeeps DEF RowsKept
<1> QED BY <1>1, <1>2

LEMMA RunsKeep ==
  ASSUME ControlInv, UNCHANGED <<skill, expiry, local>>, NEW b \in Bots, RunStep(b)
  PROVE  ControlInv'
<1>1. PICK status \in {"none", "running", "waiting"} :
        /\ run' = [run EXCEPT ![b] = status] /\ (status # "none" => run[b] # "none" \/ b \in env.workers)
        /\ UNCHANGED <<issued, screen, proc, env>>
  BY DEF RunStep, runTakesComputer, pauseRunForTakeover, runEnds
<1>2. /\ run' \in [Bots -> {"none", "running", "waiting", "queued"}]
      /\ \A c \in Bots : run'[c] # "none" => run[c] # "none" \/ c \in env.workers
      /\ SameEnv /\ screen' \in [Bots -> 0 .. MaxLeases]
  BY <1>1 DEF ControlInv, RowsTyped, SameEnv
<1>3. CASE UNCHANGED computer
  <2>1. job' \in BOOLEAN
    BY DEF RunStep, runTakesComputer, pauseRunForTakeover, runEnds, ControlInv, RowsTyped
  <2>2. Quiet
    BY <1>1, <1>2, <1>3, <2>1 DEF Quiet, ControlInv, RowsTyped
  <2> QED BY <1>1, <2>2, QuietRows, RowKeeps DEF RowsKept
<1>4. CASE pauseRunForTakeover(b) /\ computer' # computer
  <2>1. job' \in BOOLEAN /\ run[b] = "running" /\ computer \in Row
    BY <1>4 DEF pauseRunForTakeover, ControlInv, RowsTyped
  <2>2. env.workers # {}
    BY <2>1 DEF ControlInv, RowsSound, NoRuns
  <2>3. CASE Retains(b)
    <3>1. computer' = [computer EXCEPT !.run = b] /\ computer.bot = b
      BY <1>4, <2>3 DEF pauseRunForTakeover, Retains
    <3>2. /\ computer' \in Row /\ computer'.run = b /\ computer'.bot = b
          /\ computer'.lease = computer.lease /\ computer'.holder = computer.holder
          /\ computer'.due = computer.due
      BY <2>1, <3>1 DEF Row
    <3>3. LeaseIsWhole' /\ BindingIsOwn'
      BY <1>1, <3>1, <3>2 DEF ControlInv, RowsSound, LeaseIsWhole, BindingIsOwn
    <3>4. RowsKept
      BY <1>1, <1>2, <2>1, <2>2, <3>2, <3>3, RowsOf
    <3> QED BY <1>1, <3>4, RowKeeps DEF RowsKept
  <2>4. CASE ~Retains(b)
    <3>1. computer' = [Free("none") EXCEPT !.run = b]
      BY <1>4, <2>4 DEF pauseRunForTakeover
    <3>2. RowsKept
      BY <1>1, <1>2, <2>1, <2>2, <3>1, LeaseGoes
    <3> QED BY <1>1, <3>2, RowKeeps DEF RowsKept
  <2> QED BY <2>3, <2>4
<1> QED BY <1>3, <1>4 DEF RunStep, runTakesComputer, runEnds

LEMMA ControlStepKeeps ==
  ASSUME ControlInv, ControlStep
  PROVE  ControlInv'
<1> USE DEF ControlStep
<1>1. ASSUME NEW p \in Procs, Request(p) \/ controlExpireJob(p) PROVE ControlInv'
  BY <1>1, RequestKeeps
<1>2. ASSUME NEW p \in Procs, Proceed(p) PROVE ControlInv'
  BY <1>2, CallKeeps, TakeoverReadsKeeps, TakeoverChecksKeeps, ExpireReadsKeeps, ClearsKeeps,
     TakeoverGrantsKeeps, BindKeeps, ExpireDeniesKeeps DEF Proceed
<1>3. ASSUME NEW b \in Bots, RunStep(b) PROVE ControlInv'
  BY <1>3, RunsKeep
<1> QED BY <1>1, <1>2, <1>3, LapsesKeeps

-----------------------------------------------------------------------------
(* The steps of a session *)

SessionPcs == {"skillFinalize", "skillRelease", "removeCancel"} \cup LetGoPcs
OwnLeasePcs == {"skillRelease", "removeCancel"} \cup LetGoPcs

LocalMoved(p, s, lease) ==
  /\ local' \in [Procs -> Local] /\ local'[p].skill = s /\ local'[p].lease = lease
  /\ \A q \in Procs \ {p} : local'[q] = local[q]

LEMMA LocalDoes ==
  ASSUME ProcsTyped, NEW p \in Procs
  PROVE  /\ local[p] \in Local
         /\ UNCHANGED local => LocalMoved(p, local[p].skill, local[p].lease)
         /\ \A s \in Skills : local' = [local EXCEPT ![p].skill = s] => LocalMoved(p, s, local[p].lease)
         /\ \A l \in 0 .. MaxLeases :
              local' = [local EXCEPT ![p].lease = l] => LocalMoved(p, local[p].skill, l)
         /\ \A s \in Skills, l \in 0 .. MaxLeases :
              local' = [local EXCEPT ![p].skill = s, ![p].lease = l] => LocalMoved(p, s, l)
         /\ \A l \in 0 .. MaxLeases, d \in BOOLEAN :
              local' = [local EXCEPT ![p].lease = l, ![p].draft = d]
                => LocalMoved(p, local[p].skill, l)
         /\ \A l \in 0 .. MaxLeases, d \in BOOLEAN :
              local' = [local EXCEPT ![p].lease = l, ![p].completes = TRUE, ![p].draft = d]
                => LocalMoved(p, local[p].skill, l)
         /\ local' = [local EXCEPT ![p].completes = FALSE]
              => LocalMoved(p, local[p].skill, local[p].lease)
<1> DEFINE m == local[p]
<1>1. m \in Local /\ local \in [Procs -> Local]
  BY DEF ProcsTyped
<1>2. ASSUME NEW n \in Local, local' = [local EXCEPT ![p] = n]
      PROVE  LocalMoved(p, n.skill, n.lease)
  BY <1>1, <1>2 DEF LocalMoved
<1>3. UNCHANGED local => LocalMoved(p, m.skill, m.lease)
  BY <1>1 DEF LocalMoved
<1>4. ASSUME NEW s \in Skills, local' = [local EXCEPT ![p].skill = s] PROVE LocalMoved(p, s, m.lease)
  <2> DEFINE n == [m EXCEPT !.skill = s]
  <2>1. n \in Local /\ n.skill = s /\ n.lease = m.lease /\ local' = [local EXCEPT ![p] = n]
    BY <1>1, <1>4 DEF Local
  <2> QED BY <1>2, <2>1
<1>5. ASSUME NEW l \in 0 .. MaxLeases, local' = [local EXCEPT ![p].lease = l]
      PROVE  LocalMoved(p, m.skill, l)
  <2> DEFINE n == [m EXCEPT !.lease = l]
  <2>1. n \in Local /\ n.skill = m.skill /\ n.lease = l /\ local' = [local EXCEPT ![p] = n]
    BY <1>1, <1>5 DEF Local
  <2> QED BY <1>2, <2>1
<1>6. ASSUME NEW s \in Skills, NEW l \in 0 .. MaxLeases,
             local' = [local EXCEPT ![p].skill = s, ![p].lease = l]
      PROVE  LocalMoved(p, s, l)
  <2> DEFINE n == [m EXCEPT !.skill = s, !.lease = l]
  <2>1. n \in Local /\ n.skill = s /\ n.lease = l /\ local' = [local EXCEPT ![p] = n]
    BY <1>1, <1>6 DEF Local
  <2> QED BY <1>2, <2>1
<1>7. ASSUME NEW l \in 0 .. MaxLeases, NEW d \in BOOLEAN,
             local' = [local EXCEPT ![p].lease = l, ![p].draft = d]
      PROVE  LocalMoved(p, m.skill, l)
  <2> DEFINE n == [m EXCEPT !.lease = l, !.draft = d]
  <2>1. n \in Local /\ n.skill = m.skill /\ n.lease = l /\ local' = [local EXCEPT ![p] = n]
    BY <1>1, <1>7 DEF Local
  <2> QED BY <1>2, <2>1
<1>8. ASSUME NEW l \in 0 .. MaxLeases, NEW d \in BOOLEAN,
             local' = [local EXCEPT ![p].lease = l, ![p].completes = TRUE, ![p].draft = d]
      PROVE  LocalMoved(p, m.skill, l)
  <2> DEFINE n == [m EXCEPT !.lease = l, !.completes = TRUE, !.draft = d]
  <2>1. n \in Local /\ n.skill = m.skill /\ n.lease = l /\ local' = [local EXCEPT ![p] = n]
    BY <1>1, <1>8 DEF Local
  <2> QED BY <1>2, <2>1
<1>9. ASSUME local' = [local EXCEPT ![p].completes = FALSE] PROVE LocalMoved(p, m.skill, m.lease)
  <2> DEFINE n == [m EXCEPT !.completes = FALSE]
  <2>1. n \in Local /\ n.skill = m.skill /\ n.lease = m.lease /\ local' = [local EXCEPT ![p] = n]
    BY <1>1, <1>9 DEF Local
  <2> QED BY <1>2, <2>1
<1> QED BY <1>1, <1>3, <1>4, <1>5, <1>6, <1>7, <1>8, <1>9

LEMMA TeachSets ==
  ASSUME ControlInv, NEW p \in Procs, proc[p].pc \in TeachPcs
  PROVE  /\ proc[p].op \in TeachOps /\ Mine(p) \in Skills /\ Mine(p) = local[p].skill /\ Taught
         /\ local[p].lease \in 0 .. MaxLeases
         /\ skill[Mine(p)] \in Session /\ skill[Mine(p)].lease \in 0 .. MaxLeases
         /\ proc[p].pc \in SessionPcs => skill[Mine(p)].status # "none"
         /\ proc[p].pc \in OwnLeasePcs => local[p].lease = skill[Mine(p)].lease
         /\ proc[p].pc \in LetGoPcs => Seen(p).lease = local[p].lease
BY DEF ControlInv, Fine, Mine, Seen, RowsTyped, ProcsTyped, Local, Session, SessionPcs, OwnLeasePcs

LEMMA TeachNames ==
  /\ SessionPcs \subseteq TeachPcs /\ OwnLeasePcs \subseteq SessionPcs /\ LetGoPcs \subseteq OwnLeasePcs
  /\ {"teachCancel", "teachExtend", "teachGrant", "teachSchedule", "teachCreate", "teachEnqueue",
      "skillRead", "stopRead", "skillEmit", "skillCancel", "skillEnd", "skillDelete"}
       = TeachPcs \ SessionPcs
  /\ {"skillRelease", "removeCancel"} = OwnLeasePcs \ LetGoPcs
  /\ "skillFinalize" \in SessionPcs \ OwnLeasePcs
  /\ {"skillRevoke", "skillUnschedule", "skillLetGo"} = LetGoPcs
  /\ TeachPcs \subseteq Pcs /\ TeachPcs \cap (TakeoverPcs \cup DenialPcs \cup {"grant", "idle"}) = {}
  /\ TeachOps \subseteq Ops /\ "takeover" \notin TeachOps /\ "none" \notin TeachOps
BY DEF SessionPcs, OwnLeasePcs, LetGoPcs, TeachPcs, Pcs, TakeoverPcs, DenialPcs, TeachOps, Ops

LEMMA TeachMove ==
  ASSUME ControlInv, RowsKept, Taught, NEW p \in Procs, NEW pc \in TeachPcs, NEW op \in TeachOps,
         NEW bot, NEW seen, Moved(p, pc, op, bot, seen), seen.lease <= issued',
         NEW s \in Skills, NEW lease, LocalMoved(p, s, lease),
         pc \in SessionPcs => skill'[s].status # "none",
         pc \in OwnLeasePcs => lease = skill'[s].lease,
         pc \in LetGoPcs => seen.lease = lease
  PROVE  ControlInv'
<1>1. Taught'
  BY DEF RowsKept, Onward, Taught
<1>2. Fine(p)'
  BY <1>1, TeachNames DEF Fine, Moved, LocalMoved, SessionPcs, OwnLeasePcs
<1>3. ProcsTyped' /\ \A q \in Procs \ {p} : proc'[q] = proc[q] /\ local'[q] = local[q]
  BY DEF ProcsTyped, Moved, LocalMoved
<1> QED BY <1>2, <1>3, StepKeeps DEF RowsKept

(* A session's request goes on to a step that needs to know nothing more.  *)
LEMMA TeachGoes ==
  ASSUME ControlInv, RowsKept, NEW p \in Procs, proc[p].pc \in TeachPcs,
         NEW pc \in TeachPcs \ SessionPcs, Goes(p, pc), NEW lease, LocalMoved(p, local[p].skill, lease)
  PROVE  ControlInv'
<1>1. pc \in TeachPcs /\ pc \in Pcs /\ pc \notin SessionPcs /\ pc \notin OwnLeasePcs /\ pc \notin LetGoPcs
  BY TeachNames
<1>2. Moved(p, pc, proc[p].op, proc[p].bot, proc[p].seen) /\ proc[p].seen.lease <= issued'
  BY <1>1, GoesMoves, RowSets, KeptLeases
<1>3. proc[p].op \in TeachOps /\ local[p].skill \in Skills /\ Taught
  BY TeachSets
<1> QED BY <1>1, <1>2, <1>3, TeachMove

LEMMA DoneKeeps ==
  ASSUME ControlInv, RowsKept, NEW p \in Procs, Done(p)
  PROVE  ControlInv'
<1>1. Moved(p, "idle", "none", NoBot, Free("none"))
  BY EndsMoves, RowSets DEF Done
<1>2. NoLocal \in Local
  BY ControlFacts DEF NoLocal, Local
<1>3. local' \in [Procs -> Local] /\ \A q \in Procs \ {p} : local'[q] = local[q]
  BY <1>2 DEF Done, ControlInv, ProcsTyped
<1>4. Free("none").lease <= issued'
  BY ControlFacts, KeptLeases
<1>5. Fine(p)'
  <2>1. "idle" \notin TakeoverPcs \cup TeachPcs \cup DenialPcs \cup LetGoPcs /\ "none" \notin TeachOps
    BY DEF TakeoverPcs, TeachPcs, DenialPcs, LetGoPcs, TeachOps
  <2> QED BY <1>1, <1>4, <2>1 DEF Fine, Moved
<1> QED BY <1>1, <1>3, <1>5, StepKeeps DEF RowsKept, Moved, ProcsTyped

(* What the steps of a session do to the rows.                             *)
LEMMA TaughtQuiet ==
  ASSUME ControlInv, Taught, UNCHANGED <<computer, issued, skill>>,
         Fault \/ UNCHANGED env \/ (\E p \in Procs : Crash(p)),
         screen' \in [Bots -> 0 .. MaxLeases], job' \in BOOLEAN, expiry' \subseteq Skills,
         UNCHANGED run \/ run' = [run EXCEPT ![Teacher] = "none"]
  PROVE  RowsKept
<1>1. SameEnv
  BY EnvDoes DEF ControlInv, NoFault
<1>2. run' \in [Bots -> {"none", "running", "waiting", "queued"}]
      /\ \A b \in Bots : run'[b] # "none" => run[b] # "none"
  BY DEF ControlInv, RowsTyped
<1>3. Quiet
  BY <1>1, <1>2 DEF Quiet
<1> QED BY <1>3, QuietRows

LEMMA ThrowsKeeps ==
  ASSUME ControlInv, NEW p \in Procs, proc[p].pc \in TeachPcs, Throws(p),
         UNCHANGED <<computer, issued, skill, screen, run, job>>
  PROVE  ControlInv'
<1>1. expiry' \subseteq Skills /\ Taught /\ Done(p) /\ Fault
  BY TeachSets DEF Throws, ControlInv, RowsTyped
<1>2. RowsKept
  BY <1>1, TaughtQuiet DEF ControlInv, RowsTyped
<1> QED BY <1>1, <1>2, DoneKeeps

LEMMA RestKept ==
  ASSUME ControlInv, Taught, UNCHANGED <<computer, skill>>, Rest, Fault \/ UNCHANGED env,
         expiry' \subseteq Skills
  PROVE  RowsKept
BY TaughtQuiet DEF Rest, ControlInv, RowsTyped

(* A session is written.                                                   *)
LEMMA SkillRows ==
  ASSUME ControlInv, UNCHANGED <<computer, issued, screen, run, job, env, expiry>>, Taught,
         NEW s \in Skills, NEW r \in Session, skill' = [skill EXCEPT ![s] = r],
         skill[s].status # "none" => r.status # "none" /\ r.lease = skill[s].lease,
         r.status \in {"none", "recording"} => r.stopped = 0, r.stopped <= 1, r.posted <= 1
  PROVE  RowsKept /\ skill'[s] = r
<1>1. /\ skill' \in [Skills -> Session] /\ skill'[s] = r /\ \A t \in Skills \ {s} : skill'[t] = skill[t]
  BY DEF ControlInv, RowsTyped
<1>2. RowsTyped'
  BY <1>1 DEF ControlInv, RowsTyped
<1>3. LeaseIsWhole' /\ LeasesLast' /\ NoTeaching' /\ NoRuns' /\ OwnBinding'
  BY DEF ControlInv, RowsSound, LeaseIsWhole, LeasesLast, NoTeaching, NoRuns, OwnBinding,
         BindingIsOwn, Taught
<1>4. SessionsEnd'
  BY <1>1 DEF ControlInv, RowsSound, SessionsEnd
<1>5. Onward
  BY <1>1 DEF Onward, ControlInv, RowsTyped
<1> QED BY <1>1, <1>2, <1>3, <1>4, <1>5 DEF RowsKept, RowsSound

LEMMA WhereToGo ==
  ASSUME NEW p \in Procs
  PROVE  {Returning(p), AfterEmit(p), AfterRelease(p)} \subseteq TeachPcs \ SessionPcs
BY TeachNames DEF Returning, AfterEmit, AfterRelease

LEMMA TeachRequestKeeps ==
  ASSUME ControlInv, NEW p \in Procs, NEW s \in Skills,
         startReads(p, s) \/ stopTeachingSession(p, s) \/ removeReads(p, s) \/ teachingExpireJob(p, s)
  PROVE  ControlInv'
<1> USE RowSets, TeachNames, ControlFacts
<1>1. /\ UNCHANGED <<computer, env, skill>> /\ Rest /\ expiry' \subseteq Skills
      /\ skill[s].lease \in 0 .. MaxLeases
  BY DEF startReads, stopTeachingSession, removeReads, teachingExpireJob, ControlInv, RowsTyped,
     Session
<1>2. Taught
  BY DEF startReads, stopTeachingSession, removeReads, teachingExpireJob, Asked, Taught, ControlInv,
     RowsSound, NoTeaching
<1>3. RowsKept
  BY <1>1, <1>2, RestKept
<1>4. ASSUME NEW op \in TeachOps, NEW pc \in TeachPcs \ SessionPcs, Starts(p, op, Teacher, pc),
             local' = [local EXCEPT ![p].skill = s]
      PROVE  ControlInv'
  <2>1. Moved(p, pc, op, Teacher, computer)
    BY <1>4, StartsMoves
  <2>2. LocalMoved(p, s, local[p].lease)
    BY <1>4, LocalDoes
  <2>3. computer.lease <= issued'
    BY <1>3, KeptLeases
  <2> QED BY <1>2, <1>3, <2>1, <2>2, <2>3, TeachMove
<1>5. CASE startReads(p, s)
  BY <1>4, <1>5 DEF startReads, TeachOps
<1>6. CASE stopTeachingSession(p, s)
  BY <1>4, <1>6 DEF stopTeachingSession, TeachOps
<1>7. CASE teachingExpireJob(p, s)
  BY <1>4, <1>7 DEF teachingExpireJob, TeachOps
<1>8. CASE removeReads(p, s)
  <2>1. Moved(p, "removeCancel", "skillRemove", Teacher, computer)
    BY <1>8, StartsMoves DEF removeReads, TeachOps
  <2>2. LocalMoved(p, s, skill[s].lease)
    BY <1>1, <1>8, LocalDoes DEF removeReads
  <2>3. computer.lease <= issued' /\ skill'[s].status # "none" /\ skill'[s].lease = skill[s].lease
    BY <1>1, <1>3, <1>8, KeptLeases DEF removeReads
  <2>4. "removeCancel" \in TeachPcs /\ "removeCancel" \notin LetGoPcs /\ "skillRemove" \in TeachOps
    BY DEF TeachOps
  <2> QED BY <1>2, <1>3, <2>1, <2>2, <2>3, <2>4, TeachMove
<1> QED BY <1>5, <1>6, <1>7, <1>8

LEMMA TeachStartKeeps ==
  ASSUME ControlInv, NEW p \in Procs, cancelActiveRuns(p) \/ teachSchedules(p) \/ teachEnqueues(p)
  PROVE  ControlInv'
<1> USE RowSets, TeachNames
<1>1. CASE cancelActiveRuns(p)
  <2>1. proc[p].pc \in TeachPcs
    BY <1>1 DEF cancelActiveRuns, At
  <2>2. RowsKept
    BY <1>1, <2>1, TeachSets, TaughtQuiet DEF cancelActiveRuns, ControlInv, RowsTyped
  <2>3. PICK pc \in {"teachExtend", "teachGrant"} : Goes(p, pc) /\ UNCHANGED local
    BY <1>1 DEF cancelActiveRuns
  <2>4. LocalMoved(p, local[p].skill, local[p].lease)
    BY <2>3, LocalDoes
  <2> QED BY <2>1, <2>2, <2>3, <2>4, TeachGoes
<1>2. CASE teachSchedules(p)
  <2>1. proc[p].pc \in TeachPcs /\ UNCHANGED <<computer, issued, screen, run, skill>>
    BY <1>2 DEF teachSchedules, At
  <2>2. CASE Throws(p) /\ UNCHANGED job
    BY <2>1, <2>2, ThrowsKeeps
  <2>3. CASE /\ scheduleComputerControlExpiry(local[p].lease) /\ Goes(p, "teachCreate")
             /\ UNCHANGED <<env, expiry, local>>
    <3>1. RowsKept
      BY <2>1, <2>3, TeachSets, TaughtQuiet DEF scheduleComputerControlExpiry, ControlInv, RowsTyped
    <3>2. LocalMoved(p, local[p].skill, local[p].lease)
      BY <2>3, LocalDoes
    <3> QED BY <2>1, <2>3, <3>1, <3>2, TeachGoes
  <2> QED BY <1>2, <2>2, <2>3 DEF teachSchedules
<1>3. CASE teachEnqueues(p)
  <2>1. proc[p].pc \in TeachPcs /\ UNCHANGED <<computer, skill>> /\ Rest
    BY <1>3 DEF teachEnqueues, At
  <2>2. CASE Throws(p)
    BY <2>1, <2>2, ThrowsKeeps DEF Rest
  <2>3. CASE expiry' = expiry \cup {Mine(p)} /\ Done(p) /\ NoFault
    <3>1. RowsKept
      BY <2>1, <2>3, TeachSets, RestKept DEF NoFault, ControlInv, RowsTyped
    <3> QED BY <2>3, <3>1, DoneKeeps
  <2> QED BY <1>3, <2>2, <2>3 DEF teachEnqueues
<1> QED BY <1>1, <1>2, <1>3

LEMMA ExtendKeeps ==
  ASSUME ControlInv, NEW p \in Procs, extendActiveComputerControl(p)
  PROVE  ControlInv'
<1> USE RowSets, TeachNames
<1>1. /\ proc[p].pc \in TeachPcs /\ UNCHANGED <<env, skill, expiry>> /\ Rest
      /\ env' \in EnvState /\ screen' \in [Bots -> 0 .. MaxLeases] /\ job' \in BOOLEAN
      /\ run' \in [Bots -> {"none", "running", "waiting", "queued"}] /\ expiry' \subseteq Skills
  BY DEF extendActiveComputerControl, At, Rest, ControlInv, RowsTyped
<1>2. CASE /\ computer' = [computer EXCEPT !.due = FALSE]
           /\ local' = [local EXCEPT ![p].lease = computer.lease] /\ Goes(p, "teachSchedule")
  <2>1. /\ computer' \in Row /\ computer'.holder = computer.holder /\ computer'.lease = computer.lease
        /\ computer'.run = computer.run /\ computer'.bot = computer.bot /\ computer'.due = FALSE
    BY <1>2 DEF Row
  <2>2. LeaseIsWhole' /\ (env.workers = {} => computer'.run = NoBot)
    BY <1>1, <2>1 DEF Rest, ControlInv, RowsSound, LeaseIsWhole, NoRuns
  <2>3. SameEnv
    BY <1>1 DEF SameEnv
  <2>4. RowsKept
    BY <1>1, <2>1, <2>2, <2>3, TeachSets, RowsOf DEF Rest
  <2>5. LocalMoved(p, local[p].skill, computer.lease)
    BY <1>2, LocalDoes
  <2> QED BY <1>1, <1>2, <2>4, <2>5, TeachGoes
<1>3. CASE Goes(p, "teachGrant") /\ UNCHANGED <<computer, local>>
  <2>1. RowsKept
    BY <1>1, <1>3, TeachSets, RestKept
  <2>2. LocalMoved(p, local[p].skill, local[p].lease)
    BY <1>3, LocalDoes
  <2> QED BY <1>1, <1>3, <2>1, <2>2, TeachGoes
<1> QED BY <1>2, <1>3 DEF extendActiveComputerControl

LEMMA TeachGrantKeeps ==
  ASSUME ControlInv, NEW p \in Procs, grantTakeover(p)
  PROVE  ControlInv'
<1> USE RowSets, TeachNames, ControlFacts
<1>1. /\ proc[p].pc \in TeachPcs /\ UNCHANGED <<screen, run, skill, expiry>>
  BY DEF grantTakeover, At
<1>2. CASE Done(p) /\ UNCHANGED <<computer, issued, job, env>>
  <2>1. RowsKept
    BY <1>1, <1>2, RowsStay DEF ControlInv, RowsTyped
  <2> QED BY <1>2, <2>1, DoneKeeps
<1>3. CASE /\ GrantsLease
           /\ computer' = [computer EXCEPT !.holder = "user", !.lease = issued + 1,
                                           !.bot = Teacher, !.due = FALSE]
           /\ job' = FALSE
           /\ local' = [local EXCEPT ![p].lease = issued + 1]
           /\ Goes(p, "teachSchedule")
  <2>1. /\ env' \in EnvState /\ env'.asks = env.asks /\ env'.workers = env.workers
        /\ issued' = issued + 1 /\ issued' \in 0 .. MaxLeases /\ issued' + env'.leases <= MaxLeases
    BY <1>3, GrantDoes DEF ControlInv, RowsSound
  <2>2. /\ computer' \in Row /\ computer'.holder = "user" /\ computer'.lease = issued'
        /\ computer'.bot = Teacher /\ computer'.run = computer.run /\ computer'.due = FALSE
    BY <1>3, <2>1 DEF Row
  <2>3. RowsTyped'
    BY <1>1, <1>3, <2>1, <2>2 DEF ControlInv, RowsTyped
  <2>4. LeaseIsWhole' /\ LeasesLast'
    BY <2>1, <2>2 DEF LeaseIsWhole, LeasesLast
  <2>5. NoTeaching' /\ NoRuns' /\ OwnBinding' /\ SessionsEnd'
    BY <1>1, <2>1, <2>2, TeachSets
       DEF ControlInv, RowsSound, NoTeaching, NoRuns, OwnBinding, SessionsEnd, Taught
  <2>6. Onward
    BY <1>1, <2>1, <2>2 DEF Onward
  <2>7. RowsKept
    BY <2>3, <2>4, <2>5, <2>6 DEF RowsKept, RowsSound
  <2>8. LocalMoved(p, local[p].skill, issued')
    BY <1>3, <2>1, LocalDoes
  <2> QED BY <1>1, <1>3, <2>7, <2>8, TeachGoes
<1> QED BY <1>2, <1>3 DEF grantTakeover

LEMMA TeachCreatesKeeps ==
  ASSUME ControlInv, NEW p \in Procs, teachCreates(p)
  PROVE  ControlInv'
<1> USE RowSets, TeachNames
<1> DEFINE s == Mine(p)
<1>1. /\ proc[p].pc \in TeachPcs /\ UNCHANGED <<computer, env, expiry>> /\ Rest
  BY DEF teachCreates, At
<1>2. s \in Skills /\ s = local[p].skill /\ Taught /\ skill[s] \in Session /\ local[p].lease \in 0 .. MaxLeases
      /\ skill \in [Skills -> Session]
  BY <1>1, TeachSets DEF ControlInv, RowsTyped
<1> HIDE DEF s
<1>3. CASE Done(p) /\ UNCHANGED skill
  <2>1. RowsKept
    BY <1>1, <1>2, <1>3, RestKept DEF ControlInv, RowsTyped
  <2> QED BY <1>3, <2>1, DoneKeeps
<1>4. CASE /\ skill[s].status = "none"
           /\ skill' = [skill EXCEPT ![s].status = "recording", ![s].lease = local[p].lease]
           /\ Goes(p, "teachEnqueue") /\ UNCHANGED local
  <2> DEFINE r == [skill[s] EXCEPT !.status = "recording", !.lease = local[p].lease]
  <2>1. /\ r \in Session /\ r.status = "recording" /\ r.stopped = skill[s].stopped
        /\ r.posted = skill[s].posted
    BY <1>2 DEF Session
  <2>2. skill' = [skill EXCEPT ![s] = r]
    BY <1>2, <1>4
  <2> HIDE DEF r
  <2>3. r.stopped = 0 /\ r.posted <= 1
    BY <1>2, <1>4, <2>1 DEF ControlInv, RowsSound, SessionsEnd
  <2>4. /\ skill[s].status # "none" => r.status # "none" /\ r.lease = skill[s].lease
        /\ r.status \in {"none", "recording"} => r.stopped = 0
        /\ r.stopped <= 1
        /\ UNCHANGED <<computer, issued, screen, run, job, env, expiry>>
    BY <1>1, <1>4, <2>3 DEF Rest
  <2>5. RowsKept
    BY <1>2, <2>1, <2>2, <2>3, <2>4, SkillRows
  <2>6. LocalMoved(p, local[p].skill, local[p].lease)
    BY <1>4, LocalDoes
  <2> QED BY <1>1, <1>4, <2>5, <2>6, TeachGoes
<1> QED BY <1>3, <1>4 DEF teachCreates, s

(* What was read of a session that has begun goes to its release.          *)
LEMMA ToRelease ==
  ASSUME ControlInv, RowsKept, Taught, NEW p \in Procs, NEW op \in TeachOps, NEW bot, NEW seen,
         Moved(p, "skillRelease", op, bot, seen), seen.lease <= issued',
         local[p].skill \in Skills, skill[local[p].skill].status # "none",
         LocalMoved(p, local[p].skill, skill[local[p].skill].lease)
  PROVE  ControlInv'
<1>1. /\ skill'[local[p].skill].status # "none"
      /\ skill'[local[p].skill].lease = skill[local[p].skill].lease
  BY DEF RowsKept, Onward
<1>2. "skillRelease" \in TeachPcs /\ "skillRelease" \notin LetGoPcs
  BY TeachNames
<1> QED BY <1>1, <1>2, TeachMove

LEMMA KnowsDoes ==
  ASSUME ControlInv, NEW p \in Procs, proc[p].pc \in TeachPcs, NEW posts \in BOOLEAN, Knows(p, posts)
  PROVE  LocalMoved(p, local[p].skill, skill[local[p].skill].lease)
<1>1. PICK d \in BOOLEAN : d = (posts /\ skill[Mine(p)].status = "draft")
  OBVIOUS
<1>2. local' = [local EXCEPT ![p].lease = skill[Mine(p)].lease, ![p].draft = d]
  BY <1>1 DEF Knows
<1>3. Mine(p) = local[p].skill /\ skill[Mine(p)].lease \in 0 .. MaxLeases
  BY TeachSets
<1> QED BY <1>2, <1>3, RowSets, LocalDoes

LEMMA ExpireTeachingKeeps ==
  ASSUME ControlInv, NEW p \in Procs, expireTaughtSkillTeaching(p)
  PROVE  ControlInv'
<1> USE RowSets, TeachNames
<1>1. /\ At(p, "skillRead") /\ proc[p].pc \in TeachPcs
      /\ UNCHANGED <<computer, env, skill, expiry>> /\ Rest
  BY DEF expireTaughtSkillTeaching, At
<1>2. /\ proc[p].op \in TeachOps /\ Taught /\ local[p].skill \in Skills /\ Mine(p) = local[p].skill
      /\ expiry' \subseteq Skills
  BY <1>1, TeachSets DEF ControlInv, RowsTyped
<1>3. RowsKept
  BY <1>1, <1>2, RestKept
<1>4. CASE Ended(Mine(p)) /\ Goes(p, "skillRelease") /\ Knows(p, TRUE)
  <2>1. Moved(p, "skillRelease", proc[p].op, proc[p].bot, proc[p].seen)
        /\ proc[p].seen.lease <= issued'
    BY <1>3, <1>4, GoesMoves, KeptLeases
  <2>2. LocalMoved(p, local[p].skill, skill[local[p].skill].lease)
    BY <1>1, <1>4, KnowsDoes
  <2>3. skill[local[p].skill].status # "none"
    BY <1>2, <1>4 DEF Ended
  <2> QED BY <1>2, <1>3, <2>1, <2>2, <2>3, ToRelease
<1>5. CASE /\ skill[Mine(p)].status = "recording" /\ Goes(p, "skillFinalize") /\ UNCHANGED local
  <2>1. Moved(p, "skillFinalize", proc[p].op, proc[p].bot, proc[p].seen)
        /\ proc[p].seen.lease <= issued'
    BY <1>3, <1>5, GoesMoves, KeptLeases
  <2>2. LocalMoved(p, local[p].skill, local[p].lease)
    BY <1>5, LocalDoes
  <2>3. skill'[local[p].skill].status # "none"
    BY <1>1, <1>2, <1>5
  <2>4. "skillFinalize" \in TeachPcs /\ "skillFinalize" \notin OwnLeasePcs \cup LetGoPcs
    BY TeachNames
  <2> QED BY <1>2, <1>3, <2>1, <2>2, <2>3, <2>4, TeachMove
<1>6. CASE Goes(p, Returning(p)) /\ UNCHANGED local
  <2>1. LocalMoved(p, local[p].skill, local[p].lease)
    BY <1>6, LocalDoes
  <2> QED BY <1>1, <1>3, <1>6, <2>1, TeachGoes, WhereToGo
<1> QED BY <1>4, <1>5, <1>6 DEF expireTaughtSkillTeaching

LEMMA StopReadsKeeps ==
  ASSUME ControlInv, NEW p \in Procs, stopReads(p)
  PROVE  ControlInv'
<1> USE RowSets, TeachNames
<1>1. /\ At(p, "stopRead") /\ proc[p].pc \in TeachPcs
      /\ UNCHANGED <<computer, env, skill, expiry>> /\ Rest
  BY DEF stopReads, At
<1>2. /\ proc[p].op \in TeachOps /\ Taught /\ local[p].skill \in Skills /\ Mine(p) = local[p].skill
      /\ expiry' \subseteq Skills /\ "skillStopped" \in TeachOps
  BY <1>1, TeachSets DEF ControlInv, RowsTyped, TeachOps
<1>3. RowsKept /\ proc[p].seen.lease <= issued'
  BY <1>1, <1>2, RestKept, KeptLeases
<1>4. ASSUME NEW pc \in Pcs, proc' = [proc EXCEPT ![p].op = "skillStopped", ![p].pc = pc]
      PROVE  Moved(p, pc, "skillStopped", proc[p].bot, proc[p].seen)
  <2> DEFINE o == [proc[p] EXCEPT !.op = "skillStopped", !.pc = pc]
  <2>1. /\ o \in ProcState /\ o.pc = pc /\ o.op = "skillStopped" /\ o.bot = proc[p].bot
        /\ o.seen = proc[p].seen
    BY <1>2 DEF ProcState
  <2>2. proc' = [proc EXCEPT ![p] = o]
    BY <1>4 DEF ProcsTyped
  <2> HIDE DEF o
  <2>3. Moved(p, o.pc, o.op, o.bot, o.seen)
    BY <2>1, <2>2, StateMoves
  <2> QED BY <2>1, <2>3
<1>5. {"skillRelease", "skillFinalize", "skillEnd"} \subseteq Pcs
  BY DEF Pcs, TeachPcs
<1>6. CASE Ended(Mine(p))
  <2>1. Knows(p, FALSE) /\ proc' = [proc EXCEPT ![p].op = "skillStopped", ![p].pc = "skillRelease"]
    BY <1>6 DEF stopReads
  <2>2. Moved(p, "skillRelease", "skillStopped", proc[p].bot, proc[p].seen)
    BY <1>4, <1>5, <2>1
  <2>3. LocalMoved(p, local[p].skill, skill[local[p].skill].lease)
    BY <1>1, <2>1, KnowsDoes
  <2>4. skill[local[p].skill].status # "none"
    BY <1>2, <1>6 DEF Ended
  <2> QED BY <1>2, <1>3, <2>2, <2>3, <2>4, ToRelease
<1>7. CASE ~Ended(Mine(p)) /\ skill[Mine(p)].status = "recording"
  <2>1. UNCHANGED local /\ proc' = [proc EXCEPT ![p].op = "skillStopped", ![p].pc = "skillFinalize"]
    BY <1>7 DEF stopReads
  <2>2. Moved(p, "skillFinalize", "skillStopped", proc[p].bot, proc[p].seen)
    BY <1>4, <1>5, <2>1
  <2>3. LocalMoved(p, local[p].skill, local[p].lease)
    BY <2>1, LocalDoes
  <2>4. skill'[local[p].skill].status # "none"
    BY <1>1, <1>2, <1>7
  <2>5. "skillFinalize" \in TeachPcs /\ "skillFinalize" \notin OwnLeasePcs \cup LetGoPcs
    BY TeachNames
  <2> QED BY <1>2, <1>3, <2>2, <2>3, <2>4, <2>5, TeachMove
<1>8. CASE ~Ended(Mine(p)) /\ skill[Mine(p)].status # "recording"
  <2>1. UNCHANGED local /\ proc' = [proc EXCEPT ![p].op = "skillStopped", ![p].pc = "skillEnd"]
    BY <1>8 DEF stopReads
  <2>2. Moved(p, "skillEnd", "skillStopped", proc[p].bot, proc[p].seen)
    BY <1>4, <1>5, <2>1
  <2>3. LocalMoved(p, local[p].skill, local[p].lease)
    BY <2>1, LocalDoes
  <2>4. "skillEnd" \in TeachPcs /\ "skillEnd" \notin SessionPcs \cup OwnLeasePcs \cup LetGoPcs
    BY TeachNames
  <2> QED BY <1>2, <1>3, <2>2, <2>3, <2>4, TeachMove
<1> QED BY <1>6, <1>7, <1>8

(* A session is completed, by whoever finds it recording.                  *)
LEMMA FinalizeKeeps ==
  ASSUME ControlInv, NEW p \in Procs, finalizeTeachingRecording(p)
  PROVE  ControlInv'
<1> USE RowSets, TeachNames
<1> DEFINE s == Mine(p)
<1>1. /\ At(p, "skillFinalize") /\ proc[p].pc \in TeachPcs /\ proc[p].pc \in SessionPcs
      /\ UNCHANGED <<computer, env, expiry>> /\ Rest
  BY DEF finalizeTeachingRecording, At
<1>2. /\ proc[p].op \in TeachOps /\ Taught /\ s \in Skills /\ s = local[p].skill
      /\ skill[s] \in Session /\ skill[s].status # "none" /\ skill[s].lease \in 0 .. MaxLeases
      /\ skill \in [Skills -> Session] /\ expiry' \subseteq Skills
  BY <1>1, TeachSets DEF ControlInv, RowsTyped
<1>3. /\ skill' = IF Finalizable(s)
                  THEN [skill EXCEPT ![s].status = "draft", ![s].stopped = @ + 1] ELSE skill
      /\ IF skill[s].status = "deleted" THEN Done(p)
         ELSE /\ Goes(p, "skillRelease")
              /\ local' = [local EXCEPT ![p].lease = skill[s].lease, ![p].completes = TRUE,
                                        ![p].draft = skill'[s].status = "draft"]
  BY DEF finalizeTeachingRecording
<1> HIDE DEF s
<1>4. RowsKept
  <2>1. CASE Finalizable(s)
    <3> DEFINE r == [skill[s] EXCEPT !.status = "draft", !.stopped = skill[s].stopped + 1]
    <3>1. /\ r \in Session /\ r.status = "draft" /\ r.stopped = skill[s].stopped + 1
          /\ r.posted = skill[s].posted /\ r.lease = skill[s].lease
      <4>1. \A m \in Session, n \in Nat : [m EXCEPT !.status = "draft", !.stopped = n] \in Session
        BY ONLY DEF Session
      <4>2. skill[s].stopped + 1 \in Nat
        BY <1>2 DEF Session
      <4> QED BY ONLY <1>2, <4>1, <4>2 DEF Session
    <3>2. skill' = [skill EXCEPT ![s] = r]
      BY <1>2, <1>3, <2>1
    <3> HIDE DEF r
    <3>3. skill[s].stopped = 0 /\ skill[s].posted <= 1
      BY <1>2, <2>1 DEF ControlInv, RowsSound, SessionsEnd, Finalizable
    <3>4. /\ skill[s].status # "none" => r.status # "none" /\ r.lease = skill[s].lease
          /\ r.status \in {"none", "recording"} => r.stopped = 0
          /\ r.stopped <= 1 /\ r.posted <= 1
          /\ UNCHANGED <<computer, issued, screen, run, job, env, expiry>>
      BY <1>1, <3>1, <3>3 DEF Rest
    <3> QED BY <1>2, <3>1, <3>2, <3>4, SkillRows
  <2>2. CASE ~Finalizable(s)
    <3>1. UNCHANGED <<computer, skill>>
      BY <1>1, <1>3, <2>2
    <3> QED BY <1>1, <1>2, <3>1, RestKept
  <2> QED BY <2>1, <2>2
<1>5. CASE skill[s].status = "deleted"
  BY <1>3, <1>4, <1>5, DoneKeeps
<1>6. CASE skill[s].status # "deleted"
  <2>1. PICK d \in BOOLEAN : d = (skill'[s].status = "draft")
    OBVIOUS
  <2>2. local' = [local EXCEPT ![p].lease = skill[s].lease, ![p].completes = TRUE, ![p].draft = d]
    BY <1>3, <1>6, <2>1
  <2>3. LocalMoved(p, local[p].skill, skill[local[p].skill].lease)
    BY <1>2, <2>2, LocalDoes
  <2>4. Moved(p, "skillRelease", proc[p].op, proc[p].bot, proc[p].seen)
        /\ proc[p].seen.lease <= issued'
    BY <1>3, <1>4, <1>6, GoesMoves, KeptLeases
  <2> QED BY <1>2, <1>4, <2>3, <2>4, ToRelease
<1> QED BY <1>5, <1>6

(* What a session took is let go of.                                       *)
LEMMA LetsGo ==
  ASSUME ControlInv, RowsKept, NEW p \in Procs, proc[p].pc \in OwnLeasePcs,
         NEW pc \in OwnLeasePcs, NEW seen,
         Moved(p, pc, proc[p].op, proc[p].bot, seen), seen.lease <= issued', UNCHANGED local,
         pc \in LetGoPcs => seen.lease = local[p].lease
  PROVE  ControlInv'
<1>1. proc[p].pc \in TeachPcs /\ proc[p].pc \in SessionPcs /\ pc \in TeachPcs
  BY TeachNames
<1>2. /\ proc[p].op \in TeachOps /\ Taught /\ local[p].skill \in Skills
      /\ skill[local[p].skill].status # "none" /\ local[p].lease = skill[local[p].skill].lease
  BY <1>1, TeachSets
<1>3. /\ skill'[local[p].skill].status # "none"
      /\ skill'[local[p].skill].lease = local[p].lease
  BY <1>2 DEF RowsKept, Onward
<1>4. LocalMoved(p, local[p].skill, local[p].lease)
  BY LocalDoes, RowSets
<1> QED BY <1>1, <1>2, <1>3, <1>4, TeachMove

LEMMA ReleaseReadsKeeps ==
  ASSUME ControlInv, NEW p \in Procs, teachingReleaseReads(p)
  PROVE  ControlInv'
<1> USE RowSets, TeachNames
<1>1. /\ proc[p].pc \in OwnLeasePcs /\ proc[p].pc \in TeachPcs
      /\ UNCHANGED <<computer, env, skill, expiry, local>> /\ Rest
  BY DEF teachingReleaseReads, At
<1>2. Taught /\ expiry' \subseteq Skills
  BY <1>1, TeachSets DEF ControlInv, RowsTyped
<1>3. RowsKept
  BY <1>1, <1>2, RestKept
<1>4. CASE Owned(p) /\ GoesSeeing(p, "skillRevoke")
  <2>1. computer.lease = local[p].lease /\ computer.lease <= issued'
    BY <1>3, <1>4, KeptLeases DEF Owned
  <2>2. "skillRevoke" \in Pcs /\ "skillRevoke" \in OwnLeasePcs
    BY TeachNames DEF OwnLeasePcs, SessionPcs
  <2>3. Moved(p, "skillRevoke", proc[p].op, proc[p].bot, computer)
    BY <1>4, <2>2, GoesSeeingMoves
  <2> QED BY <1>1, <1>3, <2>1, <2>2, <2>3, LetsGo
<1>5. CASE Goes(p, AfterRelease(p))
  <2>1. LocalMoved(p, local[p].skill, local[p].lease)
    BY <1>1, LocalDoes
  <2> QED BY <1>1, <1>3, <1>5, <2>1, TeachGoes, WhereToGo
<1> QED BY <1>4, <1>5 DEF teachingReleaseReads

LEMMA LetGoGoes ==
  ASSUME ControlInv, RowsKept, NEW p \in Procs, proc[p].pc \in LetGoPcs,
         NEW pc \in LetGoPcs, Goes(p, pc), UNCHANGED local
  PROVE  ControlInv'
<1>1. /\ pc \in OwnLeasePcs /\ pc \in Pcs /\ proc[p].pc \in OwnLeasePcs
      /\ proc[p].pc \in TeachPcs
  BY TeachNames
<1>2. Moved(p, pc, proc[p].op, proc[p].bot, proc[p].seen) /\ proc[p].seen.lease <= issued'
  BY <1>1, GoesMoves, RowSets, KeptLeases
<1>3. proc[p].seen.lease = local[p].lease
  BY <1>1, TeachSets, RowSets
<1> QED BY <1>1, <1>2, <1>3, LetsGo

LEMMA LetGoKeeps ==
  ASSUME ControlInv, NEW p \in Procs,
         \/ teachingReleaseRevokes(p) \/ teachingReleaseCancels(p) \/ teachingReleaseFinalizes(p)
  PROVE  ControlInv'
<1> USE RowSets, TeachNames
<1>1. CASE teachingReleaseRevokes(p)
  <2>1. /\ proc[p].pc \in LetGoPcs /\ proc[p].pc \in TeachPcs
        /\ UNCHANGED <<computer, issued, run, job, skill>>
    BY <1>1 DEF teachingReleaseRevokes, At
  <2>2. CASE /\ setScreenControl(Teacher, Seen(p).lease) /\ Goes(p, "skillUnschedule")
             /\ UNCHANGED <<env, expiry, local>>
    <3>1. screen' \in [Bots -> 0 .. MaxLeases]
      BY <2>2, ScreenDoes DEF ControlInv
    <3>2. RowsKept
      BY <2>1, <2>2, <3>1, TeachSets, TaughtQuiet DEF ControlInv, RowsTyped
    <3> QED BY <2>1, <2>2, <3>2, LetGoGoes
  <2>3. CASE Throws(p) /\ UNCHANGED screen
    BY <2>1, <2>3, ThrowsKeeps
  <2> QED BY <1>1, <2>2, <2>3 DEF teachingReleaseRevokes
<1>2. CASE teachingReleaseCancels(p)
  <2>1. /\ proc[p].pc \in LetGoPcs /\ proc[p].pc \in TeachPcs
        /\ UNCHANGED <<computer, issued, screen, run, skill>>
    BY <1>2 DEF teachingReleaseCancels, At
  <2>2. CASE /\ job' = (job /\ computer.lease # Seen(p).lease) /\ Goes(p, "skillLetGo")
             /\ UNCHANGED <<env, expiry, local>>
    <3>1. RowsKept
      BY <2>1, <2>2, TeachSets, TaughtQuiet DEF ControlInv, RowsTyped
    <3> QED BY <2>1, <2>2, <3>1, LetGoGoes
  <2>3. CASE Throws(p) /\ UNCHANGED job
    BY <2>1, <2>3, ThrowsKeeps
  <2> QED BY <1>2, <2>2, <2>3 DEF teachingReleaseCancels
<1>3. CASE teachingReleaseFinalizes(p)
  <2>1. /\ proc[p].pc \in TeachPcs /\ UNCHANGED <<issued, screen, env, skill, expiry, local>>
        /\ finalizeComputerControlRelease(Seen(p), "bot") /\ Goes(p, AfterRelease(p))
    BY <1>3 DEF teachingReleaseFinalizes, At
  <2>2. RowsKept
    BY <2>1, ReleaseDoes
  <2>3. LocalMoved(p, local[p].skill, local[p].lease)
    BY <2>1, LocalDoes
  <2> QED BY <2>1, <2>2, <2>3, TeachGoes, WhereToGo
<1> QED BY <1>1, <1>2, <1>3

LEMMA EmitKeeps ==
  ASSUME ControlInv, NEW p \in Procs, emitSkillDraftMessages(p)
  PROVE  ControlInv'
<1> USE RowSets, TeachNames
<1> DEFINE s == Mine(p)
<1>1. /\ proc[p].pc \in TeachPcs /\ UNCHANGED <<computer, env, expiry, local>> /\ Rest
      /\ Goes(p, AfterEmit(p))
      /\ skill' = [skill EXCEPT ![s].posted = IF Unposted(s) THEN @ + 1 ELSE @]
  BY DEF emitSkillDraftMessages, At
<1>2. Taught /\ s \in Skills /\ skill[s] \in Session /\ skill \in [Skills -> Session]
  BY <1>1, TeachSets DEF ControlInv, RowsTyped
<1> HIDE DEF s
<1>3. PICK n \in Nat : n = (IF Unposted(s) THEN skill[s].posted + 1 ELSE skill[s].posted)
  BY <1>2 DEF Session
<1>4. skill[s].stopped <= 1 /\ skill[s].posted <= 1
      /\ (skill[s].status \in {"none", "recording"} => skill[s].stopped = 0)
  BY <1>2 DEF ControlInv, RowsSound, SessionsEnd
<1>5. n <= 1
  BY <1>3, <1>4 DEF Unposted
<1> DEFINE r == [skill[s] EXCEPT !.posted = n]
<1>6. /\ r \in Session /\ r.status = skill[s].status /\ r.lease = skill[s].lease
      /\ r.stopped = skill[s].stopped /\ r.posted = n
  BY ONLY <1>2, n \in Nat DEF Session
<1>7. skill' = [skill EXCEPT ![s] = r]
  <2>1. skill' = [skill EXCEPT ![s].posted = n]
    BY <1>1, <1>2, <1>3
  <2> QED BY <1>2, <2>1
<1> HIDE DEF r
<1>8. /\ skill[s].status # "none" => r.status # "none" /\ r.lease = skill[s].lease
      /\ r.status \in {"none", "recording"} => r.stopped = 0
      /\ r.stopped <= 1 /\ r.posted <= 1
      /\ UNCHANGED <<computer, issued, screen, run, job, env, expiry>>
  BY <1>1, <1>4, <1>5, <1>6 DEF Rest
<1>9. RowsKept
  BY <1>2, <1>6, <1>7, <1>8, SkillRows
<1>10. LocalMoved(p, local[p].skill, local[p].lease)
  BY <1>1, LocalDoes
<1> QED BY <1>1, <1>9, <1>10, TeachGoes, WhereToGo

LEMMA TeachEndKeeps ==
  ASSUME ControlInv, NEW p \in Procs, teachingCancels(p) \/ teachingEnds(p)
  PROVE  ControlInv'
<1> USE RowSets, TeachNames
<1>1. /\ proc[p].pc \in TeachPcs /\ UNCHANGED <<computer, skill>> /\ Rest
  BY DEF teachingCancels, teachingEnds, At
<1>2. Taught /\ expiry \subseteq Skills
  BY <1>1, TeachSets DEF ControlInv, RowsTyped
<1>3. CASE /\ expiry' = expiry \ {Mine(p)} /\ Goes(p, Returning(p))
           /\ local' = [local EXCEPT ![p].completes = FALSE] /\ NoFault
  <2>1. RowsKept
    BY <1>1, <1>2, <1>3, RestKept DEF NoFault
  <2>2. LocalMoved(p, local[p].skill, local[p].lease)
    BY <1>3, LocalDoes
  <2> QED BY <1>1, <1>3, <2>1, <2>2, TeachGoes, WhereToGo
<1>4. CASE Throws(p)
  BY <1>1, <1>4, ThrowsKeeps DEF Rest
<1>5. CASE Done(p) /\ UNCHANGED <<env, expiry>>
  <2>1. RowsKept
    BY <1>1, <1>2, <1>5, RestKept
  <2> QED BY <1>5, <2>1, DoneKeeps
<1> QED BY <1>3, <1>4, <1>5 DEF teachingCancels, teachingEnds

(* A session is removed.                                                   *)
LEMMA RemoveCancelsKeeps ==
  ASSUME ControlInv, NEW p \in Procs, removeCancels(p)
  PROVE  ControlInv'
<1> USE RowSets, TeachNames
<1>1. /\ proc[p].pc \in TeachPcs /\ proc[p].pc \in OwnLeasePcs
      /\ UNCHANGED <<computer, skill>> /\ Rest
  BY DEF removeCancels, At
<1>2. Taught /\ expiry \subseteq Skills
  BY <1>1, TeachSets DEF ControlInv, RowsTyped
<1>3. CASE expiry' = expiry \ {Mine(p)} /\ Goes(p, "skillRelease") /\ NoFault /\ UNCHANGED local
  <2>1. RowsKept
    BY <1>1, <1>2, <1>3, RestKept DEF NoFault
  <2>2. "skillRelease" \in Pcs /\ "skillRelease" \in OwnLeasePcs /\ "skillRelease" \notin LetGoPcs
    BY TeachNames DEF OwnLeasePcs, LetGoPcs
  <2>3. Moved(p, "skillRelease", proc[p].op, proc[p].bot, proc[p].seen)
        /\ proc[p].seen.lease <= issued'
    BY <1>3, <2>1, <2>2, GoesMoves, KeptLeases
  <2> QED BY <1>1, <1>3, <2>1, <2>2, <2>3, LetsGo
<1>4. CASE Throws(p)
  BY <1>1, <1>4, ThrowsKeeps DEF Rest
<1> QED BY <1>3, <1>4 DEF removeCancels

(* Only the status of a session is written, or that its time is over.      *)
LEMMA StatusRows ==
  ASSUME ControlInv, Taught, UNCHANGED <<computer, env, expiry>>, Rest, NEW s \in Skills,
         \/ \E status \in {"deleted", "saved"} : skill' = [skill EXCEPT ![s].status = status]
         \/ skill' = [skill EXCEPT ![s].due = TRUE]
  PROVE  RowsKept
<1>1. skill[s] \in Session /\ skill \in [Skills -> Session]
  BY DEF ControlInv, RowsTyped
<1>2. skill[s].stopped <= 1 /\ skill[s].posted <= 1
      /\ (skill[s].status \in {"none", "recording"} => skill[s].stopped = 0)
  BY DEF ControlInv, RowsSound, SessionsEnd
<1>3. PICK r \in Session :
        /\ skill' = [skill EXCEPT ![s] = r] /\ r.lease = skill[s].lease
        /\ r.stopped = skill[s].stopped /\ r.posted = skill[s].posted
        /\ r.status \in {"deleted", "saved", skill[s].status}
  <2>1. ASSUME NEW status \in {"deleted", "saved"}, skill' = [skill EXCEPT ![s].status = status]
        PROVE  \E r \in Session :
                 /\ skill' = [skill EXCEPT ![s] = r] /\ r.lease = skill[s].lease
                 /\ r.stopped = skill[s].stopped /\ r.posted = skill[s].posted
                 /\ r.status \in {"deleted", "saved", skill[s].status}
    <3> DEFINE n == [skill[s] EXCEPT !.status = status]
    <3>1. /\ n \in Session /\ n.lease = skill[s].lease /\ n.stopped = skill[s].stopped
          /\ n.posted = skill[s].posted /\ n.status = status
      BY <1>1 DEF Session
    <3>2. skill' = [skill EXCEPT ![s] = n]
      BY <1>1, <2>1
    <3> HIDE DEF n
    <3> QED BY <3>1, <3>2
  <2>2. ASSUME skill' = [skill EXCEPT ![s].due = TRUE]
        PROVE  \E r \in Session :
                 /\ skill' = [skill EXCEPT ![s] = r] /\ r.lease = skill[s].lease
                 /\ r.stopped = skill[s].stopped /\ r.posted = skill[s].posted
                 /\ r.status \in {"deleted", "saved", skill[s].status}
    <3> DEFINE n == [skill[s] EXCEPT !.due = TRUE]
    <3>1. /\ n \in Session /\ n.lease = skill[s].lease /\ n.stopped = skill[s].stopped
          /\ n.posted = skill[s].posted /\ n.status = skill[s].status
      BY <1>1 DEF Session
    <3>2. skill' = [skill EXCEPT ![s] = n]
      BY <1>1, <2>2
    <3> HIDE DEF n
    <3> QED BY <3>1, <3>2
  <2> QED BY <2>1, <2>2
<1>4. /\ skill[s].status # "none" => r.status # "none" /\ r.lease = skill[s].lease
      /\ r.status \in {"none", "recording"} => r.stopped = 0
      /\ r.stopped <= 1 /\ r.posted <= 1
      /\ UNCHANGED <<computer, issued, screen, run, job, env, expiry>>
  BY <1>2, <1>3 DEF Rest
<1> QED BY <1>1, <1>3, <1>4, SkillRows

LEMMA SkillKeeps ==
  ASSUME ControlInv
  PROVE  /\ \A p \in Procs : removeDeletes(p) => ControlInv'
         /\ \A s \in Skills : skillSave(s) \/ skillLapses(s) => ControlInv'
<1>1. ASSUME NEW p \in Procs, removeDeletes(p) PROVE ControlInv'
  <2>1. proc[p].pc \in TeachPcs
    BY <1>1, TeachNames DEF removeDeletes, At
  <2>2. Taught /\ Mine(p) \in Skills
    BY <2>1, TeachSets
  <2>3. RowsKept
    BY <1>1, <2>2, StatusRows DEF removeDeletes
  <2> QED BY <1>1, <2>3, DoneKeeps DEF removeDeletes
<1>2. ASSUME NEW s \in Skills, skillSave(s) \/ skillLapses(s) PROVE ControlInv'
  <2>1. Taught
    BY <1>2 DEF skillSave, skillLapses, ControlInv, RowsSound, NoTeaching
  <2>2. UNCHANGED <<computer, env, expiry, proc, local>> /\ Rest
        /\ (\/ \E status \in {"deleted", "saved"} : skill' = [skill EXCEPT ![s].status = status]
            \/ skill' = [skill EXCEPT ![s].due = TRUE])
    BY <1>2 DEF skillSave, skillLapses
  <2>3. RowsKept
    BY <2>1, <2>2, StatusRows
  <2> QED BY <2>2, <2>3, RowKeeps DEF RowsKept
<1> QED BY <1>1, <1>2

(* A process that dies knows nothing, and a job comes back.                *)
LEMMA TeachCrashKeeps ==
  ASSUME ControlInv, NEW p \in Procs, teachCrash(p)
  PROVE  ControlInv'
<1>1. /\ Crash(p) /\ Done(p) /\ UNCHANGED <<computer, issued, screen, run, job, skill>>
  BY DEF teachCrash, Crash, Done
<1>2. SameEnv
  BY <1>1, EnvDoes DEF ControlInv
<1>3. expiry' \subseteq Skills /\ (Taught \/ expiry' = expiry)
  <2>1. CASE proc[p].op = "skillExpire"
    <3>1. proc[p].pc \in TeachPcs
      BY <2>1, RowSets DEF Fine, TeachOps
    <3> QED BY <2>1, <3>1, TeachSets DEF teachCrash, ControlInv, RowsTyped
  <2>2. CASE proc[p].op # "skillExpire"
    BY <2>2 DEF teachCrash, ControlInv, RowsTyped
  <2> QED BY <2>1, <2>2
<1>4. Quiet
  BY <1>1, <1>2, <1>3 DEF Quiet, ControlInv, RowsTyped
<1> QED BY <1>1, <1>4, QuietRows, DoneKeeps

-----------------------------------------------------------------------------
(* The invariant holds *)

LEMMA ControlStarts ==
  ASSUME TeachInit
  PROVE  ControlInv
<1> USE ControlFacts
<1>1. env \in EnvState /\ env.leases \in 0 .. MaxLeases
  BY ControlAssumption DEF TeachInit, Init, ControlAssumption, EnvState, Kinds
<1>2. /\ computer = Free("none") /\ issued = 0 /\ expiry = {}
      /\ screen = [b \in Bots |-> NoLease] /\ run = [b \in Bots |-> "none"] /\ job = FALSE
  BY DEF TeachInit, Init
<1>3. /\ skill \in [Skills -> Session]
      /\ \A s \in Skills : skill[s].status = "none" /\ skill[s].stopped = 0 /\ skill[s].posted = 0
  BY DEF TeachInit, Session
<1>4. RowsTyped
  <2>1. Free("none") \in Row /\ 0 \in 0 .. MaxLeases /\ NoLease \in 0 .. MaxLeases
    OBVIOUS
  <2>2. computer \in Row /\ issued \in 0 .. MaxLeases /\ job \in BOOLEAN /\ expiry \subseteq Skills
    BY <1>2, <2>1
  <2>3. screen \in [Bots -> 0 .. MaxLeases] /\ run \in [Bots -> {"none", "running", "waiting", "queued"}]
    BY <1>2, <2>1
  <2> QED BY <1>1, <1>3, <2>2, <2>3 DEF RowsTyped
<1>5. Idle \in ProcState /\ Idle.pc = "idle" /\ Idle.op = "none" /\ Idle.seen = Free("none")
  BY DEF Idle, ProcState, Pcs, Ops
<1>6. ProcsTyped
  <2>1. NoLocal \in Local
    BY DEF NoLocal, Local
  <2> QED BY <1>5, <2>1 DEF TeachInit, Init, ProcsTyped
<1>7. RowsSound
  BY <1>1, <1>2, <1>3
     DEF RowsSound, LeaseIsWhole, LeasesLast, NoTeaching, NoRuns, OwnBinding, BindingIsOwn, SessionsEnd
<1>8. ASSUME NEW p \in Procs PROVE Fine(p)
  <2>1. proc[p] = Idle
    BY DEF TeachInit, Init
  <2>2. "idle" \notin TakeoverPcs \cup DenialPcs \cup TeachPcs \cup LetGoPcs /\ "none" \notin TeachOps
    BY DEF TakeoverPcs, DenialPcs, TeachPcs, LetGoPcs, TeachOps
  <2> QED BY <1>2, <1>5, <2>1, <2>2 DEF Fine
<1> QED BY <1>4, <1>6, <1>7, <1>8 DEF ControlInv

LEMMA TeachStepKeeps ==
  ASSUME ControlInv, [TeachNext]_teachVars
  PROVE  ControlInv'
<1>1. ASSUME NEW p \in Procs, TeachRequest(p) PROVE ControlInv'
  BY <1>1, TeachRequestKeeps DEF TeachRequest
<1>2. ASSUME NEW p \in Procs, TeachProceed(p) PROVE ControlInv'
  BY <1>2, TeachStartKeeps, ExtendKeeps, TeachGrantKeeps, TeachCreatesKeeps, ExpireTeachingKeeps,
     StopReadsKeeps, FinalizeKeeps, ReleaseReadsKeeps, LetGoKeeps, EmitKeeps, TeachEndKeeps,
     RemoveCancelsKeeps, SkillKeeps DEF TeachProceed
<1>3. ASSUME NEW p \in Procs, teachCrash(p) PROVE ControlInv'
  BY <1>3, TeachCrashKeeps
<1>4. ASSUME NEW p \in Procs, NEW s \in Skills, teachingExpireJob(p, s) PROVE ControlInv'
  BY <1>4, TeachRequestKeeps
<1>5. ASSUME NEW s \in Skills, skillSave(s) \/ skillLapses(s) PROVE ControlInv'
  BY <1>5, SkillKeeps
<1>6. ASSUME UNCHANGED teachVars PROVE ControlInv'
  <2>1. UNCHANGED <<computer, issued, screen, run, job, proc, env, skill, expiry, local>>
    BY <1>6 DEF teachVars, vars
  <2>2. RowsKept
    BY <2>1, RowsStay DEF ControlInv, RowsTyped
  <2> QED BY <2>1, <2>2, RowKeeps DEF RowsKept
<1> QED BY <1>1, <1>2, <1>3, <1>4, <1>5, <1>6, ControlStepKeeps DEF TeachNext

LEMMA ControlInvariant == TeachSpec => []ControlInv
<1>1. TeachInit => ControlInv
  BY ControlStarts
<1>2. ControlInv /\ [TeachNext]_teachVars => ControlInv'
  BY TeachStepKeeps
<1> QED BY <1>1, <1>2, PTL DEF TeachSpec

-----------------------------------------------------------------------------
(* Theorems *)

(* The row of the computer, the leases that the display and the requests   *)
(* name, the runs, the jobs and the sessions keep their types in every     *)
(* environment; a user's control always has a lease, and a lease a bot     *)
(* (computer-control.ts, teaching-session.ts).                             *)
THEOREM TeachTypeCorrect == TeachSpec => []TeachTypeOK
<1>1. ControlInv => TeachTypeOK
  BY DEF ControlInv, RowsTyped, ProcsTyped, RowsSound, LeaseIsWhole, EnvState, TeachTypeOK, TypeOK
<1> QED BY <1>1, ControlInvariant, PTL

(* Without teaching, control that has time left is only ended by a request *)
(* for it.                                                                 *)
LEMMA ControlStays ==
  ASSUME ControlInv, [TeachNext]_teachVars, Active, ~Taught
  PROVE  \/ computer'.lease = computer.lease /\ computer'.holder = "user"
         \/ \E p \in Procs : /\ proc[p].pc \in {"clear", "finalize", "undo"}
                             /\ Seen(p).lease = computer.lease
                             /\ proc'[p] # proc[p]
<1> DEFINE Kept == computer'.lease = computer.lease /\ computer'.holder = "user"
           Asks == \E p \in Procs : /\ proc[p].pc \in {"clear", "finalize", "undo"}
                                    /\ Seen(p).lease = computer.lease
                                    /\ proc'[p] # proc[p]
<1>1. computer.holder = "user" /\ computer.lease # NoLease /\ ~computer.due /\ computer \in Row
  BY DEF Active, hasActiveComputerControl, ControlInv, RowsTyped
<1>2. UNCHANGED computer => Kept
  BY <1>1
<1>3. ASSUME NEW p \in Procs PROVE proc[p].pc \notin TeachPcs
  BY <1>3, TeachSets
<1>4. /\ \A s \in Skills : skill[s].status = "none" /\ s \notin expiry
      /\ ~Asked("teach")
  BY DEF ControlInv, RowsSound, NoTeaching, Taught, Asked
<1>5. ASSUME NEW p \in Procs, TeachRequest(p) PROVE Kept
  BY <1>2, <1>5 DEF TeachRequest, startReads, stopTeachingSession, removeReads
<1>6. ASSUME NEW p \in Procs, TeachProceed(p) PROVE FALSE
  <2>1. proc[p].pc \in TeachPcs
    BY <1>6 DEF TeachProceed, cancelActiveRuns, extendActiveComputerControl, grantTakeover,
       teachSchedules, teachCreates, teachEnqueues, expireTaughtSkillTeaching, stopReads,
       finalizeTeachingRecording, teachingReleaseReads, teachingReleaseRevokes,
       teachingReleaseCancels, teachingReleaseFinalizes, emitSkillDraftMessages, teachingCancels,
       teachingEnds, removeCancels, removeDeletes, At, TeachPcs, LetGoPcs
  <2> QED BY <1>3, <2>1
<1>7. ASSUME NEW p \in Procs, ClearLease(Seen(p).lease), proc[p].pc \in {"clear", "undo"},
             proc'[p] # proc[p]
      PROVE  Kept \/ Asks
  BY <1>2, <1>7 DEF ClearLease
<1>8. ASSUME NEW p \in Procs, Proceed(p) PROVE Kept \/ Asks
  <2>1. CASE evictClears(p)
    <3>1. proc'[p].pc = "reread"
      BY <2>1, GoesMoves, RowSets, PcNames DEF evictClears, Moved
    <3> QED BY <1>7, <2>1, <3>1 DEF evictClears, At
  <2>2. CASE takeoverUndoes(p)
    <3>1. proc'[p].pc = "idle"
      BY <2>2, EndsMoves, RowSets DEF takeoverUndoes, Moved
    <3> QED BY <1>7, <2>2, <3>1 DEF takeoverUndoes, At
  <2>3. CASE releaseFinalizes(p)
    <3>1. proc'[p].pc = "idle"
      BY <2>3, EndsMoves, RowSets DEF releaseFinalizes, Moved
    <3> QED BY <1>2, <2>3, <3>1
            DEF releaseFinalizes, At, finalizeComputerControlRelease, Matches
  <2>4. CASE expireDenies(p)
    <3>1. computer.lease # Seen(p).lease
      BY <1>1, <2>4, RowSets DEF expireDenies, At, Fine, DenialPcs
    <3> QED BY <1>2, <2>4, <3>1 DEF expireDenies
  <2>5. CASE expireFinalizes(p)
    <3>1. ~Matches(Seen(p))
      BY <1>1, <2>5, RowSets DEF expireFinalizes, At, Fine, DenialPcs, Matches
    <3> QED BY <1>2, <2>5, <3>1 DEF expireFinalizes, finalizeComputerControlRelease
  <2>6. CASE takeoverGrants(p)
    BY <1>1, <1>2, <2>6 DEF takeoverGrants, Grantable
  <2>7. CASE bindWaitingTakeoverToControl(p)
    BY <1>1, <1>2, <2>7 DEF bindWaitingTakeoverToControl, Row
  <2> QED BY <1>2, <1>8, <2>1, <2>2, <2>3, <2>4, <2>5, <2>6, <2>7
          DEF Proceed, evictRevokes, takeoverRereads, takeoverChecks, takeoverAdopts,
              takeoverSchedules, releaseRevokes, connectScreen, expireReads, expireRevokes
<1>9. ASSUME NEW p \in Procs, Request(p) \/ controlExpireJob(p) PROVE Kept
  BY <1>2, <1>9 DEF Request, takeoverReads, releaseReads, screenReads, statusReads, controlExpireJob
<1>10. ASSUME NEW b \in Bots, RunStep(b) PROVE Kept
  BY <1>1, <1>2, <1>10 DEF RunStep, runTakesComputer, pauseRunForTakeover, runEnds, Retains,
     PreservesForeign, Active, hasActiveComputerControl, Row
<1>11. ASSUME leaseLapses \/ reconcileOnce PROVE Kept
  BY <1>1, <1>2, <1>11 DEF leaseLapses, reconcileOnce, Row
<1>12. ASSUME NEW p \in Procs, teachCrash(p) PROVE Kept
  BY <1>2, <1>12 DEF teachCrash, Crash
<1>13. ASSUME NEW s \in Skills, skillSave(s) \/ skillLapses(s) PROVE FALSE
  BY <1>4, <1>13 DEF skillSave, skillLapses
<1>14. ASSUME NEW p \in Procs, NEW s \in Skills, teachingExpireJob(p, s) PROVE FALSE
  BY <1>4, <1>14 DEF teachingExpireJob
<1>15. ASSUME ControlStep PROVE Kept \/ Asks
  BY <1>8, <1>9, <1>10, <1>11, <1>15 DEF ControlStep
<1>16. ASSUME UNCHANGED teachVars PROVE Kept
  BY <1>2, <1>16 DEF teachVars, vars
<1> HIDE DEF Kept, Asks
<1>17. Kept \/ Asks
  BY <1>5, <1>6, <1>12, <1>13, <1>14, <1>15, <1>16 DEF TeachNext
<1> QED BY <1>17 DEF Kept, Asks

(* What users ask for and whose runs work is as it was at the start.       *)
LEMMA EnvKept ==
  ASSUME ControlInv, [TeachNext]_teachVars
  PROVE  env'.asks = env.asks /\ env'.workers = env.workers
<1> DEFINE Writes == UNCHANGED env \/ Fault \/ GrantsLease \/ \E p \in Procs : Crash(p)
<1>1. ASSUME NEW p \in Procs, Proceed(p) PROVE Writes
  BY <1>1 DEF Proceed, evictRevokes, evictClears, takeoverRereads, takeoverChecks, takeoverGrants,
     takeoverAdopts, bindWaitingTakeoverToControl, takeoverSchedules, takeoverUndoes,
     releaseRevokes, releaseFinalizes, connectScreen, expireReads, expireDenies, expireRevokes,
     expireFinalizes, NoFault
<1>2. ASSUME NEW p \in Procs, Request(p) \/ controlExpireJob(p) PROVE Writes
  BY <1>2 DEF Request, takeoverReads, releaseReads, screenReads, statusReads, controlExpireJob
<1>3. ASSUME NEW b \in Bots, RunStep(b) PROVE Writes
  BY <1>3 DEF RunStep, runTakesComputer, pauseRunForTakeover, runEnds
<1>4. ControlStep => Writes
  BY <1>1, <1>2, <1>3 DEF ControlStep, leaseLapses, reconcileOnce
<1>5. ASSUME NEW p \in Procs, TeachProceed(p) PROVE Writes
  BY <1>5 DEF TeachProceed, cancelActiveRuns, extendActiveComputerControl, grantTakeover,
     teachSchedules, teachCreates, teachEnqueues, expireTaughtSkillTeaching, stopReads,
     finalizeTeachingRecording, teachingReleaseReads, teachingReleaseRevokes,
     teachingReleaseCancels, teachingReleaseFinalizes, emitSkillDraftMessages, teachingCancels,
     teachingEnds, removeCancels, removeDeletes, Throws, NoFault
<1>6. ASSUME NEW p \in Procs, NEW s \in Skills,
             \/ startReads(p, s) \/ stopTeachingSession(p, s) \/ removeReads(p, s)
             \/ teachingExpireJob(p, s)
      PROVE  Writes
  BY <1>6 DEF startReads, stopTeachingSession, removeReads, teachingExpireJob
<1>7. ASSUME NEW s \in Skills, skillSave(s) \/ skillLapses(s) PROVE Writes
  BY <1>7 DEF skillSave, skillLapses
<1>8. UNCHANGED teachVars => Writes
  BY DEF teachVars, vars
<1>9. \A p \in Procs : teachCrash(p) => Writes
  BY DEF teachCrash
<1> HIDE DEF Writes
<1>10. Writes
  BY <1>4, <1>5, <1>6, <1>7, <1>8, <1>9 DEF TeachNext, TeachRequest
<1> QED BY <1>10 DEF Writes, Fault, GrantsLease, Crash, ControlInv, RowsTyped, EnvState

(* A control lease stays what its request made it. The run it names is a   *)
(* run of the bot whose screen it is for, and while it has time left only  *)
(* its own release, another bot's takeover or the takeover that could not  *)
(* schedule its end takes it from the user: no expiry, no pause and nobody *)
(* who acts for an earlier lease. It holds wherever runs do not work while *)
(* a bot is taught: a session is granted the row with the run it still     *)
(* names (computer-control.ts, packages/db/src/events.ts).                 *)
THEOREM ControlOwn ==
  TeachSpec /\ (\A e \in Settings : "teach" \in e.asks => e.workers = {}) => ControlIsOwn
<1> DEFINE Scenes == \A e \in Settings : "teach" \in e.asks => e.workers = {}
           Apart == Taught => env.workers = {}
<1>1. Scenes /\ TeachInit => Apart
  BY DEF TeachInit, Init, Taught
<1>2. ControlInv /\ ControlInv' /\ Apart /\ [TeachNext]_teachVars => Apart'
  BY EnvKept DEF Taught
<1>3. ControlInv /\ Apart => BindingIsOwn
  <2> SUFFICES ASSUME ControlInv, Apart PROVE BindingIsOwn
    OBVIOUS
  <2>1. CASE Taught
    BY <2>1 DEF ControlInv, RowsSound, NoRuns, BindingIsOwn
  <2>2. CASE ~Taught
    BY <2>2 DEF ControlInv, RowsSound, OwnBinding
  <2> QED BY <2>1, <2>2
<1>4. ControlInv /\ [TeachNext]_teachVars =>
        [Active /\ "teach" \notin env.asks =>
           \/ computer'.lease = computer.lease /\ computer'.holder = "user"
           \/ \E p \in Procs : /\ proc[p].pc \in {"clear", "finalize", "undo"}
                               /\ Seen(p).lease = computer.lease
                               /\ proc'[p] # proc[p]]_vars
  BY ControlStays DEF Taught
<1> HIDE DEF Apart
<1>5. TeachSpec => []ControlInv
  BY ControlInvariant
<1>6. TeachSpec /\ Scenes => []Apart
  <2> HIDE DEF Scenes
  <2> QED BY <1>1, <1>2, <1>5, PTL DEF TeachSpec
<1>7. TeachSpec /\ Scenes => []BindingIsOwn
  BY <1>3, <1>5, <1>6, PTL
<1>8. TeachSpec => ControlIsKept
  BY <1>4, <1>5, PTL DEF TeachSpec, ControlIsKept
<1> QED BY <1>7, <1>8 DEF ControlIsOwn

(* The end of a session ends the lease that the session has recorded.      *)
LEMMA SessionLetsGo ==
  ASSUME ControlInv, [TeachNext]_teachVars, NEW p \in Procs, proc[p].pc = "skillLetGo",
         proc'[p] # proc[p], computer'.lease # computer.lease
  PROVE  computer.lease = skill[local[p].skill].lease
<1>1. proc[p].pc \in LetGoPcs /\ proc[p].pc \in OwnLeasePcs /\ proc[p].pc \in TeachPcs
  BY TeachNames
<1>2. Seen(p).lease = skill[local[p].skill].lease
  BY <1>1, TeachSets
<1>3. teachingReleaseFinalizes(p) => computer.lease = Seen(p).lease
  BY DEF teachingReleaseFinalizes, finalizeComputerControlRelease, Matches
<1>4. computer' # computer /\ proc \in [Procs -> ProcState]
  BY DEF ControlInv, ProcsTyped
<1>5. ASSUME NEW q \in Procs, NEW pc, Goes(q, pc) \/ GoesSeeing(q, pc) \/ Ends(q) PROVE q = p
  BY <1>4, <1>5 DEF Goes, GoesSeeing, Ends
<1>6. ASSUME NEW q \in Procs, TeachProceed(q) PROVE teachingReleaseFinalizes(p)
  <2>1. \/ extendActiveComputerControl(q) \/ grantTakeover(q) \/ teachingReleaseFinalizes(q)
    BY <1>4, <1>6
       DEF TeachProceed, cancelActiveRuns, teachSchedules, teachCreates, teachEnqueues,
           expireTaughtSkillTeaching, stopReads, finalizeTeachingRecording, teachingReleaseReads,
           teachingReleaseRevokes, teachingReleaseCancels, emitSkillDraftMessages, teachingCancels,
           teachingEnds, removeCancels, removeDeletes
  <2>2. CASE teachingReleaseFinalizes(q)
    BY <1>5, <2>2 DEF teachingReleaseFinalizes
  <2>3. CASE extendActiveComputerControl(q)
    <3>1. q = p
      BY <1>5, <2>3 DEF extendActiveComputerControl
    <3> QED BY <2>3, <3>1 DEF extendActiveComputerControl, At
  <2>4. CASE grantTakeover(q)
    <3>1. q = p
      BY <1>5, <2>4 DEF grantTakeover, Done
    <3> QED BY <2>4, <3>1 DEF grantTakeover, At
  <2> QED BY <2>1, <2>2, <2>3, <2>4
<1>7. ASSUME NEW q \in Procs, Proceed(q) PROVE FALSE
  <2>1. proc[q].pc \notin TeachPcs
    BY <1>7 DEF Proceed, evictRevokes, evictClears, takeoverRereads, takeoverChecks, takeoverGrants,
       takeoverAdopts, bindWaitingTakeoverToControl, takeoverSchedules, takeoverUndoes,
       releaseRevokes, releaseFinalizes, connectScreen, expireReads, expireDenies, expireRevokes,
       expireFinalizes, At, TeachPcs, LetGoPcs
  <2>2. q # p
    BY <1>1, <2>1
  <2>3. proc'[p] = proc[p]
    BY <1>4, <1>7, <2>2
       DEF Proceed, evictRevokes, evictClears, takeoverRereads, takeoverChecks, takeoverGrants,
           takeoverAdopts, bindWaitingTakeoverToControl, takeoverSchedules, takeoverUndoes,
           releaseRevokes, releaseFinalizes, connectScreen, expireReads, expireDenies,
           expireRevokes, expireFinalizes, Goes, GoesSeeing, GoesOn, Ends, Returns
  <2> QED BY <2>3
<1>8. ASSUME NEW q \in Procs, Request(q) \/ controlExpireJob(q) PROVE FALSE
  BY <1>4, <1>8 DEF Request, takeoverReads, releaseReads, screenReads, statusReads, controlExpireJob
<1>9. ASSUME NEW b \in Bots, RunStep(b) PROVE FALSE
  BY <1>9 DEF RunStep, runTakesComputer, pauseRunForTakeover, runEnds
<1>10. ASSUME ControlStep PROVE FALSE
  BY <1>7, <1>8, <1>9, <1>10 DEF ControlStep, leaseLapses, reconcileOnce
<1>11. ASSUME NEW q \in Procs, NEW s \in Skills,
              \/ startReads(q, s) \/ stopTeachingSession(q, s) \/ removeReads(q, s)
              \/ teachingExpireJob(q, s) \/ skillSave(s) \/ skillLapses(s)
       PROVE  FALSE
  BY <1>4, <1>11 DEF startReads, stopTeachingSession, removeReads, teachingExpireJob, skillSave,
     skillLapses
<1>12. ASSUME NEW q \in Procs, teachCrash(q) PROVE FALSE
  BY <1>4, <1>12 DEF teachCrash, Crash
<1>13. ~UNCHANGED teachVars
  BY <1>4 DEF teachVars, vars
<1>14. teachingReleaseFinalizes(p)
  BY <1>6, <1>10, <1>11, <1>12, <1>13 DEF TeachNext, TeachRequest
<1> QED BY <1>2, <1>3, <1>14

(* However the stop, the expiry job, the removal and their retries overlap, *)
(* a session is said to have stopped once, its draft is posted once, and   *)
(* its end ends the lease it took and no other (teaching-session.ts).      *)
THEOREM SessionsEndOnce == TeachSpec => SessionEndsOnce
<1>1. ControlInv => AnnouncedOnce
  BY DEF ControlInv, RowsSound, SessionsEnd, AnnouncedOnce
<1>2. ControlInv /\ [TeachNext]_teachVars =>
        [\A p \in Procs :
           proc[p].pc = "skillLetGo" /\ proc'[p] # proc[p] /\ computer'.lease # computer.lease
             => computer.lease = skill[local[p].skill].lease]_teachVars
  BY SessionLetsGo
<1>3. TeachSpec => []AnnouncedOnce
  BY <1>1, ControlInvariant, PTL
<1>4. TeachSpec => SessionEndsItsOwn
  BY <1>2, ControlInvariant, PTL DEF TeachSpec, SessionEndsItsOwn
<1> QED BY <1>3, <1>4 DEF SessionEndsOnce
=============================================================================
