----------------------- MODULE MessagingOutboxProofs -----------------------
(***************************************************************************)
(* What MessagingOutbox's runs check on small instances, for every number  *)
(* of drains and rows, every budget of attempts and every cap.             *)
(***************************************************************************)
EXTENDS MessagingOutbox, FiniteSetTheorems, TLAPS

USE OutboxAssumption DEF OutboxAssumption

-----------------------------------------------------------------------------
(* The inductive invariant *)

Holding == {"identity", "release", "send", "record", "count", "fail", "enqueue",
            "lock", "invite", "commit"}
Unsent == {"identity", "release", "send", "lock", "invite"}

(* A drain has a row exactly while it works on one. *)
HasRow == \A d \in Drains : drain[d].pc \in Holding <=> drain[d].row \in Rows

(* A held row is claimed: no other drain's claim can match it. *)
HeldIsClaimed ==
  \A d \in Drains : \A r \in Rows :
    Working(d, r) => row[r].status \in {"sent", "failed", "deleted"}

(* What may still be tried has an attempt left. *)
AttemptLeft ==
  /\ \A r \in Rows : row[r].status = "pending" => row[r].attempts < MaxAttempts
  /\ \A d \in Drains : \A r \in drain[d].list : drain[d].seen[r] < MaxAttempts
  /\ \A d \in Drains : \A r \in Rows :
       Working(d, r) => row[r].attempts < MaxAttempts /\ drain[d].seen[r] < MaxAttempts

(* Where a row may still be sent it has not been accepted, if nothing fails. *)
NotYetAccepted ==
  /\ \A r \in Rows : sent[r] <= 1
  /\ \A r \in Rows : row[r].status \in {"absent", "pending"} => sent[r] = 0
  /\ \A d \in Drains : drain[d].pc \in Unsent => sent[drain[d].row] = 0
  /\ \A d \in Drains : drain[d].pc = "fail" => ~Exists(drain[d].row)

IInv ==
  /\ TypeOK /\ HasRow /\ HeldIsClaimed /\ OneHolder /\ AttemptLeft
  /\ (MaxFaults = 0 => NotYetAccepted)

-----------------------------------------------------------------------------
(* Steps in general *)

Pcs == Holding \cup {"idle", "read", "next"}

(* A drain that goes on keeps its list and what it read. *)
LEMMA GoesFacts ==
  ASSUME drain \in [Drains -> DrainState], NEW d \in Drains, NEW pc \in Pcs, Goes(d, pc)
  PROVE  /\ drain' \in [Drains -> DrainState]
         /\ drain'[d].pc = pc /\ drain'[d].list = drain[d].list
         /\ drain'[d].seen = drain[d].seen
         /\ drain'[d].row = IF pc = "next" THEN NoRow ELSE drain[d].row
         /\ \A e \in Drains \ {d} : drain'[e] = drain[e]
<1>1. drain[d] \in DrainState
  OBVIOUS
<1>2. drain' = [drain EXCEPT ![d] = [drain[d] EXCEPT !.pc = pc,
                  !.row = IF pc = "next" THEN NoRow ELSE drain[d].row]]
  BY DEF Goes
<1>3. [drain[d] EXCEPT !.pc = pc, !.row = IF pc = "next" THEN NoRow ELSE drain[d].row]
        \in DrainState
  BY <1>1 DEF DrainState, Pcs, Holding
<1> QED
  BY <1>1, <1>2, <1>3 DEF DrainState

(* What a step of the world around the drains does to a row. *)
Keeps(r) ==
  /\ row'[r].status = "pending" => row'[r].attempts < MaxAttempts
  /\ row[r].attempts < MaxAttempts => row'[r].attempts < MaxAttempts
  /\ row[r].status \in {"sent", "failed", "deleted"} =>
       row'[r].status \in {"sent", "failed", "deleted"}
  /\ row[r].status = "deleted" => row'[r].status = "deleted"

(* A step that keeps the rows and leaves the drains alone. *)
LEMMA WorldStep ==
  ASSUME IInv, UNCHANGED drain, UNCHANGED sent, \A r \in Rows : Keeps(r)
  PROVE  HasRow' /\ HeldIsClaimed' /\ OneHolder' /\ AttemptLeft'
         /\ (MaxFaults = 0 => NotYetAccepted')
<1>1. HasRow' /\ OneHolder'
  BY DEF IInv, HasRow, OneHolder, Working
<1>2. HeldIsClaimed'
  BY DEF IInv, HeldIsClaimed, Working, Keeps
<1>3. AttemptLeft'
  BY DEF IInv, AttemptLeft, Working, Keeps, TypeOK, DrainState
<1>4. ASSUME MaxFaults = 0 PROVE NotYetAccepted'
  <2> USE <1>4
  <2>1. \A r \in Rows : row'[r].status \in {"absent", "pending"} => sent'[r] = 0
    BY DEF IInv, NotYetAccepted, Keeps, TypeOK, Outbound
  <2>2. \A d \in Drains : drain'[d].pc = "fail" => ~Exists(drain[d].row)'
    BY DEF IInv, NotYetAccepted, Keeps, Exists, HasRow, HeldIsClaimed, Working, Holding
  <2> QED
    BY <2>1, <2>2 DEF IInv, NotYetAccepted, Exists
<1> QED
  BY <1>1, <1>2, <1>3, <1>4

(* A drain that works on row x goes on and touches x alone. *)
LEMMA DrainStep ==
  ASSUME IInv, NEW d \in Drains, NEW pc \in Holding \cup {"next"}, Goes(d, pc),
         NEW x \in Rows, x = drain[d].row, drain[d].pc \in Holding \ {"enqueue"},
         \A r \in Rows \ {x} : row'[r] = row[r] /\ sent'[r] = sent[r],
         pc \notin {"next", "enqueue"} => /\ row'[x].status \in {"sent", "failed", "deleted"}
                                          /\ row'[x].attempts < MaxAttempts,
         row'[x].status = "pending" => row'[x].attempts < MaxAttempts,
         MaxFaults = 0 => /\ sent'[x] <= 1
                          /\ row'[x].status \in {"absent", "pending"} => sent'[x] = 0
                          /\ pc \in Unsent => sent'[x] = 0
                          /\ pc = "fail" => row'[x].status = "deleted"
  PROVE  HasRow' /\ HeldIsClaimed' /\ OneHolder' /\ AttemptLeft'
         /\ (MaxFaults = 0 => NotYetAccepted')
<1> USE DEF IInv
<1>1. /\ drain' \in [Drains -> DrainState] /\ drain \in [Drains -> DrainState]
      /\ drain'[d].pc = pc /\ drain'[d].list = drain[d].list
      /\ drain'[d].seen = drain[d].seen
      /\ drain'[d].row = IF pc = "next" THEN NoRow ELSE x
      /\ \A e \in Drains \ {d} : drain'[e] = drain[e]
  BY GoesFacts DEF TypeOK, Pcs
<1>2. \A e \in Drains \ {d} : \A r \in Rows : Working(e, r)' => Working(e, r) /\ r # x
  BY <1>1 DEF OneHolder, Working, Holding
<1>3. \A r \in Rows : Working(d, r)' => r = x /\ pc \notin {"next", "enqueue"} /\ Working(d, x)
  <2>1. NoRow \notin Rows
    BY DEF Rows, Mirrored
  <2> QED
    BY <1>1, <2>1 DEF Working, Holding
<1>4. HasRow'
  <2>1. NoRow \notin Rows
    BY DEF Rows, Mirrored
  <2> QED
    BY <1>1, <2>1 DEF HasRow, Holding
<1>5. HeldIsClaimed'
  BY <1>2, <1>3 DEF HeldIsClaimed
<1>6. OneHolder'
  BY <1>2, <1>3 DEF OneHolder
<1>7. AttemptLeft'
  <2>1. \A r \in Rows : row'[r].status = "pending" => row'[r].attempts < MaxAttempts
    BY DEF AttemptLeft
  <2>2. \A e \in Drains : \A r \in drain'[e].list : drain'[e].seen[r] < MaxAttempts
    BY <1>1 DEF AttemptLeft
  <2>3. \A e \in Drains \ {d} : \A r \in Rows : Working(e, r)' =>
          row'[r].attempts < MaxAttempts /\ drain'[e].seen[r] < MaxAttempts
    BY <1>1, <1>2 DEF AttemptLeft
  <2>4. \A r \in Rows : Working(d, r)' =>
          row'[r].attempts < MaxAttempts /\ drain'[d].seen[r] < MaxAttempts
    BY <1>1, <1>3 DEF AttemptLeft
  <2> QED
    BY <2>1, <2>2, <2>3, <2>4 DEF AttemptLeft
<1>8. ASSUME MaxFaults = 0 PROVE NotYetAccepted'
  <2> USE <1>8
  <2>1. \A e \in Drains \ {d} : drain'[e].pc \in Unsent \cup {"fail"} =>
          /\ drain[e].row \in Rows /\ drain[e].row # x
          /\ drain'[e] = drain[e]
    BY <1>1 DEF HasRow, OneHolder, Working, Holding, Unsent
  <2>2. \A e \in Drains : drain'[e].pc \in Unsent => sent'[drain'[e].row] = 0
    BY <1>1, <2>1 DEF NotYetAccepted, Unsent
  <2>3. \A e \in Drains : drain'[e].pc = "fail" => ~Exists(drain[e].row)'
    BY <1>1, <2>1 DEF NotYetAccepted, Exists
  <2>4. \A r \in Rows : /\ sent'[r] <= 1
                        /\ row'[r].status \in {"absent", "pending"} => sent'[r] = 0
    BY DEF NotYetAccepted
  <2>5. \A e \in Drains : drain'[e].pc = "fail" => ~Exists(drain[e].row)' /\ drain'[e].row = drain[e].row
    BY <1>1, <2>3
  <2> QED
    BY <2>2, <2>4, <2>5 DEF NotYetAccepted, Exists
<1> QED
  BY <1>4, <1>5, <1>6, <1>7, <1>8

(* A drain comes to rest, or stays there, and works on no row. *)
LEMMA RestStep ==
  ASSUME IInv, NEW d \in Drains, UNCHANGED sent, \A r \in Rows : Keeps(r),
         drain'[d].pc \in {"idle", "read", "next"}, drain'[d].row = NoRow,
         \A r \in drain'[d].list : drain'[d].seen[r] < MaxAttempts,
         \A e \in Drains \ {d} : drain'[e] = drain[e]
  PROVE  HasRow' /\ HeldIsClaimed' /\ OneHolder' /\ AttemptLeft'
         /\ (MaxFaults = 0 => NotYetAccepted')
<1> USE DEF IInv
<1>1. NoRow \notin Rows
  BY DEF Rows, Mirrored
<1>2. \A e \in Drains : \A r \in Rows : Working(e, r)' =>
        Working(e, r) /\ e # d /\ drain'[e] = drain[e]
  BY <1>1 DEF Working
<1>3. HasRow'
  BY <1>1 DEF HasRow, Holding
<1>4. OneHolder' /\ HeldIsClaimed'
  BY <1>2 DEF OneHolder, HeldIsClaimed, Keeps
<1>5. AttemptLeft'
  <2>1. \A r \in Rows : row'[r].status = "pending" => row'[r].attempts < MaxAttempts
    BY DEF Keeps
  <2>2. \A e \in Drains : \A r \in drain'[e].list : drain'[e].seen[r] < MaxAttempts
    BY DEF AttemptLeft
  <2>3. \A e \in Drains : \A r \in Rows : Working(e, r)' =>
          row'[r].attempts < MaxAttempts /\ drain'[e].seen[r] < MaxAttempts
    BY <1>2 DEF AttemptLeft, Keeps
  <2> QED
    BY <2>1, <2>2, <2>3 DEF AttemptLeft
<1>6. ASSUME MaxFaults = 0 PROVE NotYetAccepted'
  <2> USE <1>6
  <2>1. \A r \in Rows : row'[r].status \in {"absent", "pending"} => sent'[r] = 0
    BY DEF NotYetAccepted, Keeps, TypeOK, Outbound
  <2>2. \A e \in Drains : drain'[e].pc \in Unsent => sent'[drain'[e].row] = 0
    BY DEF NotYetAccepted, Unsent
  <2>3. \A e \in Drains : drain'[e].pc = "fail" =>
          /\ e # d /\ drain'[e] = drain[e] /\ drain[e].row \in Rows
          /\ Working(e, drain[e].row) /\ row[drain[e].row].status \in {"absent", "deleted"}
    BY DEF NotYetAccepted, Exists, HasRow, Holding, Working
  <2>4. \A e \in Drains : drain'[e].pc = "fail" => row'[drain'[e].row].status = "deleted"
    BY <2>3 DEF HeldIsClaimed, Keeps
  <2> QED
    BY <2>1, <2>2, <2>4 DEF NotYetAccepted, Exists
<1> QED
  BY <1>3, <1>4, <1>5, <1>6

-----------------------------------------------------------------------------
(* The world around the drains *)

(* A row that was never written, or was just written, is well typed. *)
LEMMA FreshType == Absent \in Outbound /\ Fresh \in Outbound
<1>1. 0 \in 0 .. MaxAttempts
  OBVIOUS
<1>2. Absent \in Outbound
  BY <1>1 DEF Absent, Outbound
<1> QED
  BY <1>2 DEF Fresh, Outbound

(* Replies, requests, answers, revocations, the owner's messages, status   *)
(* reports and time keep the invariant.                                    *)
LEMMA WorldInv ==
  ASSUME IInv,
         \/ connectAgent \/ respondAgentConnection \/ applyOwnerCommand \/ revoke \/ Inbound
         \/ \E r \in Rows : applyMessagingOutboundStatus(r) \/ BackoffEnds(r)
         \/ RetryIsDue \/ reconcileOnce
         \/ \E d \in Drains : TransactionTimesOut(d)
  PROVE  IInv'
<1>0. /\ row \in [Rows -> Outbound]
      /\ \A r \in Rows : row[r].status = "pending" => row[r].attempts < MaxAttempts
  BY DEF IInv, TypeOK, AttemptLeft
<1>1. CASE connectAgent
  <2>1. PICK new \in Invites :
          /\ row[new].status = "absent"
          /\ row' = [r \in Rows |-> IF r = new THEN Fresh
                                    ELSE IF r \in Invites /\ Exists(r)
                                         THEN [row[r] EXCEPT !.status = "deleted"]
                                         ELSE row[r]]
    BY <1>1 DEF connectAgent
  <2>2. row' \in [Rows -> Outbound]
    BY <1>0, <2>1, FreshType DEF Outbound
  <2>3. \A r \in Rows : Keeps(r)
    BY <1>0, <2>1 DEF Keeps, Fresh, Absent, Exists, Outbound
  <2>4. TypeOK'
    BY <1>1, <2>2 DEF IInv, TypeOK, connectAgent, Enqueue, Fault, NoFault
  <2> QED
    BY <1>1, <2>3, <2>4, WorldStep DEF IInv, connectAgent
<1>2. CASE respondAgentConnection
  <2>1. (\A r \in Rows : Keeps(r)) /\ TypeOK'
    BY <1>0, <1>2 DEF respondAgentConnection, Answered, Keeps, IInv, TypeOK
  <2> QED
    BY <1>2, <2>1, WorldStep DEF IInv, respondAgentConnection
<1>3. CASE applyOwnerCommand
  <2>1. PICK r \in Direct : row[r].status = "absent" /\ row' = [row EXCEPT ![r] = Fresh]
    BY <1>3 DEF applyOwnerCommand
  <2>2. row' \in [Rows -> Outbound]
    BY <1>0, <2>1, FreshType
  <2>3. \A q \in Rows : Keeps(q)
    BY <1>0, <2>1 DEF Keeps, Fresh, Absent
  <2>4. TypeOK'
    BY <1>3, <2>2 DEF IInv, TypeOK, applyOwnerCommand, Answered, Enqueue, Fault, NoFault
  <2> QED
    BY <1>3, <2>3, <2>4, WorldStep DEF IInv, applyOwnerCommand
<1>4. CASE revoke
  <2>1. row' \in [Rows -> Outbound]
    BY <1>0, <1>4 DEF revoke, Outbound
  <2>2. \A r \in Rows : Keeps(r)
    BY <1>0, <1>4 DEF revoke, Keeps, Undelivered, Outbound
  <2>3. TypeOK'
    BY <1>4, <2>1 DEF IInv, TypeOK, revoke
  <2> QED
    BY <1>4, <2>2, <2>3, WorldStep DEF IInv, revoke
<1>5. CASE Inbound
  <2>1. (\A r \in Rows : Keeps(r)) /\ TypeOK'
    BY <1>0, <1>5 DEF Inbound, Keeps, IInv, TypeOK
  <2> QED
    BY <1>5, <2>1, WorldStep DEF IInv, Inbound
<1>6. ASSUME NEW r \in Rows, applyMessagingOutboundStatus(r) PROVE IInv'
  <2>1. PICK status \in {"sent", "failed"} : row' = [row EXCEPT ![r].status = status]
    BY <1>6 DEF applyMessagingOutboundStatus
  <2>2. row' \in [Rows -> Outbound]
    BY <1>0, <2>1 DEF Outbound
  <2>3. row[r].status # "deleted"
    BY <1>6 DEF applyMessagingOutboundStatus, Exists
  <2>4. \A q \in Rows : Keeps(q)
    BY <1>0, <2>1, <2>3 DEF Keeps, Outbound
  <2>5. TypeOK'
    BY <1>6, <2>2 DEF IInv, TypeOK, applyMessagingOutboundStatus
  <2> QED
    BY <1>6, <2>4, <2>5, WorldStep DEF IInv, applyMessagingOutboundStatus
<1>7. ASSUME NEW r \in Rows, BackoffEnds(r) PROVE IInv'
  <2>1. row' \in [Rows -> Outbound]
    BY <1>0, <1>7 DEF BackoffEnds, Outbound
  <2>2. \A q \in Rows : Keeps(q)
    BY <1>0, <1>7 DEF BackoffEnds, Keeps, Outbound
  <2>3. TypeOK'
    BY <1>7, <2>1 DEF IInv, TypeOK, BackoffEnds, Keep
  <2> QED
    BY <1>7, <2>2, <2>3, WorldStep DEF IInv, BackoffEnds, Keep
<1>8. CASE RetryIsDue \/ reconcileOnce
  <2>1. (\A r \in Rows : Keeps(r)) /\ TypeOK'
    BY <1>0, <1>8 DEF RetryIsDue, reconcileOnce, Enqueue, Keep, Keeps, IInv, TypeOK
  <2> QED
    BY <1>8, <2>1, WorldStep DEF IInv, RetryIsDue, reconcileOnce, Keep
<1>9. ASSUME NEW d \in Drains, TransactionTimesOut(d) PROVE IInv'
  <2>1. (\A r \in Rows : Keeps(r)) /\ TypeOK'
    BY <1>0, <1>9 DEF TransactionTimesOut, Keep, Keeps, IInv, TypeOK
  <2> QED
    BY <1>9, <2>1, WorldStep DEF IInv, TransactionTimesOut, Keep
<1> QED
  BY <1>1, <1>2, <1>3, <1>4, <1>5, <1>6, <1>7, <1>8, <1>9

(* The mirror writes rows that were not there. *)
LEMMA MirrorInv ==
  ASSUME IInv, mirrorMessagingOutbound
  PROVE  IInv'
<1>0. row \in [Rows -> Outbound] /\ drain \in [Drains -> DrainState]
  BY DEF IInv, TypeOK
<1>1. PICK S \in SUBSET {r \in Mirrored : row[r].status = "absent"} :
        row' = [r \in Rows |-> IF r \in S THEN Fresh ELSE row[r]]
  BY DEF mirrorMessagingOutbound
<1>2. row' \in [Rows -> Outbound]
  BY <1>0, <1>1, FreshType
<1>3. \A r \in Rows : Keeps(r)
  BY <1>0, <1>1 DEF Keeps, Fresh, Absent, IInv, AttemptLeft
<1>4. CASE Enqueue("now") /\ NoFault /\ UNCHANGED drain
  <2>1. TypeOK'
    BY <1>2, <1>4 DEF mirrorMessagingOutbound, Enqueue, NoFault, IInv, TypeOK
  <2> QED
    BY <1>3, <1>4, <2>1, WorldStep DEF mirrorMessagingOutbound, IInv
<1>5. ASSUME NEW d \in Drains, drain[d].pc = "idle", Fault, Goes(d, "read"), UNCHANGED job
      PROVE  IInv'
  <2>1. /\ drain' \in [Drains -> DrainState]
        /\ drain'[d].pc = "read" /\ drain'[d].list = drain[d].list
        /\ drain'[d].seen = drain[d].seen /\ drain'[d].row = drain[d].row
        /\ \A e \in Drains \ {d} : drain'[e] = drain[e]
    BY <1>0, <1>5, GoesFacts DEF Pcs
  <2>2. drain'[d].row = NoRow
    BY <1>0, <1>5, <2>1 DEF IInv, HasRow, Holding, DrainState
  <2>3. \A r \in drain'[d].list : drain'[d].seen[r] < MaxAttempts
    BY <2>1 DEF IInv, AttemptLeft
  <2>4. TypeOK'
    BY <1>2, <1>5, <2>1 DEF mirrorMessagingOutbound, Fault, IInv, TypeOK
  <2>5. UNCHANGED sent
    BY DEF mirrorMessagingOutbound
  <2> QED
    BY <1>3, <2>1, <2>2, <2>3, <2>4, <2>5, RestStep DEF IInv
<1> QED
  BY <1>4, <1>5 DEF mirrorMessagingOutbound

-----------------------------------------------------------------------------
(* A drain between rows *)

(* A drain that works on no row after its step. *)
LEMMA RestTakes ==
  ASSUME IInv, NEW d \in Drains,
         drainBegins(d) \/ drainReads(d) \/ drainEnds(d) \/ EnqueueRetry(d) \/ Crash(d)
  PROVE  /\ drain' \in [Drains -> DrainState]
         /\ drain'[d].pc \in {"idle", "read", "next"} /\ drain'[d].row = NoRow
         /\ \A r \in drain'[d].list : drain'[d].seen[r] < MaxAttempts
         /\ \A e \in Drains \ {d} : drain'[e] = drain[e]
<1>0. /\ row \in [Rows -> Outbound] /\ drain \in [Drains -> DrainState]
      /\ \A r \in Rows : row[r].status = "pending" => row[r].attempts < MaxAttempts
      /\ \A r \in drain[d].list : drain[d].seen[r] < MaxAttempts
      /\ drain[d].pc \notin Holding => drain[d].row = NoRow
  BY DEF IInv, TypeOK, AttemptLeft, HasRow, DrainState
<1>1. Idle \in DrainState /\ Again \in DrainState
  <2>1. [r \in Rows |-> 0] \in [Rows -> 0 .. MaxAttempts]
    OBVIOUS
  <2> QED
    BY <2>1 DEF Idle, Again, DrainState
<1>2. CASE drainBegins(d)
  BY <1>0, <1>2, GoesFacts DEF drainBegins, Pcs, Holding
<1>3. CASE drainReads(d)
  <2> DEFINE due == {r \in Rows : row[r].status = "pending" /\ row[r].due}
             seen == [r \in Rows |-> row[r].attempts]
             D == [Idle EXCEPT !.pc = "next", !.list = due, !.seen = seen]
  <2>1. seen \in [Rows -> 0 .. MaxAttempts]
    BY <1>0 DEF Outbound
  <2>2. /\ D \in DrainState
        /\ D.pc = "next" /\ D.row = NoRow /\ D.list = due /\ D.seen = seen
    BY <1>1, <2>1 DEF Idle, DrainState
  <2>3. drain' = [drain EXCEPT ![d] = D]
    BY <1>3 DEF drainReads
  <2>4. drain'[d] = D /\ drain' \in [Drains -> DrainState]
    BY <1>0, <2>2, <2>3
  <2> HIDE DEF D
  <2> QED
    BY <1>0, <2>2, <2>3, <2>4
<1>4. CASE drainEnds(d)
  BY <1>0, <1>1, <1>4 DEF drainEnds, Idle
<1>5. CASE EnqueueRetry(d)
  <2>1. CASE Goes(d, "next")
    BY <1>0, <2>1, GoesFacts DEF Pcs
  <2>2. CASE drain' = [drain EXCEPT ![d] = Again]
    BY <1>0, <1>1, <2>2 DEF Again, Idle
  <2> QED
    BY <1>5, <2>1, <2>2 DEF EnqueueRetry
<1>6. CASE Crash(d)
  BY <1>0, <1>1, <1>6 DEF Crash, Again, Idle
<1> QED
  BY <1>2, <1>3, <1>4, <1>5, <1>6

(* A drain that begins, reads, ends, retries or dies keeps the invariant. *)
LEMMA RestInv ==
  ASSUME IInv, NEW d \in Drains,
         drainBegins(d) \/ drainReads(d) \/ drainEnds(d) \/ EnqueueRetry(d) \/ Crash(d)
  PROVE  IInv'
<1>0. /\ row \in [Rows -> Outbound]
      /\ \A r \in Rows : row[r].status = "pending" => row[r].attempts < MaxAttempts
  BY DEF IInv, TypeOK, AttemptLeft
<1>1. UNCHANGED row /\ UNCHANGED sent
  BY DEF drainBegins, drainReads, drainEnds, EnqueueRetry, Crash, Keep
<1>2. \A r \in Rows : Keeps(r)
  BY <1>0, <1>1 DEF Keeps
<1>3. /\ drain' \in [Drains -> DrainState]
      /\ drain'[d].pc \in {"idle", "read", "next"} /\ drain'[d].row = NoRow
      /\ \A r \in drain'[d].list : drain'[d].seen[r] < MaxAttempts
      /\ \A e \in Drains \ {d} : drain'[e] = drain[e]
  BY RestTakes
<1>4. TypeOK'
  BY <1>1, <1>3 DEF drainBegins, drainReads, drainEnds, EnqueueRetry, Crash, Keep, Enqueue,
                    Unlock, Fault, NoFault, IInv, TypeOK
<1> QED
  BY <1>1, <1>2, <1>3, <1>4, RestStep DEF IInv

(* The claim passes a pending row, which nobody holds, to the drain. *)
LEMMA ClaimInv ==
  ASSUME IInv, NEW d \in Drains, NEW r \in Rows, Claim(d, r)
  PROVE  IInv'
<1> USE DEF IInv
<1>0. /\ row \in [Rows -> Outbound] /\ drain \in [Drains -> DrainState]
      /\ drain[d] \in DrainState /\ drain[d].pc = "next" /\ drain[d].row = NoRow
      /\ r \in drain[d].list /\ drain[d].seen[r] < MaxAttempts
      /\ UNCHANGED <<conn, streak, sent, locked, job, spent>>
  BY DEF TypeOK, AttemptLeft, HasRow, Holding, DrainState, Claim, Keep
<1>1. CASE ~ClaimMatches(r)
  <2>1. drain' = [drain EXCEPT ![d].list = @ \ {r}] /\ row' = row
    BY <1>1 DEF Claim
  <2>2. /\ drain' \in [Drains -> DrainState]
        /\ drain'[d].pc = "next" /\ drain'[d].row = NoRow
        /\ drain'[d].list \subseteq drain[d].list /\ drain'[d].seen = drain[d].seen
        /\ \A e \in Drains \ {d} : drain'[e] = drain[e]
    BY <1>0, <2>1 DEF DrainState
  <2>3. \A q \in Rows : Keeps(q)
    BY <2>1 DEF Keeps, AttemptLeft
  <2>4. \A q \in drain'[d].list : drain'[d].seen[q] < MaxAttempts
    BY <2>2 DEF AttemptLeft
  <2>5. TypeOK'
    BY <1>0, <2>1, <2>2 DEF TypeOK
  <2> QED
    BY <1>0, <2>2, <2>3, <2>4, <2>5, RestStep
<1>2. CASE ClaimMatches(r)
  <2> DEFINE pc == IF r \in Group THEN "send" ELSE "identity"
  <2>1. /\ row[r].status = "pending"
        /\ row' = [row EXCEPT ![r] = Claimed(r)]
        /\ drain' = [drain EXCEPT ![d].list = @ \ {r}, ![d].row = r, ![d].pc = pc]
    BY <1>2 DEF Claim, ClaimMatches
  <2>2. /\ row' \in [Rows -> Outbound]
        /\ row'[r].status = "sent" /\ row'[r].attempts = row[r].attempts
        /\ \A q \in Rows \ {r} : row'[q] = row[q]
    BY <1>0, <2>1 DEF Claimed, Outbound
  <2>3. /\ drain' \in [Drains -> DrainState]
        /\ drain'[d].pc = pc /\ drain'[d].row = r
        /\ drain'[d].list \subseteq drain[d].list /\ drain'[d].seen = drain[d].seen
        /\ \A e \in Drains \ {d} : drain'[e] = drain[e]
    BY <1>0, <2>1 DEF DrainState
  <2>4. \A e \in Drains \ {d} : ~Working(e, r)
    BY <2>1 DEF HeldIsClaimed
  <2>5. \A e \in Drains \ {d} : \A q \in Rows : Working(e, q)' => Working(e, q) /\ q # r
    BY <2>3, <2>4 DEF Working
  <2>6. \A q \in Rows : Working(d, q)' => q = r
    BY <2>3 DEF Working
  <2>7. row[r].attempts < MaxAttempts
    BY <2>1 DEF AttemptLeft
  <2>8. TypeOK'
    BY <1>0, <2>2, <2>3 DEF TypeOK
  <2>9. HasRow'
    BY <2>3 DEF HasRow, Holding
  <2>10. HeldIsClaimed' /\ OneHolder'
    BY <2>2, <2>5, <2>6 DEF HeldIsClaimed, OneHolder
  <2>11. AttemptLeft'
    <3>1. \A q \in Rows : row'[q].status = "pending" => row'[q].attempts < MaxAttempts
      BY <2>2 DEF AttemptLeft
    <3>2. \A e \in Drains : \A q \in drain'[e].list : drain'[e].seen[q] < MaxAttempts
      BY <2>3 DEF AttemptLeft
    <3>3. \A e \in Drains : \A q \in Rows : Working(e, q)' =>
            row'[q].attempts < MaxAttempts /\ drain'[e].seen[q] < MaxAttempts
      BY <1>0, <2>2, <2>3, <2>5, <2>6, <2>7 DEF AttemptLeft
    <3> QED
      BY <3>1, <3>2, <3>3 DEF AttemptLeft
  <2>12. ASSUME MaxFaults = 0 PROVE NotYetAccepted'
    <3> USE <2>12
    <3>1. sent[r] = 0
      BY <2>1 DEF NotYetAccepted
    <3>2. \A q \in Rows : /\ sent'[q] <= 1
                          /\ row'[q].status \in {"absent", "pending"} => sent'[q] = 0
      BY <1>0, <2>2 DEF NotYetAccepted
    <3>3. \A e \in Drains : drain'[e].pc \in Unsent => sent'[drain'[e].row] = 0
      BY <1>0, <2>3, <3>1 DEF NotYetAccepted
    <3>4. \A e \in Drains : drain'[e].pc = "fail" =>
            row'[drain'[e].row].status \in {"absent", "deleted"}
      BY <2>2, <2>3, <2>1 DEF NotYetAccepted, Exists, HasRow, Holding
    <3> QED
      BY <3>2, <3>3, <3>4 DEF NotYetAccepted, Exists
  <2> QED
    BY <2>8, <2>9, <2>10, <2>11, <2>12
<1> QED
  BY <1>1, <1>2

-----------------------------------------------------------------------------
(* A drain at work on a row *)

(* Steps that take the drain on and leave its row as it is. *)
LEMMA SameRowInv ==
  ASSUME IInv, NEW d \in Drains, Identity(d) \/ Send(d) \/ Count(d) \/ InviteSend(d)
  PROVE  IInv'
<1> DEFINE x == drain[d].row
<1>0. /\ drain \in [Drains -> DrainState] /\ row \in [Rows -> Outbound]
      /\ sent \in [Rows -> Nat]
      /\ drain[d].pc \in Holding \ {"enqueue"} /\ x \in Rows /\ UNCHANGED row
  BY DEF IInv, TypeOK, HasRow, Holding, Identity, Send, Count, InviteSend, Keep
<1>1. /\ row[x].status \in {"sent", "failed", "deleted"} /\ row[x].attempts < MaxAttempts
  BY <1>0 DEF IInv, HeldIsClaimed, AttemptLeft, Working
<1>2. \A r \in Rows \ {x} : row'[r] = row[r] /\ sent'[r] = sent[r]
  BY <1>0 DEF Identity, Send, Count, InviteSend, Keep, Accepts
<1>3. PICK pc \in Holding \cup {"next"} :
        /\ Goes(d, pc)
        /\ MaxFaults = 0 => /\ sent'[x] <= 1
                            /\ pc \in Unsent => sent'[x] = 0
                            /\ pc # "fail"
  <2>0. spent.faults \in 0 .. MaxFaults /\ (MaxFaults = 0 => ~Fault)
    BY DEF IInv, TypeOK, Fault
  <2>1. MaxFaults = 0 => sent[x] <= 1 /\ (drain[d].pc \in Unsent => sent[x] = 0)
    BY <1>0 DEF IInv, NotYetAccepted
  <2>2. Accepts(x) => sent'[x] = sent[x] + 1
    BY <1>0 DEF Accepts
  <2>3. CASE Identity(d)
    BY <2>0, <2>1, <2>3 DEF Identity, Keep, Unsent, Holding
  <2>4. CASE Send(d)
    BY <2>0, <2>1, <2>2, <2>4, <1>0 DEF Send, Unsent, Holding
  <2>5. CASE Count(d)
    BY <2>0, <2>1, <2>5 DEF Count, Unsent, Holding
  <2>6. CASE InviteSend(d)
    BY <2>0, <2>1, <2>2, <2>6, <1>0 DEF InviteSend, Unsent, Holding
  <2> QED
    BY <2>3, <2>4, <2>5, <2>6
<1>4. TypeOK'
  <2>1. drain' \in [Drains -> DrainState]
    BY <1>0, <1>3, GoesFacts DEF Pcs
  <2>2. sent' \in [Rows -> Nat]
    BY <1>0 DEF Identity, Send, Count, InviteSend, Keep, Accepts
  <2> QED
    BY <1>0, <2>1, <2>2 DEF Identity, Send, Count, InviteSend, Keep, Unlock, Fault, NoFault,
                            IInv, TypeOK
<1>5. HasRow' /\ HeldIsClaimed' /\ OneHolder' /\ AttemptLeft'
      /\ (MaxFaults = 0 => NotYetAccepted')
  <2>1. row'[x].status = "pending" => row'[x].attempts < MaxAttempts
    BY <1>0, <1>1
  <2> QED
    BY <1>0, <1>1, <1>2, <1>3, <2>1, DrainStep
<1> QED
  BY <1>4, <1>5 DEF IInv

(* Storing the provider's handle leaves the row's status and attempts.     *)
LEMMA HandleStored ==
  ASSUME NEW o \in Outbound
  PROVE  LET new == [o EXCEPT !.handle = TRUE]
         IN  new \in Outbound /\ new.status = o.status /\ new.attempts = o.attempts
  BY DEF Outbound

Counted(o, n, due, status) == [o EXCEPT !.attempts = n, !.due = due, !.status = status]

(* The row of a failed attempt is a row with the count and status written. *)
LEMMA AttemptCounted ==
  \A o \in Outbound, n \in 0 .. MaxAttempts, b \in BOOLEAN, s \in {"failed", "pending"} :
     /\ Counted(o, n, b, s) \in Outbound
     /\ Counted(o, n, b, s).status = s /\ Counted(o, n, b, s).attempts = n
<1> SUFFICES ASSUME NEW o \in Outbound, NEW n \in 0 .. MaxAttempts, NEW b \in BOOLEAN,
                    NEW s \in {"failed", "pending"}
             PROVE  /\ Counted(o, n, b, s) \in Outbound
                    /\ Counted(o, n, b, s).status = s /\ Counted(o, n, b, s).attempts = n
  OBVIOUS
<1>1. [o EXCEPT !.attempts = n, !.due = b, !.status = s] \in Outbound
  BY DEF Outbound
<1>2. /\ [o EXCEPT !.attempts = n, !.due = b, !.status = s].status = s
      /\ [o EXCEPT !.attempts = n, !.due = b, !.status = s].attempts = n
  BY DEF Outbound
<1> QED
  BY <1>1, <1>2 DEF Counted

(* Steps that write the drain's row. *)
LEMMA OwnRowInv ==
  ASSUME IInv, NEW d \in Drains,
         Release(d) \/ Record(d) \/ Fail(d) \/ Lock(d) \/ InviteCommit(d)
  PROVE  IInv'
<1> DEFINE x == drain[d].row
           settled == {"sent", "failed", "deleted"}
<1>0. /\ drain \in [Drains -> DrainState] /\ row \in [Rows -> Outbound] /\ row[x] \in Outbound
      /\ drain[d].pc \in Holding \ {"enqueue"} /\ x \in Rows
      /\ UNCHANGED <<conn, streak, sent>>
  BY DEF IInv, TypeOK, HasRow, Holding, Release, Record, Fail, Lock, InviteCommit, Keep
<1>1. /\ row[x].status \in settled /\ row[x].attempts < MaxAttempts
      /\ drain[d].seen[x] \in Nat /\ drain[d].seen[x] < MaxAttempts
  BY <1>0 DEF IInv, HeldIsClaimed, AttemptLeft, Working, DrainState
<1>2. MaxFaults = 0 =>
        /\ ~Fault /\ sent[x] <= 1
        /\ drain[d].pc \in Unsent => sent[x] = 0
        /\ drain[d].pc = "fail" => row[x].status = "deleted"
  BY <1>0, <1>1 DEF IInv, TypeOK, Fault, NotYetAccepted, Exists
<1>3. PICK pc \in Holding \cup {"next"} :
        /\ Goes(d, pc)
        /\ row' \in [Rows -> Outbound] /\ \A r \in Rows \ {x} : row'[r] = row[r]
        /\ pc \notin {"next", "enqueue"} =>
             row'[x].status \in settled /\ row'[x].attempts < MaxAttempts
        /\ row'[x].status = "pending" => row'[x].attempts < MaxAttempts
        /\ MaxFaults = 0 => /\ row'[x].status \in {"absent", "pending"} => sent[x] = 0
                            /\ pc \in Unsent => sent[x] = 0
                            /\ pc = "fail" => row'[x].status = "deleted"
  <2>1. CASE Release(d)
    <3> DEFINE pc == IF Exists(x) THEN "next" ELSE "fail"
    <3>1. Goes(d, pc) /\ drain[d].pc = "release"
      BY <2>1 DEF Release
    <3>2. row' = IF Exists(x) THEN [row EXCEPT ![x].status = "pending"] ELSE row
      BY <2>1 DEF Release, Update
    <3>3. row' \in [Rows -> Outbound] /\ \A r \in Rows \ {x} : row'[r] = row[r]
      BY <1>0, <3>2 DEF Outbound
    <3>4. row'[x].attempts < MaxAttempts /\ (pc = "fail" => row'[x].status = "deleted")
      BY <1>0, <1>1, <3>2 DEF Outbound, Exists
    <3>5. pc \in Holding \cup {"next"} /\ pc \notin Unsent
      BY DEF Holding, Unsent
    <3>6. MaxFaults = 0 => sent[x] = 0
      BY <1>2, <3>1 DEF Unsent
    <3> HIDE DEF x
    <3> QED
      BY <3>1, <3>3, <3>4, <3>5, <3>6
  <2>2. CASE Record(d)
    <3>1. PICK pc \in {"next", "count", "fail"} :
            Goes(d, pc) /\ (pc = "fail" => Fault)
      BY <2>2 DEF Record
    <3> DEFINE stored == [row[x] EXCEPT !.handle = TRUE]
    <3>2. row' = [row EXCEPT ![x] = stored] \/ row' = row
      BY <2>2 DEF Record
    <3>a. stored \in Outbound /\ stored.status = row[x].status
          /\ stored.attempts = row[x].attempts
      BY <1>0, HandleStored
    <3> HIDE DEF stored
    <3>3. row' \in [Rows -> Outbound] /\ \A r \in Rows \ {x} : row'[r] = row[r]
      BY <1>0, <3>2, <3>a
    <3>4. row'[x].attempts = row[x].attempts /\ row'[x].status = row[x].status
      BY <1>0, <3>2, <3>a
    <3> HIDE DEF x
    <3> QED
      BY <1>1, <1>2, <3>1, <3>3, <3>4 DEF Holding, Unsent
  <2>3. CASE Fail(d)
    <3> DEFINE attempts == drain[d].seen[x] + 1
               done == Exhausted(attempts)
               pc == IF done THEN "next" ELSE "enqueue"
    <3>1. Goes(d, pc) /\ drain[d].pc = "fail"
      BY <2>3 DEF Fail
    <3>2. row' = IF Exists(x)
                 THEN [row EXCEPT ![x].attempts = attempts, ![x].due = done,
                                  ![x].status = IF done THEN "failed" ELSE "pending"]
                 ELSE row
      BY <2>3 DEF Fail
    <3>3. attempts \in 0 .. MaxAttempts /\ done \in BOOLEAN
          /\ (~done => attempts < MaxAttempts)
      BY <1>1 DEF Exhausted
    <3> HIDE DEF done, attempts
    <3> DEFINE status == IF done THEN "failed" ELSE "pending"
               failed == Counted(row[x], attempts, done, status)
    <3>a. status \in {"failed", "pending"} /\ (status = "pending" => attempts < MaxAttempts)
      BY <3>3
    <3>b. row' = IF Exists(x) THEN [row EXCEPT ![x] = failed] ELSE row
      BY <1>0, <3>2 DEF Counted
    <3> HIDE DEF status
    <3>d. failed \in Outbound /\ failed.status = status /\ failed.attempts = attempts
      <4>1. row[x] \in Outbound /\ attempts \in 0 .. MaxAttempts /\ done \in BOOLEAN
            /\ status \in {"failed", "pending"}
        BY <1>0, <3>3, <3>a, Zenon
      <4>2. Counted(row[x], attempts, done, status) \in Outbound
        BY <4>1, AttemptCounted
      <4>3. /\ Counted(row[x], attempts, done, status).status = status
            /\ Counted(row[x], attempts, done, status).attempts = attempts
        BY <4>1, AttemptCounted
      <4> QED
        BY <4>2, <4>3
    <3> HIDE DEF failed
    <3>4. row' \in [Rows -> Outbound] /\ \A r \in Rows \ {x} : row'[r] = row[r]
      BY <1>0, <3>b, <3>d
    <3>5. row'[x].status = "pending" => row'[x].attempts < MaxAttempts
      BY <1>0, <1>1, <3>a, <3>b, <3>d
    <3>6. MaxFaults = 0 => row'[x].status = "deleted"
      BY <1>2, <3>1, <3>2 DEF Exists
    <3>7. pc \in Holding \cup {"next"} /\ pc \notin Unsent \cup {"fail"}
          /\ pc \in {"next", "enqueue"}
      BY DEF Holding, Unsent
    <3> HIDE DEF x, pc
    <3> QED
      BY <3>1, <3>4, <3>5, <3>6, <3>7
  <2>4. CASE Lock(d)
    <3>1. PICK pc \in {"next", "invite"} : Goes(d, pc) /\ drain[d].pc = "lock"
      BY <2>4 DEF Lock
    <3>2. row' = row \/ row' = [row EXCEPT ![x].status = "failed"]
      BY <2>4 DEF Lock, Update
    <3>3. row' \in [Rows -> Outbound] /\ \A r \in Rows \ {x} : row'[r] = row[r]
      BY <1>0, <3>2 DEF Outbound
    <3>4. row'[x].attempts = row[x].attempts /\ row'[x].status \in settled
      BY <1>0, <1>1, <3>2 DEF Outbound
    <3> HIDE DEF x
    <3> QED
      BY <1>1, <1>2, <3>1, <3>3, <3>4 DEF Holding, Unsent
  <2>5. CASE InviteCommit(d)
    <3>1. PICK pc \in {"next", "count"} : Goes(d, pc)
      BY <2>5 DEF InviteCommit
    <3> DEFINE stored == [row[x] EXCEPT !.handle = TRUE]
    <3>2. row' = [row EXCEPT ![x] = stored] \/ row' = row
      BY <2>5 DEF InviteCommit
    <3>a. stored \in Outbound /\ stored.status = row[x].status
          /\ stored.attempts = row[x].attempts
      BY <1>0, HandleStored
    <3> HIDE DEF stored
    <3>3. row' \in [Rows -> Outbound] /\ \A r \in Rows \ {x} : row'[r] = row[r]
      BY <1>0, <3>2, <3>a
    <3>4. row'[x].attempts = row[x].attempts /\ row'[x].status = row[x].status
      BY <1>0, <3>2, <3>a
    <3> HIDE DEF x
    <3> QED
      BY <1>1, <1>2, <3>1, <3>3, <3>4 DEF Holding, Unsent
  <2> QED
    BY <2>1, <2>2, <2>3, <2>4, <2>5
<1>4. TypeOK'
  <2>1. drain' \in [Drains -> DrainState]
    BY <1>0, <1>3, GoesFacts DEF Pcs
  <2> QED
    BY <1>0, <1>3, <2>1 DEF Release, Record, Fail, Lock, InviteCommit, Unlock, Fault, NoFault,
                            Keep, IInv, TypeOK
<1>5. HasRow' /\ HeldIsClaimed' /\ OneHolder' /\ AttemptLeft'
      /\ (MaxFaults = 0 => NotYetAccepted')
  BY <1>0, <1>2, <1>3, DrainStep
<1> QED
  BY <1>4, <1>5 DEF IInv

-----------------------------------------------------------------------------
(* The margin of the cap *)

(* A drain that passed the cap's check and has not counted its message. *)
Counting(d) ==
  \/ drain[d].pc \in {"lock", "invite", "commit", "count"}
  \/ drain[d].pc \in {"send", "record"} /\ drain[d].row \notin Group
Counters == {d \in Drains : Counting(d)}

(* What the drains under way will add keeps the streak within its margin. *)
CapInv == Capped => streak + Cardinality(Counters) < Cap + Cardinality(Drains)

(* There are no more drains under way than drains. *)
LEMMA CountersFinite ==
  /\ IsFiniteSet(Counters) /\ Cardinality(Counters) \in Nat
  /\ Cardinality(Drains) \in Nat /\ Cardinality(Counters) <= Cardinality(Drains)
BY DrainsAssumption, FS_Subset, FS_CardinalityType DEF Counters

(* No drain passes the check and the streak does not grow. *)
LEMMA FewerCount ==
  ASSUME TypeOK, CapInv, streak' \in Nat, streak' <= streak,
         \A d \in Drains : Counting(d)' => Counting(d)
  PROVE  CapInv'
<1>1. Counters' \subseteq Counters
  BY DEF Counters
<1>2. Cardinality(Counters') \in Nat /\ Cardinality(Counters') <= Cardinality(Counters)
  BY <1>1, CountersFinite, FS_Subset, FS_CardinalityType
<1>3. Cardinality(Counters)' = Cardinality(Counters')
  OBVIOUS
<1>4. streak \in Nat
  BY DEF TypeOK
<1> QED
  BY <1>2, <1>3, <1>4, CountersFinite DEF CapInv

(* A drain that passes the check does so below the cap. *)
LEMMA IdentityKeepsCap ==
  ASSUME IInv, CapInv, NEW d \in Drains, Identity(d)
  PROVE  CapInv'
<1>1. PICK pc \in {"release", "lock", "send", "fail"} :
        Goes(d, pc) /\ (pc \in {"lock", "send"} => ~AtCap)
  BY DEF Identity
<1>2. drain'[d].pc = pc /\ (\A e \in Drains \ {d} : drain'[e] = drain[e])
  BY <1>1, GoesFacts DEF IInv, TypeOK, Pcs, Holding
<1>3. streak' = streak /\ streak \in Nat
  BY DEF Identity, Keep, IInv, TypeOK
<1>4. CASE pc \in {"lock", "send"}
  <2>1. Cardinality(Counters') \in Nat /\ Cardinality(Counters') <= Cardinality(Drains)
    BY DrainsAssumption, FS_Subset, FS_CardinalityType DEF Counters
  <2>2. Capped => streak < Cap
    BY <1>1, <1>3, <1>4 DEF AtCap
  <2> QED
    BY <1>3, <2>1, <2>2, CountersFinite DEF CapInv
<1>5. CASE pc \notin {"lock", "send"}
  <2>1. \A e \in Drains : Counting(e)' => Counting(e)
    BY <1>1, <1>2, <1>5 DEF Counting
  <2> QED
    BY <1>3, <2>1, FewerCount DEF IInv
<1> QED
  BY <1>4, <1>5

(* A drain that counts its message is no longer under way. *)
LEMMA CountKeepsCap ==
  ASSUME IInv, CapInv, NEW d \in Drains, Count(d)
  PROVE  CapInv'
<1>1. PICK pc \in {"next", "fail"} :
        /\ Goes(d, pc) /\ drain[d].pc = "count"
        /\ streak' = streak \/ streak' = streak + 1
  BY DEF Count
<1>2. drain'[d].pc = pc /\ (\A e \in Drains \ {d} : drain'[e] = drain[e])
  BY <1>1, GoesFacts DEF IInv, TypeOK, Pcs, Holding
<1>3. d \in Counters /\ Counters' = Counters \ {d}
  BY <1>1, <1>2 DEF Counters, Counting
<1>4. Cardinality(Counters') = Cardinality(Counters) - 1
  BY <1>3, CountersFinite, FS_RemoveElement
<1>5. streak \in Nat
  BY DEF IInv, TypeOK
<1> QED
  BY <1>1, <1>4, <1>5, CountersFinite DEF CapInv

(* The other steps of a drain. *)
LEMMA StepKeepsCap ==
  ASSUME IInv, CapInv, NEW d \in Drains, Step(d) \/ Crash(d) \/ TransactionTimesOut(d)
  PROVE  CapInv'
<1>0. /\ drain \in [Drains -> DrainState] /\ drain[d] \in DrainState
      /\ streak \in Nat /\ TypeOK
  BY DEF IInv, TypeOK
<1>1. CASE Identity(d)
  BY <1>1, IdentityKeepsCap
<1>2. CASE Count(d)
  BY <1>2, CountKeepsCap
<1>3. CASE ~Identity(d) /\ ~Count(d)
  <2>1. streak' = streak
    BY <1>3 DEF Step, Crash, TransactionTimesOut, drainBegins, drainReads, Claim, drainEnds,
                Release, Send, Record, Fail, EnqueueRetry, Lock, InviteSend, InviteCommit, Keep
  <2>2. ASSUME NEW pc \in Pcs, Goes(d, pc),
               pc \in {"lock", "invite", "commit", "count"} => Counting(d),
               pc \in {"send", "record"} => Counting(d) \/ drain[d].row \in Group
        PROVE  \A e \in Drains : Counting(e)' => Counting(e)
    BY <1>0, <2>2, GoesFacts DEF Counting
  <2>3. \A e \in Drains : Counting(e)' => Counting(e)
    <3>1. CASE drainBegins(d) \/ Release(d) \/ Fail(d)
      BY <2>2, <3>1 DEF drainBegins, Release, Fail, Pcs, Holding
    <3>2. CASE drainReads(d)
      BY <1>0, <3>2 DEF drainReads, Idle, Counting
    <3>3. CASE drainEnds(d)
      BY <1>0, <3>3 DEF drainEnds, Idle, Counting
    <3>4. CASE Crash(d)
      BY <1>0, <3>4 DEF Crash, Again, Idle, Counting
    <3>5. CASE EnqueueRetry(d)
      <4>1. CASE Goes(d, "next")
        BY <2>2, <4>1 DEF Pcs
      <4>2. CASE drain' = [drain EXCEPT ![d] = Again]
        BY <1>0, <4>2 DEF Again, Idle, Counting
      <4> QED
        BY <3>5, <4>1, <4>2 DEF EnqueueRetry
    <3>6. ASSUME NEW r \in Rows, Claim(d, r) PROVE \A e \in Drains : Counting(e)' => Counting(e)
      <4>1. /\ \A e \in Drains \ {d} : drain'[e] = drain[e]
            /\ \/ drain'[d].pc = drain[d].pc /\ drain[d].pc = "next"
               \/ drain'[d].pc = "send" /\ drain'[d].row = r /\ r \in Group
               \/ drain'[d].pc = "identity"
        BY <1>0, <3>6 DEF Claim, DrainState
      <4> QED
        BY <4>1 DEF Counting
    <3>7. CASE Send(d)
      <4>1. PICK pc \in {"record", "fail"} : Goes(d, pc) /\ drain[d].pc = "send"
        BY <3>7 DEF Send
      <4> QED
        BY <2>2, <4>1 DEF Pcs, Holding, Counting
    <3>8. CASE Record(d)
      <4>1. PICK pc \in {"next", "count", "fail"} :
              Goes(d, pc) /\ drain[d].pc = "record" /\ (pc = "count" => drain[d].row \notin Group)
        BY <3>8 DEF Record
      <4> QED
        BY <2>2, <4>1 DEF Pcs, Holding, Counting
    <3>9. CASE Lock(d) \/ InviteSend(d) \/ InviteCommit(d)
      <4>1. PICK pc \in {"next", "invite", "commit", "count"} :
              Goes(d, pc) /\ drain[d].pc \in {"lock", "invite", "commit"}
        BY <3>9 DEF Lock, InviteSend, InviteCommit
      <4> QED
        BY <2>2, <4>1 DEF Pcs, Holding, Counting
    <3>10. CASE TransactionTimesOut(d)
      BY <3>10 DEF TransactionTimesOut, Counting
    <3> QED
      BY <1>3, <3>1, <3>2, <3>3, <3>4, <3>5, <3>6, <3>7, <3>8, <3>9, <3>10 DEF Step
  <2> QED
    BY <1>0, <2>1, <2>3, FewerCount
<1> QED
  BY <1>1, <1>2, <1>3

(* Replies, requests, answers, the owner's messages and time. *)
LEMMA OthersKeepCap ==
  ASSUME IInv, CapInv,
         \/ mirrorMessagingOutbound \/ connectAgent \/ respondAgentConnection
         \/ applyOwnerCommand \/ revoke \/ Inbound
         \/ \E r \in Rows : applyMessagingOutboundStatus(r) \/ BackoffEnds(r)
         \/ RetryIsDue \/ reconcileOnce \/ UNCHANGED vars
  PROVE  CapInv'
<1>1. TypeOK /\ streak \in Nat /\ drain \in [Drains -> DrainState]
  BY DEF IInv, TypeOK
<1>2. streak' = streak \/ streak' = 0
  BY DEF mirrorMessagingOutbound, connectAgent, respondAgentConnection, applyOwnerCommand, revoke,
         Inbound, applyMessagingOutboundStatus, BackoffEnds, RetryIsDue, reconcileOnce, Keep, vars
<1>3. UNCHANGED drain \/ \E d \in Drains : Goes(d, "read")
  BY DEF mirrorMessagingOutbound, connectAgent, respondAgentConnection, applyOwnerCommand, revoke,
         Inbound, applyMessagingOutboundStatus, BackoffEnds, RetryIsDue, reconcileOnce, Keep, vars
<1>4. \A e \in Drains : Counting(e)' => Counting(e)
  <2>1. CASE UNCHANGED drain
    BY <2>1 DEF Counting
  <2>2. ASSUME NEW d \in Drains, Goes(d, "read")
        PROVE  \A e \in Drains : Counting(e)' => Counting(e)
    BY <1>1, <2>2, GoesFacts DEF Counting, Pcs
  <2> QED
    BY <1>3, <2>1, <2>2
<1> QED
  BY <1>1, <1>2, <1>4, FewerCount

-----------------------------------------------------------------------------
(* The invite's transaction *)

(* A drain sends an invite while it holds the connection's row, so the     *)
(* request still stands; and what goes out without the lock is no invite.  *)
LockHeld ==
  /\ \A d \in Drains : drain[d].pc \in {"invite", "commit"} => locked = d
  /\ \A d \in Drains : drain[d].pc = "invite" => conn = "pending" /\ Exists(drain[d].row)
  /\ \A d \in Drains : drain[d].pc = "send" => drain[d].row \notin Invites

(* Only a new request and a revocation take rows away: not a drain.        *)
LEMMA ExistsStays ==
  ASSUME IInv, NEW d \in Drains, Step(d) \/ Crash(d), NEW r \in Rows, Exists(r)
  PROVE  Exists(r)'
<1>0. TypeOK /\ row \in [Rows -> Outbound] /\ row[r] \in Outbound
  BY DEF IInv, TypeOK
<1>1. ASSUME UNCHANGED row PROVE Exists(r)'
  BY <1>1 DEF Exists
<1>2. ASSUME NEW x, NEW status \in {"pending", "failed"}, Update(x, status) PROVE Exists(r)'
  BY <1>0, <1>2 DEF Exists, Update, Outbound
<1>3. ASSUME NEW x \in Rows, Claim(d, x) PROVE Exists(r)'
  <2>1. row' = row \/ row' = [row EXCEPT ![x] = Claimed(x)]
    BY <1>3 DEF Claim
  <2>2. row[x] \in Outbound /\ Claimed(x).status = "sent"
    BY <1>0 DEF Claimed, Outbound
  <2> QED
    BY <1>0, <2>1, <2>2 DEF Exists
<1>4. ASSUME Record(d) \/ InviteCommit(d) PROVE Exists(r)'
  BY <1>0, <1>4 DEF Record, InviteCommit, Exists, Outbound
<1>5. ASSUME Fail(d) PROVE Exists(r)'
  BY <1>0, <1>5 DEF Fail, Exists, Outbound
<1>6. ASSUME Release(d) \/ Lock(d) PROVE Exists(r)'
  BY <1>1, <1>2, <1>6 DEF Release, Lock
<1> QED
  BY <1>1, <1>3, <1>4, <1>5, <1>6
     DEF Step, drainBegins, drainReads, drainEnds, Identity, Send, Count, EnqueueRetry,
         InviteSend, Crash

(* Where a drain's step takes it, and what it does to the lock.            *)
LEMMA StepTakes ==
  ASSUME IInv, LockHeld, NEW d \in Drains, Step(d) \/ Crash(d)
  PROVE  /\ \A e \in Drains \ {d} : drain'[e] = drain[e]
         /\ conn' = conn
         /\ locked' # locked => locked = d \/ locked = NoDrain
         /\ drain'[d].pc \in {"invite", "commit"} => locked' = d
         /\ drain'[d].pc = "invite" =>
              /\ conn = "pending" /\ Exists(drain[d].row) /\ drain'[d].row = drain[d].row
              /\ drain[d].row \in Rows
         /\ drain'[d].pc = "send" => drain'[d].row \notin Invites
<1>1. TypeOK /\ drain \in [Drains -> DrainState] /\ drain[d] \in DrainState
  BY DEF IInv, TypeOK
<1>2. conn' = conn
  BY DEF Step, drainBegins, drainReads, Claim, drainEnds, Identity, Release, Send, Record, Count,
         Fail, EnqueueRetry, Lock, InviteSend, InviteCommit, Crash, Keep
<1>3. CASE drainBegins(d) \/ drainReads(d) \/ drainEnds(d) \/ EnqueueRetry(d) \/ Crash(d)
  <2>1. locked' = locked \/ Unlock(d)
    BY <1>3 DEF drainBegins, drainReads, drainEnds, EnqueueRetry, Crash
  <2> QED
    BY <1>2, <1>3, <2>1, RestTakes DEF Unlock
<1>4. ASSUME NEW r \in Rows, Claim(d, r)
      PROVE  /\ \A e \in Drains \ {d} : drain'[e] = drain[e]
             /\ locked' = locked
             /\ drain'[d].pc \in {"next", "send", "identity"}
             /\ drain'[d].pc = "send" => drain'[d].row \notin Invites
  BY <1>1, <1>4 DEF Claim, DrainState
<1>5. CASE InviteSend(d)
  <2>1. drain[d].pc = "invite" /\ locked = d
    BY <1>5 DEF InviteSend, LockHeld
  <2>2. \/ Goes(d, "commit") /\ locked' = locked
        \/ Goes(d, "next") /\ Unlock(d)
    BY <1>5 DEF InviteSend
  <2> QED
    BY <1>1, <1>2, <2>1, <2>2, GoesFacts DEF Unlock, Pcs, Holding
<1>6. CASE InviteCommit(d)
  <2>1. Unlock(d) /\ (Goes(d, "count") \/ Goes(d, "next"))
    BY <1>6 DEF InviteCommit
  <2> QED
    BY <1>1, <1>2, <2>1, GoesFacts DEF Unlock, Pcs, Holding
<1>7. CASE Lock(d)
  <2>1. drain[d].row \in Rows
    BY <1>7 DEF Lock, IInv, HasRow, Holding
  <2>2. \/ Goes(d, "invite") /\ locked = NoDrain /\ locked' = d /\ InviteStands(drain[d].row)
        \/ Goes(d, "next") /\ locked' = locked
    BY <1>7 DEF Lock
  <2> QED
    BY <1>1, <1>2, <2>1, <2>2, GoesFacts DEF InviteStands, Pcs, Holding
<1>8. CASE Identity(d)
  <2>1. /\ locked' = locked
        /\ \E pc \in {"release", "lock", "send", "fail"} :
             Goes(d, pc) /\ (pc = "send" => drain[d].row \notin Invites)
    BY <1>8 DEF Identity
  <2> QED
    BY <1>1, <1>2, <2>1, GoesFacts DEF Pcs, Holding
<1>9. CASE Release(d) \/ Send(d) \/ Record(d) \/ Count(d) \/ Fail(d)
  <2>1. /\ locked' = locked
        /\ \E pc \in {"next", "fail", "record", "count", "enqueue"} : Goes(d, pc)
    BY <1>9 DEF Release, Send, Record, Count, Fail
  <2> QED
    BY <1>1, <1>2, <2>1, GoesFacts DEF Pcs, Holding
<1> QED
  BY <1>2, <1>3, <1>4, <1>5, <1>6, <1>7, <1>8, <1>9 DEF Step

(* A drain's step leaves every lock to its holder.                         *)
LEMMA StepKeepsLock ==
  ASSUME IInv, LockHeld, NEW d \in Drains, Step(d) \/ Crash(d)
  PROVE  LockHeld'
<1>1. NoDrain \notin Drains
  OBVIOUS
<1>2. ASSUME NEW e \in Drains, drain'[e].pc \in {"invite", "commit"} PROVE locked' = e
  BY <1>1, <1>2, StepTakes DEF LockHeld
<1>3. ASSUME NEW e \in Drains, drain'[e].pc = "invite"
      PROVE  conn' = "pending" /\ Exists(drain[e].row)'
  <2>1. /\ conn' = "pending" /\ Exists(drain[e].row)
        /\ drain[e].row \in Rows /\ drain'[e].row = drain[e].row
    BY <1>3, StepTakes DEF LockHeld, IInv, HasRow, Holding
  <2>2. \A r \in Rows : Exists(r) => Exists(r)'
    BY ExistsStays
  <2> QED
    BY <2>1, <2>2 DEF Exists
<1>4. ASSUME NEW e \in Drains, drain'[e].pc = "send" PROVE drain'[e].row \notin Invites
  BY <1>4, StepTakes DEF LockHeld
<1> QED
  BY <1>2, <1>3, <1>4 DEF LockHeld

(* Requests, answers and revocations wait for the lock; nothing else of    *)
(* the world touches the connection or takes a row away.                   *)
LEMMA OthersKeepLock ==
  ASSUME IInv, LockHeld,
         \/ mirrorMessagingOutbound \/ connectAgent \/ respondAgentConnection
         \/ applyOwnerCommand \/ revoke \/ Inbound
         \/ \E r \in Rows : applyMessagingOutboundStatus(r) \/ BackoffEnds(r)
         \/ RetryIsDue \/ reconcileOnce \/ UNCHANGED vars
  PROVE  LockHeld'
<1>1. /\ TypeOK /\ drain \in [Drains -> DrainState] /\ row \in [Rows -> Outbound]
      /\ NoDrain \notin Drains
  BY DEF IInv, TypeOK
<1>2. locked' = locked
  BY DEF mirrorMessagingOutbound, connectAgent, respondAgentConnection, applyOwnerCommand, revoke,
         Inbound, applyMessagingOutboundStatus, BackoffEnds, RetryIsDue, reconcileOnce, Keep,
         Answered, vars
<1>3. UNCHANGED drain \/ \E d \in Drains : Goes(d, "read")
  BY DEF mirrorMessagingOutbound, connectAgent, respondAgentConnection, applyOwnerCommand, revoke,
         Inbound, applyMessagingOutboundStatus, BackoffEnds, RetryIsDue, reconcileOnce, Keep, vars
<1>4. \A e \in Drains : drain'[e] = drain[e] \/ drain'[e].pc = "read"
  BY <1>1, <1>3, GoesFacts DEF Pcs
<1>5. ASSUME locked # NoDrain
      PROVE  conn' = conn /\ \A r \in Rows : Exists(r) => Exists(r)'
  <2>1. \/ mirrorMessagingOutbound \/ Inbound \/ RetryIsDue \/ reconcileOnce \/ UNCHANGED vars
        \/ \E r \in Rows : applyMessagingOutboundStatus(r) \/ BackoffEnds(r)
    BY <1>5 DEF connectAgent, respondAgentConnection, applyOwnerCommand, revoke, Answered
  <2>2. conn' = conn
    BY <2>1 DEF mirrorMessagingOutbound, Inbound, RetryIsDue, reconcileOnce, vars, Keep,
                applyMessagingOutboundStatus, BackoffEnds
  <2>3. CASE UNCHANGED row
    BY <2>2, <2>3 DEF Exists
  <2>4. CASE mirrorMessagingOutbound
    BY <1>1, <2>2, <2>4 DEF mirrorMessagingOutbound, Exists, Fresh, Absent
  <2>5. ASSUME NEW x \in Rows, applyMessagingOutboundStatus(x) \/ BackoffEnds(x)
        PROVE  \A r \in Rows : Exists(r) => Exists(r)'
    BY <1>1, <2>5 DEF applyMessagingOutboundStatus, BackoffEnds, Exists, Outbound
  <2> QED
    BY <2>1, <2>2, <2>3, <2>4, <2>5 DEF Inbound, RetryIsDue, reconcileOnce, vars
<1>6. ASSUME NEW e \in Drains, drain'[e].pc \in {"invite", "commit"} PROVE locked' = e
  BY <1>2, <1>4, <1>6 DEF LockHeld
<1>7. ASSUME NEW e \in Drains, drain'[e].pc = "invite"
      PROVE  conn' = "pending" /\ Exists(drain[e].row)'
  <2>1. /\ locked = e /\ conn = "pending" /\ Exists(drain[e].row)
        /\ drain'[e] = drain[e] /\ drain[e].row \in Rows
    BY <1>4, <1>7 DEF LockHeld, IInv, HasRow, Holding
  <2> QED
    BY <1>1, <1>5, <2>1 DEF Exists
<1>8. ASSUME NEW e \in Drains, drain'[e].pc = "send" PROVE drain'[e].row \notin Invites
  BY <1>4, <1>8 DEF LockHeld
<1> QED
  BY <1>6, <1>7, <1>8 DEF LockHeld

(* An invite is sent under the lock.                                       *)
LEMMA SentIsCurrent ==
  ASSUME IInv, LockHeld, [Next]_vars, NEW r \in Invites, sent'[r] # sent[r]
  PROVE  conn = "pending" /\ Exists(r)
<1>1. TypeOK /\ sent \in [Rows -> Nat] /\ r \in Rows
  BY DEF IInv, TypeOK, Rows
<1>2. PICK d \in Drains : Send(d) \/ InviteSend(d)
  BY DEF Next, Step, mirrorMessagingOutbound, connectAgent, respondAgentConnection,
         applyOwnerCommand, revoke, Inbound, applyMessagingOutboundStatus, BackoffEnds,
         RetryIsDue, reconcileOnce, Keep, vars, drainBegins, drainReads, Claim, drainEnds,
         Identity, Release, Record, Count, Fail, EnqueueRetry, Lock, InviteCommit,
         TransactionTimesOut, Crash
<1>3. r = drain[d].row
  BY <1>1, <1>2 DEF Send, InviteSend, Accepts
<1>4. ~Send(d)
  BY <1>3 DEF Send, LockHeld
<1> QED
  BY <1>2, <1>3, <1>4 DEF InviteSend, LockHeld

-----------------------------------------------------------------------------
(* The theorems *)

(* Nobody works on anything at first. *)
LEMMA InitInv == Init => IInv
<1> SUFFICES ASSUME Init PROVE IInv
  OBVIOUS
<1>1. NoRow \notin Rows
  BY DEF Rows, Mirrored
<1>2. Idle \in DrainState
  <2>1. [r \in Rows |-> 0] \in [Rows -> 0 .. MaxAttempts]
    OBVIOUS
  <2> QED
    BY <2>1 DEF Idle, DrainState
<1>3. TypeOK
  BY <1>2, FreshType DEF Init, TypeOK
<1>4. \A d \in Drains : drain[d].pc = "idle" /\ drain[d].row = NoRow /\ drain[d].list = {}
  BY DEF Init, Idle
<1>5. HasRow /\ HeldIsClaimed /\ OneHolder
  BY <1>1, <1>4 DEF HasRow, HeldIsClaimed, OneHolder, Working, Holding
<1>6. AttemptLeft
  BY <1>1, <1>4 DEF Init, Absent, AttemptLeft, Working
<1>7. NotYetAccepted
  BY <1>4 DEF Init, NotYetAccepted, Unsent
<1> QED
  BY <1>3, <1>5, <1>6, <1>7 DEF IInv

(* Every step keeps the invariant. *)
LEMMA NextInv == IInv /\ [Next]_vars => IInv'
<1> SUFFICES ASSUME IInv, [Next]_vars PROVE IInv'
  OBVIOUS
<1>1. CASE UNCHANGED vars
  BY <1>1 DEF IInv, TypeOK, HasRow, HeldIsClaimed, OneHolder, AttemptLeft, NotYetAccepted,
              Working, Exists, vars
<1>2. ASSUME NEW d \in Drains, Step(d) PROVE IInv'
  BY <1>2, RestInv, ClaimInv, SameRowInv, OwnRowInv DEF Step
<1>3. ASSUME NEW d \in Drains, Crash(d) PROVE IInv'
  BY <1>3, RestInv
<1> QED
  BY <1>1, <1>2, <1>3, WorldInv, MirrorInv DEF Next

(* The invariant holds throughout. *)
LEMMA Invariant == Spec => []IInv
BY InitInv, NextInv, PTL DEF Spec

(* Attempts never pass MESSAGING_OUTBOUND_MAX_ATTEMPTS, although drains    *)
(* count them from what they read before their claim, and every variable   *)
(* keeps its type.                                                         *)
THEOREM TypeCorrect == Spec => []TypeOK
<1>1. IInv => TypeOK
  BY DEF IInv
<1> QED
  BY <1>1, Invariant, PTL

(* However many drains race, fail, retry and die, one of them holds a row. *)
THEOREM ClaimsExclude == Spec => []OneHolder
<1>1. IInv => OneHolder
  BY DEF IInv
<1> QED
  BY <1>1, Invariant, PTL

(* As long as no statement fails and no answer is lost, the provider       *)
(* accepts no message twice: neither races, nor deaths, nor transactions   *)
(* out of time make a drain send what was sent.                            *)
THEOREM SentAtMostOnce == ASSUME MaxFaults = 0 PROVE Spec => []AcceptedOnce
<1>1. IInv => AcceptedOnce
  BY DEF IInv, NotYetAccepted, AcceptedOnce
<1> QED
  BY <1>1, Invariant, PTL

(* The streak stays within one message per drain of the cap, for any cap   *)
(* and any number of drains that race for its last places.                 *)
THEOREM MarginHolds == Spec => []CapMargin
<1>1. Init => CapInv
  <2>1. ASSUME Init PROVE CapInv
    <3>1. Counters = {}
      BY <2>1 DEF Init, Idle, Counters, Counting
    <3>2. Cardinality(Counters) = 0 /\ Cardinality(Drains) # 0
      BY <3>1, DrainsAssumption, FS_EmptySet
    <3> QED
      BY <2>1, <3>2, CountersFinite DEF Init, CapInv
  <2> QED
    BY <2>1
<1>2. IInv /\ CapInv /\ [Next]_vars => CapInv'
  BY StepKeepsCap, OthersKeepCap DEF Next
<1>3. IInv /\ CapInv => CapMargin
  BY CountersFinite DEF CapInv, CapMargin, IInv, TypeOK
<1> QED
  BY <1>1, <1>2, <1>3, Invariant, PTL DEF Spec

(* While the database ends no invite's transaction for the time it takes,  *)
(* an invite goes out only for a request that is pending and of this       *)
(* cycle, however drains, revocations, answers, deaths and lost answers    *)
(* of the provider interleave.                                             *)
THEOREM InvitesAreCurrent == ASSUME MaxTimeouts = 0 PROVE Spec => InviteIsCurrent
<1>1. Init => LockHeld
  BY DEF Init, Idle, LockHeld
<1>2. IInv /\ LockHeld /\ [Next]_vars => LockHeld'
  <2>1. ASSUME IInv, NEW d \in Drains PROVE ~TransactionTimesOut(d)
    BY <2>1 DEF TransactionTimesOut, IInv, TypeOK
  <2> QED
    BY <2>1, StepKeepsLock, OthersKeepLock DEF Next
<1>3. IInv /\ LockHeld /\ [Next]_vars =>
        [\A r \in Invites : sent'[r] # sent[r] => conn = "pending" /\ Exists(r)]_vars
  BY SentIsCurrent
<1> QED
  BY <1>1, <1>2, <1>3, Invariant, PTL DEF Spec, InviteIsCurrent

-----------------------------------------------------------------------------
(* A row as a promise *)

Calm == MaxFaults = 0 /\ MaxTimeouts = 0

(* A handle is of a row that was sent, and is stored by who has sent it.   *)
HandlesFit ==
  /\ \A r \in Rows : row[r].handle => sent[r] = 1
  /\ \A d \in Drains : drain[d].pc \in {"record", "commit"} => sent[drain[d].row] = 1
(* What is about to be sent is claimed, or its cycle is over.              *)
UnsentFits ==
  \A d \in Drains : drain[d].pc \in Unsent => row[drain[d].row].status \in {"sent", "deleted"}
(* A reply stays; and of the invites one is there.                         *)
CyclesFit ==
  /\ \A r \in Mirrored : row[r].status # "deleted"
  /\ \A r, q \in Invites : Exists(r) /\ Exists(q) => r = q
FateInv == HandlesFit /\ UnsentFits /\ CyclesFit

(* A step that leaves what is settled about a row, and whether it was sent. *)
Rests(r) == /\ Fate(r)' = Fate(r) /\ sent'[r] = sent[r]
            /\ row'[r].handle = row[r].handle
(* A step that sends it, or settles it.                                    *)
Sends(r) == /\ sent[r] = 0 /\ sent'[r] = 1 /\ Fate(r) = "open" /\ Fate(r)' = "open"
            /\ row'[r].handle = row[r].handle
Stores(r) == /\ sent'[r] = sent[r] /\ sent[r] = 1 /\ Fate(r) = "open" /\ Fate(r)' = "done"
             /\ row'[r].handle
Refuses(r) == /\ sent'[r] = sent[r] /\ sent[r] = 0 /\ Fate(r) = "open" /\ Fate(r)' = "refused"
              /\ row'[r].handle = row[r].handle
Moves(r) == Rests(r) \/ Sends(r) \/ Stores(r) \/ Refuses(r)
OneMoves == \E x \in Rows : Moves(x) /\ \A r \in Rows \ {x} : Rests(r)
PromiseStep == [OutboxPromise!PromiseNext]_(OutboxPromise!promiseVars)

(* Such a step is one that the promise allows. *)
LEMMA StepOfPromise ==
  ASSUME sent \in [Rows -> Nat], sent' \in [Rows -> Nat], (\A r \in Rows : Rests(r)) \/ OneMoves
  PROVE  PromiseStep
<1> DEFINE verdict == [r \in Rows |-> Fate(r)]
           told == [r \in Rows |-> IF row[r].handle THEN {"done"} ELSE {}]
<1>1. CASE \A r \in Rows : Rests(r)
  <2>1. verdict' = verdict /\ told' = told /\ sent' = sent
    BY <1>1 DEF Rests
  <2> QED
    BY <2>1 DEF PromiseStep, OutboxPromise!promiseVars
<1>2. CASE OneMoves
  <2>1. PICK x \in Rows : Moves(x) /\ \A r \in Rows \ {x} : Rests(r)
    BY <1>2 DEF OneMoves
  <2>2. CASE Rests(x)
    BY <1>1, <2>1, <2>2
  <2>3. CASE Sends(x)
    <3>1. verdict' = verdict /\ told' = told /\ sent' = [sent EXCEPT ![x] = 1]
      BY <2>1, <2>3 DEF Rests, Sends
    <3>2. OutboxPromise!Run(x)
      BY <2>3, <3>1 DEF Sends, OutboxPromise!Run
    <3> QED
      BY <3>2 DEF PromiseStep, OutboxPromise!PromiseNext
  <2>4. CASE Stores(x)
    <3>a. verdict' = [verdict EXCEPT ![x] = "done"]
      BY <2>1, <2>4 DEF Rests, Stores
    <3>b. sent' = sent
      BY <2>1, <2>4 DEF Rests, Stores
    <3>c. told' = [told EXCEPT ![x] = {"done"}]
      BY <2>1, <2>4 DEF Rests, Stores
    <3>1. verdict' = [verdict EXCEPT ![x] = "done"] /\ sent' = sent /\ told' = [told EXCEPT ![x] = {"done"}]
      BY <3>a, <3>b, <3>c
    <3>2. verdict[x] = "open" /\ "done" \in OutboxPromise!Verdicts /\ sent[x] = 1
      BY <2>4 DEF Stores, OutboxPromise!Verdicts
    <3>3. told' \in {told, [told EXCEPT ![x] = {"done"}]}
      BY <3>1
    <3>4. OutboxPromise!Settle(x)
      BY <3>1, <3>2, <3>3, Zenon DEF OutboxPromise!Settle
    <3> QED
      BY <3>4 DEF PromiseStep, OutboxPromise!PromiseNext
  <2>5. CASE Refuses(x)
    <3>a. verdict' = [verdict EXCEPT ![x] = "refused"]
      BY <2>1, <2>5 DEF Rests, Refuses
    <3>b. sent' = sent
      BY <2>1, <2>5 DEF Rests, Refuses
    <3>c. told' = told
      BY <2>1, <2>5 DEF Rests, Refuses
    <3>1. verdict' = [verdict EXCEPT ![x] = "refused"] /\ sent' = sent /\ told' = told
      BY <3>a, <3>b, <3>c
    <3>2. verdict[x] = "open" /\ "refused" \in OutboxPromise!Verdicts /\ sent[x] = 0
      BY <2>5 DEF Refuses, OutboxPromise!Verdicts
    <3>3. told' \in {told, [told EXCEPT ![x] = {"refused"}]}
      BY <3>1
    <3>4. OutboxPromise!Settle(x)
      BY <3>1, <3>2, <3>3, Zenon DEF OutboxPromise!Settle
    <3> QED
      BY <3>4 DEF PromiseStep, OutboxPromise!PromiseNext
  <2> QED
    BY <2>1, <2>2, <2>3, <2>4, <2>5 DEF Moves
<1> QED
  BY <1>1, <1>2

(* Drains that go on with their rows as they were, or are at rest.         *)
LEMMA WorldFate ==
  ASSUME Calm, IInv, FateInv, UNCHANGED sent,
         \A e \in Drains : drain'[e] = drain[e] \/ drain'[e].pc \in {"idle", "read", "next"},
         \A r \in Rows : row'[r].handle => row[r].handle,
         \A r \in Rows : row[r].status \in {"sent", "deleted"} =>
                           row[r].handle \/ row'[r].status \in {"sent", "deleted"},
         \A r \in Mirrored : row[r].status # "deleted" => row'[r].status # "deleted",
         \A r, q \in Invites : Exists(r)' /\ Exists(q)' => r = q
  PROVE  FateInv'
<1>1. HandlesFit'
  BY DEF FateInv, HandlesFit
<1>2. UnsentFits'
  <2> SUFFICES ASSUME NEW d \in Drains, drain'[d].pc \in Unsent
               PROVE  row'[drain'[d].row].status \in {"sent", "deleted"}
    BY DEF UnsentFits
  <2>1. drain'[d] = drain[d] /\ drain[d].row \in Rows
    BY DEF Unsent, IInv, HasRow, Holding
  <2>2. row[drain[d].row].status \in {"sent", "deleted"} /\ ~row[drain[d].row].handle
    <3>1. sent[drain[d].row] = 0
      BY <2>1 DEF Calm, IInv, NotYetAccepted
    <3> QED
      BY <2>1, <3>1 DEF FateInv, UnsentFits, HandlesFit
  <2> QED
    BY <2>1, <2>2
<1>3. CyclesFit'
  BY DEF FateInv, CyclesFit
<1> QED
  BY <1>1, <1>2, <1>3 DEF FateInv

Fates == (\A r \in Rows : Rests(r)) \/ OneMoves

(* Steps that leave the rows, and drains at rest. *)
LEMMA NoRowMoves ==
  ASSUME Calm, IInv, FateInv, UNCHANGED <<row, sent>>,
         \A e \in Drains : drain'[e] = drain[e] \/ drain'[e].pc \in {"idle", "read", "next"}
  PROVE  FateInv' /\ Fates
<1>1. FateInv'
  BY WorldFate DEF FateInv, CyclesFit, Exists
<1>2. \A r \in Rows : Rests(r)
  BY DEF Rests, Fate
<1> QED
  BY <1>1, <1>2 DEF Fates

(* The steps of the world and the clock, and of a drain without a row. *)
LEMMA RestMoves ==
  ASSUME Calm, IInv, FateInv,
         \/ \E d \in Drains : drainBegins(d) \/ drainReads(d) \/ drainEnds(d) \/ EnqueueRetry(d)
                                \/ Crash(d) \/ TransactionTimesOut(d)
         \/ respondAgentConnection \/ Inbound \/ RetryIsDue \/ reconcileOnce \/ UNCHANGED vars
  PROVE  FateInv' /\ Fates
<1>1. ASSUME NEW d \in Drains,
             drainBegins(d) \/ drainReads(d) \/ drainEnds(d) \/ EnqueueRetry(d) \/ Crash(d)
      PROVE  FateInv' /\ Fates
  <2>1. \A e \in Drains : drain'[e] = drain[e] \/ drain'[e].pc \in {"idle", "read", "next"}
    BY <1>1, RestTakes
  <2>2. UNCHANGED <<row, sent>>
    BY <1>1 DEF drainBegins, drainReads, drainEnds, EnqueueRetry, Crash, Keep
  <2> QED
    BY <2>1, <2>2, NoRowMoves
<1>2. ASSUME NEW d \in Drains, TransactionTimesOut(d) PROVE FateInv' /\ Fates
  BY <1>2, NoRowMoves DEF TransactionTimesOut, Keep
<1>3. CASE respondAgentConnection \/ Inbound \/ RetryIsDue \/ reconcileOnce \/ UNCHANGED vars
  BY <1>3, NoRowMoves DEF respondAgentConnection, Inbound, RetryIsDue, reconcileOnce, Keep, vars
<1> QED
  BY <1>1, <1>2, <1>3

(* New replies, and the status that the provider reports of what was sent. *)
LEMMA RepliesMove ==
  ASSUME Calm, IInv, FateInv,
         \/ mirrorMessagingOutbound \/ applyOwnerCommand
         \/ \E r \in Rows : applyMessagingOutboundStatus(r) \/ BackoffEnds(r)
  PROVE  FateInv' /\ Fates
<1>0. /\ row \in [Rows -> Outbound] /\ drain \in [Drains -> DrainState]
      /\ Mirrored \cap Invites = {} /\ Direct \subseteq Mirrored /\ Mirrored \subseteq Rows
      /\ Invites \subseteq Rows
  BY DEF IInv, TypeOK, Mirrored, Rows
<1>1. \A r \in Rows : row[r].status = "absent" => sent[r] = 0 /\ ~row[r].handle
  BY DEF Calm, IInv, NotYetAccepted, FateInv, HandlesFit
<1>2. ASSUME NEW S \in SUBSET {r \in Mirrored : row[r].status = "absent"},
             row' = [r \in Rows |-> IF r \in S THEN Fresh ELSE row[r]], UNCHANGED sent,
             \A e \in Drains : drain'[e] = drain[e] \/ drain'[e].pc \in {"idle", "read", "next"}
      PROVE  FateInv' /\ Fates
  <2>1. \A r \in Rows :
          \/ row'[r] = row[r]
          \/ /\ r \notin Invites /\ row[r].status = "absent"
             /\ row'[r].status = "pending" /\ row'[r].handle = FALSE
    BY <1>0, <1>2 DEF Fresh, Absent
  <2>2. FateInv'
    BY <1>0, <1>2, <2>1, WorldFate DEF FateInv, CyclesFit, Exists
  <2>3. ASSUME NEW r \in Rows PROVE Rests(r)
    <3>1. CASE row'[r] = row[r]
      BY <1>2, <3>1 DEF Rests, Fate
    <3>2. CASE row'[r] # row[r]
      <4>1. /\ row[r].status = "absent" /\ row'[r].status = "pending"
            /\ row'[r].handle = FALSE /\ row[r].handle = FALSE
        BY <1>0, <1>1, <2>1, <3>2 DEF Outbound
      <4> QED
        BY <1>2, <4>1 DEF Rests, Fate
    <3> QED
      BY <3>1, <3>2
  <2> QED
    BY <2>2, <2>3 DEF Fates
<1>3. CASE mirrorMessagingOutbound
  <2>1. PICK S \in SUBSET {r \in Mirrored : row[r].status = "absent"} :
          row' = [r \in Rows |-> IF r \in S THEN Fresh ELSE row[r]]
    BY <1>3 DEF mirrorMessagingOutbound
  <2>2. UNCHANGED drain \/ \E d \in Drains : Goes(d, "read")
    BY <1>3 DEF mirrorMessagingOutbound
  <2>3. \A e \in Drains : drain'[e] = drain[e] \/ drain'[e].pc \in {"idle", "read", "next"}
    BY <1>0, <2>2, GoesFacts DEF Pcs
  <2> QED
    BY <1>2, <1>3, <2>1, <2>3 DEF mirrorMessagingOutbound
<1>4. CASE applyOwnerCommand
  <2>1. PICK r \in Direct : row[r].status = "absent" /\ row' = [row EXCEPT ![r] = Fresh]
    BY <1>4 DEF applyOwnerCommand
  <2>2. row' = [q \in Rows |-> IF q \in {r} THEN Fresh ELSE row[q]]
    BY <1>0, <2>1
  <2>3. {r} \in SUBSET {q \in Mirrored : row[q].status = "absent"}
    BY <1>0, <2>1
  <2>4. UNCHANGED sent /\ UNCHANGED drain
    BY <1>4 DEF applyOwnerCommand
  <2> QED
    BY <1>2, <2>2, <2>3, <2>4
<1>5. ASSUME NEW x \in Rows, applyMessagingOutboundStatus(x) PROVE FateInv' /\ Fates
  <2>1. /\ row[x].handle /\ Exists(x) /\ sent' = sent /\ drain' = drain
        /\ row'[x].status \in {"sent", "failed"} /\ row'[x].handle = row[x].handle
        /\ \A r \in Rows \ {x} : row'[r] = row[r]
    <3>1. PICK status \in {"sent", "failed"} : row' = [row EXCEPT ![x].status = status]
      BY <1>5 DEF applyMessagingOutboundStatus
    <3>2. row[x].handle /\ Exists(x) /\ sent' = sent /\ drain' = drain
      BY <1>5 DEF applyMessagingOutboundStatus
    <3>3. row[x] \in Outbound
      BY <1>0
    <3>4. row'[x] = [row[x] EXCEPT !.status = status]
      BY <1>0, <3>1
    <3>5. row'[x].status = status /\ row'[x].handle = row[x].handle
      BY <3>3, <3>4 DEF Outbound
    <3>6. \A r \in Rows \ {x} : row'[r] = row[r]
      BY <1>0, <3>1
    <3> QED
      BY <3>1, <3>2, <3>5, <3>6
  <2>2. FateInv'
    BY <1>0, <2>1, WorldFate DEF FateInv, CyclesFit, Exists
  <2>3. \A r \in Rows : Rests(r)
    BY <2>1 DEF Rests, Fate
  <2> QED
    BY <2>2, <2>3 DEF Fates
<1>6. ASSUME NEW x \in Rows, BackoffEnds(x) PROVE FateInv' /\ Fates
  <2>1. /\ sent' = sent /\ drain' = drain
        /\ \A r \in Rows : row'[r].status = row[r].status /\ row'[r].handle = row[r].handle
    BY <1>0, <1>6 DEF BackoffEnds, Keep, Outbound
  <2>2. FateInv'
    BY <1>0, <2>1, WorldFate DEF FateInv, CyclesFit, Exists
  <2>3. \A r \in Rows : Rests(r)
    BY <2>1 DEF Rests, Fate
  <2> QED
    BY <2>2, <2>3 DEF Fates
<1> QED
  BY <1>3, <1>4, <1>5, <1>6

(* A request ends the cycle before it, and a revocation the one there is.  *)
LEMMA CyclesMove ==
  ASSUME Calm, IInv, FateInv, connectAgent \/ revoke
  PROVE  FateInv' /\ Fates
<1>0. /\ row \in [Rows -> Outbound] /\ drain' = drain /\ sent' = sent
      /\ Mirrored \cap Invites = {} /\ Invites \subseteq Rows
      /\ sent \in [Rows -> Nat] /\ \A r \in Rows : sent[r] <= 1
  BY DEF Calm, IInv, TypeOK, NotYetAccepted, Mirrored, Rows, connectAgent, revoke
<1>1. \A r \in Rows : row[r].status = "absent" => sent[r] = 0 /\ ~row[r].handle
  BY DEF Calm, IInv, NotYetAccepted, FateInv, HandlesFit
<1>2. ASSUME NEW r \in Invites, row'[r] = [row[r] EXCEPT !.status = "deleted"], Exists(r)
      PROVE  row'[r].status = "deleted" /\ row'[r].handle = row[r].handle /\ Moves(r)
  <2>1. row'[r].status = "deleted" /\ row'[r].handle = row[r].handle
    BY <1>0, <1>2 DEF Outbound
  <2>2. sent[r] \in {0, 1} /\ sent'[r] = sent[r]
    BY <1>0
  <2>3. CASE row[r].handle \/ sent[r] = 1 \/ row[r].status = "failed"
    <3>1. Fate(r)' = Fate(r)
      BY <2>1, <2>2, <2>3 DEF Fate, Exists
    <3> QED
      BY <2>1, <2>2, <3>1 DEF Moves, Rests
  <2>4. CASE ~(row[r].handle \/ sent[r] = 1 \/ row[r].status = "failed")
    <3>1. Fate(r) = "open" /\ Fate(r)' = "refused"
      BY <1>2, <2>1, <2>2, <2>4 DEF Fate, Exists
    <3> QED
      BY <2>1, <2>2, <2>4, <3>1 DEF Moves, Refuses
  <2> QED
    BY <2>1, <2>3, <2>4
<1>3. CASE revoke
  <2>1. \A r \in Rows : row'[r] = IF r \in Invites /\ Undelivered(r)
                                  THEN [row[r] EXCEPT !.status = "deleted"] ELSE row[r]
    BY <1>3 DEF revoke
  <2>2. \A r \in Invites : Undelivered(r) => Exists(r)
    BY DEF Undelivered, Exists
  <2>3. \A r \in Rows : row'[r] = row[r] => Rests(r)
    BY <1>0 DEF Rests, Fate
  <2>4. \A r \in Rows : \/ row'[r] = row[r]
                        \/ r \in Invites /\ row'[r].status = "deleted" /\ row'[r].handle = row[r].handle
    BY <1>2, <2>1, <2>2
  <2>5. FateInv'
    <3>1. \A r, q \in Invites : Exists(r)' /\ Exists(q)' => r = q
      BY <1>0, <2>4 DEF FateInv, CyclesFit, Exists
    <3>2. \A r \in Mirrored : row[r].status # "deleted" => row'[r].status # "deleted"
      BY <1>0, <2>4 DEF Rows
    <3>3. \A r \in Rows : row'[r].handle => row[r].handle
      BY <2>4
    <3>4. \A r \in Rows : row[r].status \in {"sent", "deleted"} => row'[r].status \in {"sent", "deleted"}
      BY <2>4
    <3> QED
      BY <1>0, <3>1, <3>2, <3>3, <3>4, WorldFate
  <2>6. Fates
    <3>1. CASE \A r \in Rows : row'[r] = row[r]
      BY <2>3, <3>1 DEF Fates
    <3>2. ASSUME NEW x \in Rows, row'[x] # row[x] PROVE Fates
      <4>1. x \in Invites /\ Undelivered(x) /\ Moves(x)
        BY <1>2, <2>1, <2>2, <3>2
      <4>2. \A r \in Rows \ {x} : row'[r] = row[r]
        BY <2>1, <2>2, <4>1 DEF FateInv, CyclesFit
      <4> QED
        BY <2>3, <4>1, <4>2 DEF Fates, OneMoves
    <3> QED
      BY <3>1, <3>2
  <2> QED
    BY <2>5, <2>6
<1>4. CASE connectAgent
  <2>1. PICK new \in Invites :
          /\ row[new].status = "absent"
          /\ row' = [r \in Rows |-> IF r = new THEN Fresh
                                    ELSE IF r \in Invites /\ Exists(r)
                                         THEN [row[r] EXCEPT !.status = "deleted"]
                                         ELSE row[r]]
    BY <1>4 DEF connectAgent
  <2>2. /\ row'[new].status = "pending" /\ row'[new].handle = FALSE /\ row[new].handle = FALSE
        /\ sent[new] = 0
    BY <1>0, <1>1, <2>1 DEF Fresh, Absent, Outbound
  <2>3. \A r \in Rows \ {new} : row'[r] = IF r \in Invites /\ Exists(r)
                                          THEN [row[r] EXCEPT !.status = "deleted"] ELSE row[r]
    BY <2>1
  <2>4. \A r \in Rows : row'[r] = row[r] \/ r = new => Rests(r)
    <3>1. Rests(new)
      BY <1>0, <2>1, <2>2 DEF Rests, Fate
    <3> QED
      BY <1>0, <3>1 DEF Rests, Fate
  <2>5. \A r \in Rows \ {new} :
          \/ row'[r] = row[r]
          \/ r \in Invites /\ row'[r].status = "deleted" /\ row'[r].handle = row[r].handle
    BY <1>2, <2>3
  <2>6. \A r \in Invites : Exists(r)' => r = new
    <3>1. ASSUME NEW r \in Invites, r # new, Exists(r)
          PROVE  row'[r].status = "deleted"
      BY <1>0, <1>2, <2>3, <3>1
    <3>2. ASSUME NEW r \in Invites, r # new, ~Exists(r)
          PROVE  row'[r] = row[r]
      BY <1>0, <2>3, <3>2
    <3> QED
      BY <3>1, <3>2 DEF Exists
  <2>7. FateInv'
    <3>1. \A r, q \in Invites : Exists(r)' /\ Exists(q)' => r = q
      BY <2>6
    <3>2. \A r \in Mirrored : row[r].status # "deleted" => row'[r].status # "deleted"
      BY <1>0, <2>5 DEF Rows
    <3>3. \A r \in Rows : row'[r].handle => row[r].handle
      BY <2>2, <2>5
    <3>4. \A r \in Rows : row[r].status \in {"sent", "deleted"} => row'[r].status \in {"sent", "deleted"}
      BY <2>1, <2>5
    <3> QED
      BY <1>0, <3>1, <3>2, <3>3, <3>4, WorldFate
  <2>8. Fates
    <3>1. CASE \A r \in Rows \ {new} : row'[r] = row[r]
      BY <2>4, <3>1 DEF Fates
    <3>2. ASSUME NEW x \in Rows \ {new}, row'[x] # row[x] PROVE Fates
      <4>1. x \in Invites /\ Exists(x) /\ Moves(x)
        BY <1>2, <2>3, <3>2
      <4>2. \A r \in Rows \ {x} : row'[r] = row[r] \/ r = new
        BY <2>3, <4>1 DEF FateInv, CyclesFit
      <4> QED
        BY <2>4, <4>1, <4>2 DEF Fates, OneMoves
    <3> QED
      BY <3>1, <3>2
  <2> QED
    BY <2>7, <2>8
<1> QED
  BY <1>3, <1>4

(* A drain that works on row x goes on and touches x alone. *)
LEMMA DrainFate ==
  ASSUME Calm, IInv, FateInv, NEW d \in Drains, NEW pc \in Holding \cup {"next"}, Goes(d, pc),
         NEW x \in Rows, x = drain[d].row, drain[d].pc \in Holding \ {"enqueue"},
         \A r \in Rows \ {x} : row'[r] = row[r] /\ sent'[r] = sent[r],
         row'[x].handle => sent'[x] = 1,
         pc \in {"record", "commit"} => sent'[x] = 1,
         pc \in Unsent => row'[x].status \in {"sent", "deleted"},
         row'[x].status = "deleted" => row[x].status = "deleted",
         Exists(x)' => Exists(x)
  PROVE  FateInv'
<1>1. /\ drain'[d].pc = pc /\ (pc # "next" => drain'[d].row = x)
      /\ \A e \in Drains \ {d} : drain'[e] = drain[e]
  BY GoesFacts DEF IInv, TypeOK, Pcs
<1>2. Mirrored \subseteq Rows /\ Invites \subseteq Rows
  BY DEF Rows
<1>3. \A e \in Drains \ {d} : drain[e].pc \in Holding \ {"enqueue"} =>
        drain[e].row \in Rows /\ drain[e].row # x
  BY DEF IInv, HasRow, OneHolder, Working, Holding
<1>4. HandlesFit'
  <2>1. \A r \in Rows : row'[r].handle => sent'[r] = 1
    BY DEF FateInv, HandlesFit
  <2>2. \A e \in Drains : drain'[e].pc \in {"record", "commit"} => sent'[drain'[e].row] = 1
    BY <1>1, <1>3 DEF FateInv, HandlesFit, Holding
  <2> QED
    BY <2>1, <2>2 DEF HandlesFit
<1>5. UnsentFits'
  BY <1>1, <1>3 DEF FateInv, UnsentFits, Unsent, Holding
<1>6. CyclesFit'
  <2>1. \A r \in Rows : /\ row'[r].status = "deleted" => row[r].status = "deleted"
                        /\ Exists(r)' => Exists(r)
    BY DEF Exists
  <2> QED
    BY <1>2, <2>1 DEF FateInv, CyclesFit
<1> QED
  BY <1>4, <1>5, <1>6 DEF FateInv

(* The row under a drain's hands, while nothing fails. *)
LEMMA HeldFate ==
  ASSUME Calm, IInv, FateInv, NEW d \in Drains, drain[d].pc \in Holding \ {"enqueue"}
  PROVE  /\ drain[d].row \in Rows /\ row[drain[d].row] \in Outbound /\ ~Fault
         /\ row \in [Rows -> Outbound] /\ sent \in [Rows -> Nat]
         /\ row[drain[d].row].handle => sent[drain[d].row] = 1
         /\ drain[d].pc \in Unsent =>
              /\ sent[drain[d].row] = 0 /\ ~row[drain[d].row].handle
              /\ row[drain[d].row].status \in {"sent", "deleted"}
         /\ drain[d].pc \in {"record", "commit"} => sent[drain[d].row] = 1
         /\ drain[d].pc = "fail" => ~Exists(drain[d].row)
<1>1. drain[d].row \in Rows
  BY DEF IInv, HasRow
<1>2. ~Fault
  BY DEF Calm, IInv, TypeOK, Fault
<1>3. row \in [Rows -> Outbound] /\ sent \in [Rows -> Nat]
  BY DEF IInv, TypeOK
<1>4. /\ row[drain[d].row].handle => sent[drain[d].row] = 1
      /\ drain[d].pc \in {"record", "commit"} => sent[drain[d].row] = 1
  BY <1>1 DEF FateInv, HandlesFit
<1>5. /\ drain[d].pc \in Unsent => sent[drain[d].row] = 0
      /\ drain[d].pc = "fail" => ~Exists(drain[d].row)
  BY DEF Calm, IInv, NotYetAccepted
<1>6. drain[d].pc \in Unsent => row[drain[d].row].status \in {"sent", "deleted"}
  BY DEF FateInv, UnsentFits
<1> QED
  BY <1>1, <1>2, <1>3, <1>4, <1>5, <1>6

(* A claim settles nothing. *)
LEMMA ClaimMoves ==
  ASSUME Calm, IInv, FateInv, NEW d \in Drains, NEW x \in Rows, Claim(d, x)
  PROVE  FateInv' /\ Fates
<1>0. /\ row \in [Rows -> Outbound] /\ drain \in [Drains -> DrainState] /\ drain[d] \in DrainState
      /\ sent' = sent
  BY DEF IInv, TypeOK, Claim, Keep
<1>1. CASE ~ClaimMatches(x)
  <2>1. row' = row /\ \A e \in Drains : drain'[e] = drain[e] \/ drain'[e].pc = "next"
    BY <1>0, <1>1 DEF Claim, DrainState
  <2> QED
    BY <1>0, <2>1, NoRowMoves
<1>2. CASE ClaimMatches(x)
  <2>1. /\ row[x].status = "pending" /\ row' = [row EXCEPT ![x] = Claimed(x)]
        /\ drain'[d].pc \in {"send", "identity"} /\ drain'[d].row = x
        /\ \A e \in Drains \ {d} : drain'[e] = drain[e]
    BY <1>0, <1>2 DEF Claim, ClaimMatches, DrainState
  <2>2. /\ row'[x].status = "sent" /\ row'[x].handle = row[x].handle
        /\ \A r \in Rows \ {x} : row'[r] = row[r]
    BY <1>0, <2>1 DEF Claimed, Outbound
  <2>3. sent[x] = 0
    BY <2>1 DEF Calm, IInv, NotYetAccepted
  <2>4. Exists(x) /\ Exists(x)' /\ Mirrored \subseteq Rows /\ Invites \subseteq Rows
    BY <2>1, <2>2 DEF Exists, Rows
  <2>5. HandlesFit'
    <3>1. \A r \in Rows : row'[r].handle => sent'[r] = 1
      BY <1>0, <2>2 DEF FateInv, HandlesFit
    <3>2. \A e \in Drains : drain'[e].pc \in {"record", "commit"} => sent'[drain'[e].row] = 1
      BY <1>0, <2>1 DEF FateInv, HandlesFit
    <3> QED
      BY <3>1, <3>2 DEF HandlesFit
  <2>6. UnsentFits'
    <3>1. \A e \in Drains : drain[e].pc \in Unsent => drain[e].row \in Rows
      BY DEF IInv, HasRow, Holding, Unsent
    <3> QED
      BY <2>1, <2>2, <3>1 DEF FateInv, UnsentFits
  <2>7. CyclesFit'
    <3>1. \A r \in Rows : /\ row'[r].status = "deleted" => row[r].status = "deleted"
                          /\ Exists(r)' => Exists(r)
      BY <2>2, <2>4 DEF Exists
    <3> QED
      BY <2>4, <3>1 DEF FateInv, CyclesFit
  <2>8. Rests(x)
    BY <1>0, <2>1, <2>2, <2>3 DEF Rests, Fate
  <2>9. \A r \in Rows : Rests(r)
    BY <1>0, <2>2, <2>8 DEF Rests, Fate
  <2> QED
    BY <2>5, <2>6, <2>7, <2>9 DEF FateInv, Fates
<1> QED
  BY <1>1, <1>2

(* One row is sent, has its handle stored, or is refused. *)
LEMMA OneSends ==
  ASSUME NEW x \in Rows, row' = row, row[x].status = "sent", ~row[x].handle,
         sent[x] = 0, sent'[x] = 1, \A r \in Rows \ {x} : sent'[r] = sent[r]
  PROVE  OneMoves
<1>1. Fate(x) = "open"
  BY DEF Fate
<1>2. Fate(x)' = "open"
  BY DEF Fate
<1>3. Sends(x)
  BY <1>1, <1>2 DEF Sends
<1>4. \A r \in Rows \ {x} : Rests(r)
  BY DEF Rests, Fate
<1> QED
  BY <1>3, <1>4 DEF OneMoves, Moves

LEMMA OneStores ==
  ASSUME NEW x \in Rows, sent' = sent, sent[x] = 1, ~row[x].handle, row'[x].handle,
         \A r \in Rows \ {x} : row'[r] = row[r]
  PROVE  OneMoves
<1>1. Fate(x) = "open"
  BY DEF Fate
<1>2. Fate(x)' = "done"
  BY DEF Fate
<1>3. Stores(x)
  BY <1>1, <1>2 DEF Stores
<1>4. \A r \in Rows \ {x} : Rests(r)
  BY DEF Rests, Fate
<1> QED
  BY <1>3, <1>4 DEF OneMoves, Moves

LEMMA OneRefuses ==
  ASSUME NEW x \in Rows, sent' = sent, sent[x] = 0, ~row[x].handle,
         row[x].status \notin {"failed", "deleted"},
         row'[x].handle = row[x].handle, row'[x].status = "failed",
         \A r \in Rows \ {x} : row'[r] = row[r]
  PROVE  OneMoves
<1>1. Fate(x) = "open"
  BY DEF Fate
<1>2. ~row'[x].handle
  OBVIOUS
<1>3. Fate(x)' = "refused"
  BY <1>2 DEF Fate
<1>4. Refuses(x)
  BY <1>1, <1>3 DEF Refuses
<1>5. \A r \in Rows \ {x} : Rests(r)
  BY DEF Rests, Fate
<1> QED
  BY <1>4, <1>5 DEF OneMoves, Moves

(* A message is sent while it is open, and open for who has it. *)
LEMMA SendMoves ==
  ASSUME Calm, IInv, LockHeld, FateInv, NEW d \in Drains,
         Identity(d) \/ Send(d) \/ Count(d) \/ InviteSend(d)
  PROVE  FateInv' /\ Fates
<1> DEFINE x == drain[d].row
<1>0. /\ drain[d].pc \in Holding \ {"enqueue"} /\ UNCHANGED row
      /\ drain[d].pc \in {"send", "identity", "invite"} => drain[d].pc \in Unsent
  BY DEF Identity, Send, Count, InviteSend, Keep, Holding, Unsent
<1>1. /\ x \in Rows /\ row[x] \in Outbound /\ ~Fault
      /\ row[x].handle => sent[x] = 1
      /\ drain[d].pc \in Unsent =>
           sent[x] = 0 /\ ~row[x].handle /\ row[x].status \in {"sent", "deleted"}
  BY <1>0, HeldFate
<1>2. sent \in [Rows -> Nat]
  BY DEF IInv, TypeOK
<1>3. CASE Identity(d) \/ Count(d)
  <2>1. UNCHANGED sent
    BY <1>3 DEF Identity, Count, Keep
  <2>2. PICK pc \in {"release", "lock", "send", "next"} :
          Goes(d, pc) /\ (pc \in Unsent => drain[d].pc \in Unsent)
    BY <1>1, <1>3 DEF Identity, Count, Unsent
  <2>3. FateInv'
    BY <1>0, <1>1, <2>1, <2>2, DrainFate DEF Holding, Exists
  <2>4. \A r \in Rows : Rests(r)
    BY <1>0, <2>1 DEF Rests, Fate
  <2> QED
    BY <2>3, <2>4 DEF Fates
<1>4. CASE Send(d) \/ InviteSend(d)
  <2>1. PICK pc \in {"record", "commit"} : Goes(d, pc) /\ Accepts(x)
    BY <1>1, <1>4 DEF Send, InviteSend
  <2>2. /\ drain[d].pc \in Unsent /\ sent[x] = 0 /\ sent'[x] = 1
        /\ \A r \in Rows \ {x} : sent'[r] = sent[r]
    <3>1. drain[d].pc \in Unsent
      BY <1>4 DEF Send, InviteSend, Unsent
    <3> QED
      BY <1>1, <1>2, <2>1, <3>1 DEF Accepts
  <2>3. row[x].status # "deleted"
    <3>1. CASE Send(d)
      <4>1. x \in Mirrored
        BY <1>1, <3>1 DEF Send, LockHeld, Rows
      <4> QED
        BY <4>1 DEF FateInv, CyclesFit
    <3>2. CASE InviteSend(d)
      BY <3>2 DEF InviteSend, LockHeld, Exists
    <3> QED
      BY <1>4, <3>1, <3>2
  <2>4. FateInv'
    <3>1. pc \in Holding \cup {"next"} /\ pc \notin Unsent
      BY DEF Holding, Unsent
    <3> QED
      BY <1>0, <1>1, <2>1, <2>2, <3>1, DrainFate DEF Exists
  <2>5. OneMoves
    <3>1. row[x].status = "sent" /\ ~row[x].handle
      BY <1>1, <2>2, <2>3
    <3> QED
      BY <1>0, <1>1, <2>2, <3>1, OneSends
  <2> QED
    BY <2>4, <2>5 DEF Fates
<1> QED
  BY <1>3, <1>4

(* A drain's write of its row settles what it says. *)
LEMMA WriteMoves ==
  ASSUME Calm, IInv, FateInv, NEW d \in Drains,
         Release(d) \/ Record(d) \/ Fail(d) \/ Lock(d) \/ InviteCommit(d)
  PROVE  FateInv' /\ Fates
<1> DEFINE x == drain[d].row
<1>0. /\ drain[d].pc \in Holding \ {"enqueue"} /\ sent' = sent
  BY DEF Release, Record, Fail, Lock, InviteCommit, Keep, Holding
<1>1. /\ x \in Rows /\ row[x] \in Outbound /\ ~Fault /\ row \in [Rows -> Outbound]
      /\ row[x].handle => sent[x] = 1
      /\ drain[d].pc \in Unsent =>
           sent[x] = 0 /\ ~row[x].handle /\ row[x].status \in {"sent", "deleted"}
      /\ drain[d].pc \in {"record", "commit"} => sent[x] = 1
      /\ drain[d].pc = "fail" => ~Exists(x)
  BY <1>0, HeldFate
<1>2. ASSUME UNCHANGED row PROVE \A r \in Rows : Rests(r)
  BY <1>0, <1>2 DEF Rests, Fate
<1>3. CASE Release(d)
  <2>1. PICK pc \in {"next", "fail"} : Goes(d, pc) /\ drain[d].pc = "release"
    BY <1>3 DEF Release
  <2>2. /\ drain[d].pc \in Unsent /\ pc \notin Unsent \cup {"record", "commit"}
        /\ pc \in Holding \cup {"next"}
    BY <2>1 DEF Unsent, Holding
  <2>3. CASE Exists(x)
    <3>1. /\ row'[x].status = "pending" /\ row'[x].handle = row[x].handle
          /\ \A r \in Rows \ {x} : row'[r] = row[r]
      BY <1>1, <1>3, <2>3 DEF Release, Update, Outbound
    <3>2. row[x].status = "sent"
      BY <1>1, <2>2, <2>3 DEF Exists
    <3>3. FateInv'
      BY <1>0, <1>1, <2>1, <2>2, <2>3, <3>1, DrainFate
    <3>4. \A r \in Rows : Rests(r)
      BY <1>0, <1>1, <2>2, <3>1, <3>2 DEF Rests, Fate
    <3> QED
      BY <3>3, <3>4 DEF Fates
  <2>4. CASE ~Exists(x)
    <3>1. row' = row
      BY <1>3, <2>4 DEF Release, Update
    <3>2. FateInv'
      BY <1>0, <1>1, <2>1, <2>2, <3>1, DrainFate DEF Exists
    <3> QED
      BY <1>2, <3>1, <3>2 DEF Fates
  <2> QED
    BY <2>3, <2>4
<1>4. CASE Fail(d)
  <2>1. PICK pc \in {"next", "enqueue"} : Goes(d, pc) /\ drain[d].pc = "fail"
    BY <1>4 DEF Fail
  <2>2. row' = row
    BY <1>1, <1>4, <2>1 DEF Fail
  <2>3. pc \notin Unsent \cup {"record", "commit"} /\ pc \in Holding \cup {"next"}
    BY DEF Unsent, Holding
  <2>4. FateInv'
    BY <1>0, <1>1, <2>1, <2>2, <2>3, DrainFate DEF Exists
  <2> QED
    BY <1>2, <2>2, <2>4 DEF Fates
<1>5. CASE Lock(d)
  <2>1. PICK pc \in {"next", "invite"} : Goes(d, pc) /\ drain[d].pc = "lock"
    BY <1>5 DEF Lock
  <2>2. drain[d].pc \in Unsent /\ pc \notin {"record", "commit"} /\ pc \in Holding \cup {"next"}
    BY <2>1 DEF Unsent, Holding
  <2>3. CASE row' = row
    <3>1. FateInv'
      BY <1>0, <1>1, <2>1, <2>2, <2>3, DrainFate DEF Exists
    <3> QED
      BY <1>2, <2>3, <3>1 DEF Fates
  <2>4. CASE row' # row
    <3>1. Goes(d, "next") /\ Exists(x) /\ row' = [row EXCEPT ![x].status = "failed"]
      BY <1>5, <2>4 DEF Lock, Update
    <3>2. /\ row'[x].status = "failed" /\ row'[x].handle = row[x].handle
          /\ \A r \in Rows \ {x} : row'[r] = row[r]
      BY <1>1, <3>1 DEF Outbound
    <3>3. row[x].status = "sent" /\ sent[x] = 0 /\ ~row[x].handle
      BY <1>1, <2>2, <3>1 DEF Exists
    <3>4. "next" \notin Unsent
      BY DEF Unsent
    <3>5. FateInv'
      BY <1>0, <1>1, <3>1, <3>2, <3>3, <3>4, DrainFate
    <3>6. OneMoves
      BY <1>0, <1>1, <3>2, <3>3, OneRefuses
    <3> QED
      BY <3>5, <3>6 DEF Fates
  <2> QED
    BY <2>3, <2>4
<1>6. CASE Record(d) \/ InviteCommit(d)
  <2>1. PICK pc \in {"next", "count"} : Goes(d, pc)
    BY <1>1, <1>6 DEF Record, InviteCommit
  <2>2. pc \notin Unsent \cup {"record", "commit"} /\ pc \in Holding \cup {"next"}
    BY DEF Unsent, Holding
  <2>3. sent[x] = 1
    BY <1>1, <1>6 DEF Record, InviteCommit
  <2>4. CASE row' = row
    <3>1. FateInv'
      BY <1>0, <1>1, <2>1, <2>2, <2>4, DrainFate DEF Exists
    <3> QED
      BY <1>2, <2>4, <3>1 DEF Fates
  <2>5. CASE row' # row
    <3>1. Exists(x) /\ row' = [row EXCEPT ![x].handle = TRUE]
      BY <1>1, <1>6, <2>5 DEF Record, InviteCommit
    <3>2. /\ row'[x].status = row[x].status /\ row'[x].handle = TRUE
          /\ \A r \in Rows \ {x} : row'[r] = row[r]
      BY <1>1, <3>1 DEF Outbound
    <3>3. FateInv'
      BY <1>0, <1>1, <2>1, <2>2, <2>3, <3>1, <3>2, DrainFate
    <3>4. CASE row[x].handle
      <4>1. \A r \in Rows : Rests(r)
        <5>1. row[x].handle = TRUE
          BY <1>1, <3>4 DEF Outbound
        <5> QED
          BY <1>0, <3>2, <5>1 DEF Rests, Fate
      <4> QED
        BY <3>3, <4>1 DEF Fates
    <3>5. CASE ~row[x].handle
      <4>1. OneMoves
        BY <1>0, <1>1, <2>3, <3>2, <3>5, OneStores
      <4> QED
        BY <3>3, <4>1 DEF Fates
    <3> QED
      BY <3>4, <3>5
  <2> QED
    BY <2>4, <2>5
<1> QED
  BY <1>3, <1>4, <1>5, <1>6

(* Every step leaves what is settled, or is one of one row's promise. *)
LEMMA NextMoves == Calm /\ IInv /\ LockHeld /\ FateInv /\ [Next]_vars => FateInv' /\ Fates
<1> SUFFICES ASSUME Calm, IInv, LockHeld, FateInv, [Next]_vars PROVE FateInv' /\ Fates
  OBVIOUS
<1>1. ASSUME NEW d \in Drains, Step(d) PROVE FateInv' /\ Fates
  BY <1>1, RestMoves, ClaimMoves, SendMoves, WriteMoves DEF Step
<1>2. ASSUME NEW d \in Drains, TransactionTimesOut(d) \/ Crash(d) PROVE FateInv' /\ Fates
  BY <1>2, RestMoves
<1> QED
  BY <1>1, <1>2, RestMoves, RepliesMove, CyclesMove DEF Next

(* What the steps do to the rows is what the promise allows. *)
LEMMA FatePromises == IInv /\ IInv' /\ Fates => PromiseStep
BY StepOfPromise DEF IInv, TypeOK, Fates

(* Where no statement and no call fails and no transaction runs out of     *)
(* time, whoever dies: a row is accepted at most once and never after it   *)
(* was failed or deleted, and a handle is stored only of what was          *)
(* accepted. The outbox implements the promise of EffectPromise.           *)
THEOREM RowsImplement ==
  ASSUME MaxFaults = 0, MaxTimeouts = 0 PROVE Spec => RowsKeepPromise
<1>0. Calm
  BY DEF Calm
<1>1. Init => OutboxPromise!PromiseInit /\ LockHeld /\ FateInv
  <2> SUFFICES ASSUME Init PROVE OutboxPromise!PromiseInit /\ LockHeld /\ FateInv
    OBVIOUS
  <2>1. Mirrored \subseteq Rows /\ Invites \subseteq Rows
    BY DEF Rows
  <2>2. \A r \in Rows : row[r].handle = FALSE /\ row[r].status = "absent" /\ sent[r] = 0
    BY DEF Init, Absent
  <2>3. \A r \in Rows : Fate(r) = "open"
    BY <2>2 DEF Fate
  <2>4. OutboxPromise!PromiseInit
    <3>1. [r \in Rows |-> Fate(r)] = [r \in Rows |-> "open"]
      BY <2>3
    <3>2. [r \in Rows |-> IF row[r].handle THEN {"done"} ELSE {}] = [r \in Rows |-> {}]
      BY <2>2
    <3> QED
      BY <3>1, <3>2 DEF OutboxPromise!PromiseInit, Init
  <2>5. LockHeld
    BY DEF Init, Idle, LockHeld
  <2>6. FateInv
    BY <2>1, <2>2 DEF Init, Idle, FateInv, HandlesFit, UnsentFits, CyclesFit, Exists, Unsent
  <2> QED
    BY <2>4, <2>5, <2>6
<1>2. IInv /\ LockHeld /\ [Next]_vars => LockHeld'
  <2>1. ASSUME IInv, NEW d \in Drains PROVE ~TransactionTimesOut(d)
    BY <2>1 DEF TransactionTimesOut, IInv, TypeOK
  <2> QED
    BY <2>1, StepKeepsLock, OthersKeepLock DEF Next
<1>3. IInv /\ LockHeld /\ FateInv /\ [Next]_vars => FateInv'
  BY <1>0, NextMoves
<1>4. IInv /\ IInv' /\ LockHeld /\ FateInv /\ [Next]_vars
        => [OutboxPromise!PromiseNext]_(OutboxPromise!promiseVars)
  BY <1>0, NextMoves, FatePromises DEF PromiseStep
<1> QED
  BY <1>1, <1>2, <1>3, <1>4, Invariant, PTL
  DEF Spec, RowsKeepPromise, OutboxPromise!PromiseSpec
=============================================================================
